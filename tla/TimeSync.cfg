SPECIFICATION Spec
CONSTANTS
    MaxTime = 3
    MaxCalls = 3
    SampleKinds = {"rate", "increment"}
    GnssKinds = {"loose", "tight"}
    PseudoKinds = {"stationary"}
    Configs <- Small
INVARIANTS TypeOK HistoryOrdered NothingForgotten
PROPERTIES ImplementsInOrder
