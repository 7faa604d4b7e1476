SPECIFICATION Spec
CONSTANTS
    MaxTime = 2
    MaxCalls = 2
    SampleKinds = {"increment"}
    GnssKinds = {"loose"}
    PseudoKinds = {}
    Configs <- Small
INVARIANTS NotFusedTwice
