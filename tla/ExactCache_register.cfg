SPECIFICATION Spec
CONSTANTS
    Procs = {w, r}
    Writers = {w}
    Readers = {r}
    Entries = {e1, e2, e3}
    NoEntry = NoEntry
    NoProc = NoProc
    MaxTries = 2
    MaxFaults = 0
INVARIANTS TypeOK
PROPERTIES ImplementsRegister
