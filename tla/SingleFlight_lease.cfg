SPECIFICATION Spec
CONSTANTS
    Procs = {p1, p2, p3}
    Prompt = {p1, p2, p3}
    Tokens = {t1, t2}
    NoTok = NoTok
    NoProc = NoProc
    Poll = 2
    Heartbeat = 2
    Liveness = 3
    WaitTimeout = 4
    MaxOpens = 1
    MaxBeats = 3
SYMMETRY Symmetry
INVARIANTS BoundedWait
PROPERTIES RefreshingOwnerKept RetiresOnlyWatched
