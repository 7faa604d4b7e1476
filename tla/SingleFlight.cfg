SPECIFICATION FairSpec
CONSTANTS
    Procs = {p1, p2}
    Prompt = {}
    Tokens = {t1, t2}
    NoTok = NoTok
    NoProc = NoProc
    Poll = 1
    Heartbeat = 1
    Liveness = 2
    WaitTimeout = 2
    MaxOpens = 1
    MaxBeats = 2
INVARIANTS TypeOK OneCommit CommitterIsOwner
PROPERTIES NoOwnerAfterCommit NoHeartbeatAfterReap EveryOpenReturns
