SPECIFICATION FairSpec
CONSTANTS
    Procs = {p1, p2}
    Writers = {p1, p2}
    Readers = {p2}
    Entries = {e1, e2}
    NoEntry = NoEntry
    NoProc = NoProc
    MaxTries = 2
    MaxFaults = 1
INVARIANTS CurrentEntryComplete PublishedIsCurrent NoSpuriousReadError CleanupLeavesOnlyCurrent
PROPERTIES EveryCallReturns
