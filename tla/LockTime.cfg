SPECIFICATION Spec
CONSTANTS
    Glonass = {r}
    Others = {g}
    Tracked <- OneSystem
    Kinds = {1, 4, 7}
    Starts <- WeekEnd
    Steps <- Gaps
    MaxTime = 604800500
    MaxSent = 3
INVARIANTS TypeOK NoMissedSlip NoFalseAlarm
