----------------------------- MODULE MCLockTime -----------------------------
(* A finite instance of LockTime: a run that starts shortly before the end   *)
(* of a week, with gaps below and above the resolution of an indicator, of a *)
(* day and of a week.                                                        *)
EXTENDS LockTime

OneSystem == {Glonass, Others}
WeekEnd == {WEEK_MS - 900}
Gaps == {600, DAY_MS - 500, WEEK_MS + 500}
=============================================================================
