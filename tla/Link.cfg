\* Three messages, two things done to them on the way; timers of two ticks; one
\* host on two networks and two searches for it.
CONSTANTS
    MaxSaid = 3  MaxMeddles = 2  MaxChunk = 4
    MaxCandidates = 1
    Watcher = {w1, w2}  Switcher = {x1}  MaxTracks = 3
    Settle = 2  HangKill = 2  KillAfter = 2
    Machine = {m1}  Net = {1, 2}  Default = default  MaxChanges = 2  MaxSearches = 2
SPECIFICATION Spec
INVARIANTS LinkHolds MediaHolds FoundIsTrue
PROPERTIES LinkIsOrdered SwitchFreezesNobody ToldIsTrue EveryWaitEnds
CHECK_DEADLOCK FALSE
