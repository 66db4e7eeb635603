\* Two calls that switch the host, on a port that may be taken and a disk that
\* may be full; two tries of a viewer; blocks that stay, on one account.
CONSTANTS
    t1 = t1  t2 = t2  a1 = a1  a2 = a2  c1 = c1  c2 = c2  c3 = c3
    Task = {t1, t2}
    MaxAnnouncer = 2
    MaxCode = 2
    RotateAfter = 1
    PortMayBeTaken = TRUE
    DiskMayFail = TRUE
    Try = {a1, a2}
    NoTry = NoTry
    MaxAttempt = 1
    Device = {d1, d2}
    Account = {a}
    Connection = {c1, c2}
    Session = {s1}
    None = None
    MaxSessions = 1
SPECIFICATION FairSpec
INVARIANTS ShownIsSo ReconnectingMeansScheduled
PROPERTIES DeliberateIsFinal RolesSettle
CHECK_DEADLOCK FALSE
