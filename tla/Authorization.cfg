\* The installation's answers, the service that gives them, the account.
CONSTANTS
    Check = {k1, k2}
    MaxGrace = 1
    Slack = 1
    Skews <- SomeSkews
    Graces <- SomeGraces
    MaxTokens = 6
    MaxClock = 3
    MaxBlocks = 1
    Request = {1, 2, 3}
    Nonce = {n1}
    Allowed = 2
    Span = 0
    MaxHour = 1
    Peer = {p}
    Call = {c1, c2}
    MaxChanges = 2
    MaxSignIns = 2
    MaxPushes = 1
SPECIFICATION Spec
INVARIANTS AuthorizationHolds WorkerHolds RelaysAreHeld
PROPERTY NewsArrives
CHECK_DEADLOCK FALSE
