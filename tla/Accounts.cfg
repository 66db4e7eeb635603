\* Tokens, throttles and the relay client, each on its own.
CONSTANTS
    Errand = {e1, e2}
    MaxToken = 3
    Limit = 2
    Window = 2
    MaxGuess = 4
    MaxNow = 4
    Target = {d1, d2}
    Req = {r1, r2}
    Sess = {s1}
    MaxSockets = 2
    MaxFrames = 2
SPECIFICATION Spec
SYMMETRY Interchangeable
INVARIANTS AccountsHold RelayClientHolds
PROPERTY SignInsAreSessions
CHECK_DEADLOCK FALSE
