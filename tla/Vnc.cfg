\* The VNC client's stream, and its session, each on its own.
CONSTANTS
    Checked = {"stream", "session"}
    c1 = c1  c2 = c2  c3 = c3
    p = p  q = q
    s1 = s1  s2 = s2
    Call <- MCCall
    Computer <- MCComputer
    Target <- MCTarget
    NoCall = NoCall
    MaxDrops = 0
    Cert = {k1}
    Vouched = {k1}
    NoCert = NoCert
    Screen <- MCScreen
    Letter = {}
    NoScreen = NoScreen
    MaxOnTheWay = 0
    MaxShown = 0
    Updates <- SomeUpdates
    Others <- OtherMessages
    MaxMessages = 6
    MaxAttempts = 3
    InitialAttempts = 2
    MaxChanges = 2
    MaxRepaints = 1
SPECIFICATION Spec
INVARIANTS StreamHolds VncHolds
PROPERTY VncSettles
CHECK_DEADLOCK FALSE
