\* Three calls for two computers; three certificates, one of them vouched for;
\* two screens and the keys Shift and a letter.
CONSTANTS
    Checked = {"held", "launching", "typing", "painting"}
    c1 = c1  c2 = c2  c3 = c3
    p = p  q = q
    s1 = s1  s2 = s2
    Call <- MCCall
    Computer <- MCComputer
    Target <- MCTarget
    NoCall = NoCall
    MaxDrops = 1
    Cert = {k1, k2, k3}
    Vouched = {k1}
    NoCert = NoCert
    Screen <- MCScreen
    Letter = {la}
    NoScreen = NoScreen
    MaxOnTheWay = 2
    MaxShown = 2
    Updates <- SomeUpdates
    Others <- OtherMessages
    MaxMessages = 0
    MaxAttempts = 0
    InitialAttempts = 0
    MaxChanges = 0
    MaxRepaints = 0
SPECIFICATION Spec
SYMMETRY Interchangeable
INVARIANTS ActiveHolds RdpHolds WindowHolds
CHECK_DEADLOCK FALSE
