\* Two links of two viewers, one of them on the local network.
CONSTANTS
    NoHello = NoHello
    NoGrant = NoGrant
    NoWindow = NoWindow
    Link = {l1, l2}
    Lan = {l1}
    Viewer = {v1, v2}
SPECIFICATION FairSpec
INVARIANTS SessionsStand NoStrangers
PROPERTIES RevokedStaysRevoked HandshakesEnd
