\* The claim at docs/ARCHITECTURE.md:134 about revoking trust.
CONSTANTS
    NoHello = NoHello
    NoGrant = NoGrant
    NoWindow = NoWindow
    Link = {l1, l2}
    Lan = {}
    Viewer = {v1}
SPECIFICATION Spec
INVARIANT RevokedDevicesAreOut
