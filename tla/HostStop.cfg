\* The claim at main.ts:844 about a computer found blocked.
CONSTANTS
    NoHello = NoHello
    NoGrant = NoGrant
    NoWindow = NoWindow
    Link = {l1, l2}
    Lan = {}
    Viewer = {v1}
SPECIFICATION Spec
INVARIANT StoppedMeansNobody
