\* Two viewers, on a host with two keys to be borrowed; two clipboards beside
\* the host's; a table of two nonces, one caller or two peers.
CONSTANTS
    Typist = {v1, v2}
    LayoutKey = {"a", "ShiftLeft", "ShiftRight"}
    ShiftKey = {"ShiftLeft", "ShiftRight"}
    ForeignKey = {zhe, ya}
    Slot = {k1, k2}
    MaxUnread = 2
    MaxHeld = 2
    Reader = {v1, v2}
    Text = {k1, k2}
    MaxCopies = 2
    MaxTexts = 1
    MaxReads = 2
    Nonce = {n1, n2, n3}
    Caller = {b1, b2}
    WindowMs = 1
    MaxEntries = 2
    PerWindow = 1
    BrakeMs = 2
    MaxCallers = 1
    LastTick = 4
    NoAttempt = NoAttempt
    Peer = {p1, p2, p3}
    Handshake = {h1, h2}
    MaxPending = 1
    MaxPendingPerPeer = 1
    FreeFailures = 1
    BaseLockout = 3
    MaxLockout = 3
    RotateAfter = 5
    PeerTtl = 1
    MaxPeers = 2
    MaxCode = 1
    MaxTime = 4
    Device = {}
    Account = {}
    Connection = {}
    Session = {}
    None = None
    MaxSessions = 1
    Checked = {"keys", "clipboards", "hellos", "tries", "guesses"}
SPECIFICATION SharingSpec
SYMMETRY Interchangeable
CONSTRAINT NotRaced
INVARIANTS SharingHolds TablesHold
CHECK_DEADLOCK FALSE
