\* Guessing spread over two peers: overlapping attempts, rotation, new codes.
\* Two devices on two accounts, a third connection to replace one of theirs.
CONSTANTS
    Peer = {d1, d2}
    Handshake = {c1, c2, c3}
    NoAttempt = NoAttempt
    MaxPending = 2
    MaxPendingPerPeer = 2
    FreeFailures = 2
    BaseLockout = 1
    MaxLockout = 2
    RotateAfter = 3
    PeerTtl = 1
    MaxPeers = 3
    MaxCode = 2
    MaxTime = 2
    Device = {d1, d2}
    Account = {a1, a2}
    Connection = {c1, c2, c3}
    Session = {s1, s2}
    None = None
    MaxSessions = 1
    Checked = {"guesses", "relay"}
    Typist = {}
    LayoutKey = {"a"}
    ShiftKey = {}
    ForeignKey = {}
    Slot = {}
    MaxUnread = 0
    MaxHeld = 0
    Reader = {r1}
    Text = {}
    MaxCopies = 0
    MaxTexts = 0
    MaxReads = 0
    Nonce = {}
    Caller = {}
    WindowMs = 1
    MaxEntries = 1
    PerWindow = 1
    BrakeMs = 1
    MaxCallers = 1
    LastTick = 0
SPECIFICATION SharingSpec
SYMMETRY AlikeAtTheGates
INVARIANTS CountersMatchAttempts GuessBudget OpenIsRightful SessionsJoinDevices
PROPERTY LockoutsStand
