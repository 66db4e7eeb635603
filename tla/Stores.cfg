\* A file, the vault, the connections with their passwords, one click; two viewers
\* that come and go while access to the input is asked for; updates of the settings.
CONSTANTS
    MaxVersion = 3
    MaxQueue = 2
    Secret = {a, b}
    VaultOp = {o1, o2}
    MaxVaultCalls = 5
    Conn = {a, b}
    ConnOp = {o1, o2}
    Address = {1, 2}
    MaxEdits = 3
    Lapse = 2
    MaxDay = 4
    MaxConnects = 3
    Guest = {g1, g2}
    MaxAttempts = 3
    Updating = {u1, u2}
    Choice = {x, y}
    DefaultChoice = x
    MaxUpdates = 3
SPECIFICATION Spec
INVARIANTS FilesHold PasswordsAreKept AccessHolds
PROPERTIES FileIsDurable StoresSettle
CHECK_DEADLOCK FALSE
