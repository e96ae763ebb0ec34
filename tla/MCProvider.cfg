SPECIFICATION MCSpec
CONSTANTS
    c1 = c1
    c2 = c2
    p = p
    q = q
    t1 = t1
    t2 = t2
    Conversation = {c1, c2}
    Peer = {q}
    Text = {t1, t2}
    Nobody = Nobody
    Blank = Blank
    MaxConversations = 2
    MaxMessages = 1
    Passphrase = "passphrase"
    Files <- OneConversation
    Disks <- Stored
    Event = {"lock", "passphrase", "append", "clear", "fail", "import", "fault"}
    MaxEvents = 2
    MaxDerivations = 1
    MaxMounts = 2
    MaxBootFaults = 1
    MaxLives = 3
    MaxLoads = 3
    MaxKeychainFaults = 2
INVARIANTS
    AuthFailedRemembered
    MountsOwnTheirStore
    ExportRestores
    SnapshotReloads
    ValidationIsExact
PROPERTIES
    PinsAreKept
    LockHolds
CHECK_DEADLOCK FALSE
