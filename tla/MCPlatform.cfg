SPECIFICATION PlatformSpec
CONSTANTS
    alice = alice
    bob = bob
    w1 = w1
    w2 = w2
    g = g
    a1 = a1
    a2 = a2
    b1 = b1
    b2 = b2
    None = None
    Users = {alice, bob}
    Registered = {alice}
    Subjects = {alice}
    Workers = {w1, w2}
    MaxTime = 2
    Names = {"a", "b"}
    UserName <- MCUserName
    Payloads = {"a"}
    PatchInputs <- MCPatchInputs
    Modes = {"live", "", "maintenance"}
    Themes = {"theme-forest"}
    Refreshes <- MCRefreshes
    Legacy <- MCLegacy
    LegacyPreferences <- MCLegacyPreferences
    MaxBusy = 1
    Statuses = {"online", "away", "offline", "busy"}
    Minute = 0
    Day = 0
    Month = 1
    Endpoints = {"e1", "e2"}
    NStatuses = {"pending", "sent"}
    MaxAttempts = 2
    Hashes = {"h1"}
    Blocks = {g, a1, a2, b1, b2}
    Number <- MCNumber
    Parent <- MCParent
    MaxNumber = 2
    Spends <- MCSpends
    Approvals <- MCApprovals
    Factors = {"device", "passkey", "guardian"}
    Threshold = 2
    NoteValue = 16
    Width = 6
    MaxProofs = 1
SYMMETRY MCSymmetry
INVARIANTS PlatformTypeOK AnswersKept ChoicesKept CountsAreHeard
           SubscriptionsKept RemovalsHold ReportsKept FilesKept ImportComplete
           RangeIsOneChain MarksFollowTransactions EnoughApprove
PROPERTY SeenForward
CHECK_DEADLOCK FALSE
