CONSTANTS
    p1 = p1
    p2 = p2
    r1 = r1
    r2 = r2
    Users = {1, 2}
    Products = {p1, p2}
    Handlers = {h1, h2}
    Workers = {w1, w2}
    Nothing = Nothing
    Kinds = {"price-drop", "expiring"}
    BatchSize = 1
    Day = 2
    WeekAgo <- TenAWeekAgo
    LivePrices = {8}
    Target = Nothing
    Threshold = 10
    MaxStalls = 1
    LastHour = 1
    MaxNotices = 2
    Imports = {r1, r2}
    FileRows <- TwoRowsOrNone
    Approvals <- SomeApprovals
    MaxApplied = 2
    Similarity <- Nearest
    Embedded = TRUE
    Outages = 1
    ImportStalls = 1
    Receipts = {r1}
    Attempts = 2
    ReceiptStalls = 1
    Texts <- SomeTexts
    Replies <- SomeReplies
SPECIFICATION BackgroundSpec
SYMMETRY Symmetry
INVARIANTS
    NotifiedOnce
    EnabledAreVisited
    LinesCountOnce
    CountsAreRecorded
    CatalogueIsFollowed
CHECK_DEADLOCK FALSE
