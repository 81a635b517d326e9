CONSTANTS
    i1 = i1
    i2 = i2
    rice = rice
    r1 = r1
    b1 = b1
    Users = {1, 2}
    Products = {}
    Handlers = {h1, h2}
    Workers = {}
    Nothing = Nothing
    Items = {i1, i2}
    NamesOf <- RiceOnly
    Ingredients = {rice}
    Density <- NotKnown
    GramsPerPiece <- NotKnown
    Entries <- SomeEntries
    Changes <- SomeChanges
    ScanAnswers <- SomeScans
    MaxUpdates = 2
    Cookbook <- OneRecipe
    Wishes <- SomeWishes
    Offered <- OneOffer
    Baskets = {b1}
    MaxWishes = 1
    Chats = {c1, c2}
    Context = 2
    ToolRounds = 1
    MaxQuestions = 2
    ToolCalls <- SomeCalls
    Shelf <- RiceOnShelf
    MatchedShelf <- MatchedRice
    Menu <- OneDish
    MenuPrices <- FiftyAPack
    WeeklyBudget <- FiveHundred
    BasketTotal <- Fifty
    Substitutes <- NoSubstitutes
    Pools <- SomePools
    Options <- SomeOptions
    Plans = {p1}
    Dishes <- ThreeDishes
    CostTables <- TwoTables
    PlanBodies <- SomeBodies
    ProfileDiet <- NoDiet
    ProfileGoals <- NoGoals
    MaxPlanCalls = 4
    Accts = {a1, a2}
    Emails = {e1, e2}
    GoogleIds = {g1, g2}
    Links = {k1, k2}
    MaxSignIns = 4
    s1 = s1
    s2 = s2
    s3 = s3
    Stores = {s1, s2, s3}
    Requirements = {1, 2, 3}
    Quantities <- TwoOrThree
    Catalogues <- AllShelves
    Deliveries <- SomeTerms
    StoreQuality <- Tenths
    Files <- SomeFiles
    WrittenLines <- SomeLines
    Pages <- SomePages
    PageNodes <- SomeNodes
    Nesting = 1
    Needs <- SomeNeeds
    Histories <- SomeHistories
    MinPoints = 3
    Recent = 1
    HistoryDays = 2
    MaxDays = 4
    Horizons = {1, 2}
    Forecasters = {h1, h2}
    Readers = {h1, h2}
    Ttl = 2
    MaxTicks = 3
    MaxBought = 2
    MaxMarks = 3
    Purchases <- SomePurchases
    MonthOf <- TurnOfMonth
    TrendMonths = 1
    Spent <- SomeSpent
    Suppers <- FiveSuppers
    Wanted <- SomeWanted
    PoolSize = 3
SPECIFICATION HouseholdSpec
SYMMETRY Symmetry
INVARIANTS
    UsageAddsUp
    BasketAndPantryCover
    WithinBudget
    PlansAreSound
    AnswersAreGrounded
    IdentitiesAreOwn
    CheapestIsLeast
    OneStop
    DeliveryIsBest
    MatchedAreBought
    ForeignDataIsUsable
    AdviceIsSound
    SummariesAreRecent
CHECK_DEADLOCK FALSE
