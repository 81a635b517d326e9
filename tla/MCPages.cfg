CONSTANTS
    scan = scan
    chat = chat
    Users = {u1}
    DailyKinds = {chat}
    MonthlyKinds = {scan}
    Limit <- MCLimit
    Enforced = TRUE
    DaysPerMonth = 2
    LastDay = 1
    Requests = {r1, r2}
    MaxCount = 3
    Nothing = Nothing
    Sites <- SomeSites
    Writes = {w1, w2}
    MaxVisits = 3
    MaxForms = 2
    MaxFetches = 1
    Absent = Absent
SPECIFICATION MCSpec
SYMMETRY Symmetry
INVARIANTS
    RefusedOnlyWhenSpent
    OutcomeIsShown
    FormsAreKept
PROPERTY
    ImplementsMeter
CHECK_DEADLOCK FALSE
