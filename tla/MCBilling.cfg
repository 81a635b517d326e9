CONSTANTS
    Users = {u1, u2}
    Customers = {c1, c2}
    Subscriptions = {s1}
    Handlers = {h1, h2}
    MaxEvents = 3
    Deliveries = {"any", "ordered"}
    Nothing = Nothing
SPECIFICATION Spec
SYMMETRY Symmetry
INVARIANTS
    RowsAreOwn
    PremiumWasPaid
    TierFollowsStripe
CHECK_DEADLOCK FALSE
