CONSTANTS
    Users = {u1}
    Customers = {c1}
    Subscriptions = {s1}
    Handlers = {h1}
    MaxEvents = 3
    Deliveries = {"replayed"}
    Nothing = Nothing
SPECIFICATION Spec
INVARIANT ReplayConverges
CHECK_DEADLOCK FALSE
