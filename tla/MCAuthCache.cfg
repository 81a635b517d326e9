CONSTANTS
    Users = {u1}
    Validations = {v1, v2}
    Writers = {w1, w2}
    MaxVersion = 2
    NoEntry = NoEntry
    Nobody = Nobody
SPECIFICATION FairSpec
INVARIANT CoherentUnlessDisturbed
PROPERTY EventuallyFresh
CHECK_DEADLOCK FALSE
