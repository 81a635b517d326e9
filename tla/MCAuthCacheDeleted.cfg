CONSTANTS
    Users = {u1}
    Validations = {v1, v2}
    Writers = {w1, w2}
    MaxVersion = 3
    NoEntry = NoEntry
    Nobody = Nobody
SPECIFICATION Spec
SYMMETRY Symmetry
INVARIANT DeletedRefused
CHECK_DEADLOCK FALSE
