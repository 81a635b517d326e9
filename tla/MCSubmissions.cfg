CONSTANTS
    n1 = n1
    n2 = n2
    n3 = n3
    Handlers = {h1, h2}
    Names = {n1, n2, n3}
    Similar <- Chain
    Prices = {100, 130}
    MaxRows = 4
SPECIFICATION Spec
SYMMETRY Symmetry
INVARIANTS
    PricesAreBacked
    CountedOnceAlone
    ApprovedIsPriced
    ConsensusIsApproved
CHECK_DEADLOCK FALSE
