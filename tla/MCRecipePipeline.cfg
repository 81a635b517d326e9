CONSTANTS
    Recipes = {i1}
    Handlers = {h1}
    Jobs = {j1, j2}
    Lines = 2
    Attempts = 2
    MaxStalls = 1
    Workers = 2
    Faults = {"handler", "worker", "mark"}
    Nothing = Nothing
SPECIFICATION Spec
SYMMETRY Symmetry
INVARIANTS
    WholeWhenReady
    ProcessingIsUnderway
CHECK_DEADLOCK FALSE
