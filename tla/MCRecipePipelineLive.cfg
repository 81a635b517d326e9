CONSTANTS
    Recipes = {i1}
    Handlers = {h1}
    Jobs = {j1, j2}
    Lines = 2
    Attempts = 2
    MaxStalls = 1
    Workers = 2
    Faults = {}
    Nothing = Nothing
SPECIFICATION FairSpec
PROPERTY
    Settles
CHECK_DEADLOCK FALSE
