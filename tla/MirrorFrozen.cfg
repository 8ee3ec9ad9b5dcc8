SPECIFICATION Spec
CONSTANTS
    EmptyLine <- MCBlank
    Notebooks <- MCNotebooks
    NewLines <- MCNewLines
    FrozenLine <- MCFrozen
    Ids = {1, 2, 3}
    Scratches = {1}
    MaxOps = 3
    MaxTyped = 0
    Meanwhile = FALSE
    Leftovers = TRUE
INVARIANT FrozenStaysOut
CHECK_DEADLOCK FALSE
