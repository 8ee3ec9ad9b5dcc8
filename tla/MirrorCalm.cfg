SPECIFICATION Spec
CONSTANTS
    EmptyLine <- MCBlank
    Notebooks <- MCNotebooks
    NewLines <- MCNewLines
    FrozenLine <- MCFrozen
    Ids = {1, 2, 3}
    Scratches = {1}
    MaxOps = 2
    MaxTyped = 1
    Meanwhile = FALSE
    Leftovers = FALSE
INVARIANTS
    InStep
    NoDeadRegistration
PROPERTIES
    FileGoesWithBuffer
    SaveFaithful
    EditsKept
CHECK_DEADLOCK FALSE
