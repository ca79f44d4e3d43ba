SPECIFICATION Spec
CONSTANTS
    Ids = {a, b, c}
    Families = {function_call}
    Ordinals = {0}
    MaxStates = 2
    MaxRetired = 2
    MaxOccurrences = 2
    MaxOrdinals = 1
    Modes = {"legacy"}
    MaxRecords <- Eviction
    NoOrdinal = NoOrdinal
SYMMETRY IdSymmetry
VIEW Summary
CHECK_DEADLOCK FALSE
INVARIANT OnlyPairsAreAccepted
