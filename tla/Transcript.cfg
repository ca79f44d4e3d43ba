SPECIFICATION Spec
CONSTANTS
    Ids = {a, b, c}
    Families = {function_call, custom_tool_call}
    Ordinals = {0, 1, 2}
    MaxStates = 4
    MaxRetired = 2
    MaxOccurrences = 2
    MaxOrdinals = 2
    Modes = {"legacy", "paginated"}
    MaxRecords <- LongEnough
    NoOrdinal = NoOrdinal
SYMMETRY IdSymmetry
VIEW Summary
CHECK_DEADLOCK FALSE
INVARIANTS TypeOK SilentMeansOneToOne InterruptedIsReported HealthyIsClean OrdinalReuseIsKnown MemoryBounded
