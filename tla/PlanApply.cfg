SPECIFICATION Spec
CONSTANTS
    MaxLines = 2
    MaxApplies = 2
INVARIANTS TypeOK AppliedAsPlanned MutatesUnderGuard CheckedSourceKept
