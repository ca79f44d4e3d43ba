SPECIFICATION Spec
CONSTANTS
    Callers = {c1, c2}
    MaxRequests = 2
    MaxNoise = 1
    PipeCapacity = 1
PROPERTY EveryRequestEnds
CHECK_DEADLOCK FALSE
