SPECIFICATION Spec
CONSTANTS
    Callers = {c1, c2}
    MaxRequests = 2
    MaxNoise = 1
    PipeCapacity = 4
INVARIANTS TypeOK AnswerIsOwn WakesForItsAnswer LeftoversAreAbandoned
PROPERTIES ImplementsRequests EveryRequestEnds
\* The bound on requests ends every behaviour, and a hung server idles.
CHECK_DEADLOCK FALSE
