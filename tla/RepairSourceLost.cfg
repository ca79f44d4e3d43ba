SPECIFICATION Spec
CONSTANTS
    t1 = t1
    t2 = t2
    r1 = r1
    r2 = r2
    Threads = {t1, t2}
    Rescues = {r1}
    Target <- SingleTarget
    Codex = Codex
    Nobody = Nobody
    MaxAppends = 2
    MaxCommits = 1
    MaxRuns = 1
    Faults = FALSE
    WriterExcluded = FALSE
INVARIANT SourceKeepsEveryRecord
CHECK_DEADLOCK FALSE
