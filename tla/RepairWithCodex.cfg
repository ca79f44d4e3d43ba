SPECIFICATION Spec
CONSTANTS
    t1 = t1
    t2 = t2
    r1 = r1
    r2 = r2
    Threads = {t1, t2}
    Rescues = {r1}
    Target <- SingleTarget
    Codex = Codex
    Nobody = Nobody
    MaxAppends = 2
    MaxCommits = 1
    MaxRuns = 2
    Faults = TRUE
    WriterExcluded = FALSE
INVARIANTS TypeOK PlannedSourceSurvives BackupIsThePlan LockHeldOnlyToCommit
PROPERTIES InsertNeverReplaces StartedRepairEnds
\* The bounds on runs, appends and commits end every behaviour.
CHECK_DEADLOCK FALSE
