------------------------- MODULE RepairTransaction -------------------------
(***************************************************************************)
(* The derived-index repair of alpha7/simulation/transaction.py together   *)
(* with the backups and the rollback of alpha7/recovery/backup.py and the  *)
(* writer guard of alpha7/surfaces/desktop.py, run by several Rescue       *)
(* processes beside a Codex process that owns the same files.              *)
(*                                                                         *)
(* A rollout is the set of records in the file: Codex only appends, so the *)
(* set names the content, and two contents have the same SHA-256 exactly   *)
(* when the sets are equal.  The state database is the row it holds for    *)
(* each thread.                                                            *)
(***************************************************************************)
EXTENDS Integers

CONSTANTS
    Threads,         \* logical thread ids, each with one rollout file
    Rescues,         \* Rescue processes that run a repair
    Target,          \* the thread each Rescue process repairs
    Codex,           \* the Codex process, as an owner of the write lock
    Nobody,          \* the write lock is free
    MaxAppends,      \* bound: records Codex appends to one rollout
    MaxCommits,      \* bound: transactions Codex commits to the database
    MaxRuns,         \* bound: repairs one Rescue process starts
    Faults,          \* TRUE: crashes and I/O errors happen
    WriterExcluded   \* TRUE: the user starts no Codex during a repair

ASSUME RescuesAssumption ==
    /\ Target \in [Rescues -> Threads]
    /\ Codex \notin Rescues /\ Nobody \notin Rescues /\ Codex # Nobody

ASSUME BoundsAssumption ==
    /\ MaxAppends \in Nat /\ MaxCommits \in Nat /\ MaxRuns \in Nat
    /\ Faults \in BOOLEAN /\ WriterExcluded \in BOOLEAN

Garbage == -1                    \* a fragment of an overwritten record
Records == {Garbage} \cup 0..MaxAppends

NoRow     == 0                   \* no row for the thread
RescueRow == -1                  \* the row the repair inserts
Lost      == -2                  \* the file holding the row is truncated
Rows      == {NoRow, RescueRow, Lost} \cup 1..MaxCommits
Truncated == [t \in Threads |-> Lost]

Outcomes == {"ACTIVE", "INACTIVE", "ERROR"}
\* "strict" has a NOT NULL column the repair holds no proven value for
Schemas  == {"absent", "foreign", "threads", "strict"}
Causes   == {"none", "write", "source", "verify"}
Statuses == {"none", "BLOCKED", "STALE_PLAN", "RAISED",
             "REPAIRED", "ROLLED_BACK", "ROLLBACK_FAILED"}

Restoring == {"copySource", "checkSource", "restoreDb", "copyDb", "checkDb"}
Resting   == {"idle", "done", "crashed", "halfRestored"}
Steps     == {"guardProcess", "guardLock", "schema", "existing", "backupSource",
              "backupSourceCopy", "backupDb", "backupDbCopy", "recheckSource",
              "recheckProcess", "recheckLock", "insert", "commit",
              "verifySource", "verifyRow", "restoreSource"}
             \cup Restoring \cup Resting

VARIABLES
    codexUp,    \* a Codex process is running
    rollout,    \* the records of each thread's rollout file
    appended,   \* how many records Codex has ever appended to it
    db,         \* the threads table of the state database
    schema,     \* what the state database is: fixed for a behaviour
    lock,       \* who holds SQLite's write lock
    commits,    \* transactions Codex has committed

    pc,         \* the next step of each Rescue process
    runs,       \* repairs it has started
    shaBefore,  \* sha_before: the source it planned on
    probe,      \* the process probe's answer, awaiting the lock probe's
    backupSrc,  \* the manifest's entry for the rollout
    backupDb,   \* the manifest's entry for the state database
    cause,      \* the check that sent it into the rollback
    result      \* the status of the TransactionResult

codexVars == <<codexUp, appended, commits>>
files     == <<rollout, db>>
world     == <<codexVars, files, schema, lock>>
plan      == <<runs, shaBefore>>
backups   == <<backupSrc, backupDb>>
vars      == <<world, pc, plan, probe, backups, cause, result>>

TypeOK ==
    /\ codexUp \in BOOLEAN
    /\ rollout \in [Threads -> SUBSET Records]
    /\ appended \in [Threads -> 0..MaxAppends]
    /\ db \in [Threads -> Rows]
    /\ schema \in Schemas
    /\ lock \in Rescues \cup {Codex, Nobody}
    /\ commits \in 0..MaxCommits
    /\ pc \in [Rescues -> Steps]
    /\ runs \in [Rescues -> 0..MaxRuns]
    /\ shaBefore \in [Rescues -> SUBSET Records]
    /\ probe \in [Rescues -> Outcomes]
    /\ backupSrc \in [Rescues -> SUBSET Records]
    /\ backupDb \in [Rescues -> [Threads -> Rows]]
    /\ cause \in [Rescues -> Causes]
    /\ result \in [Rescues -> Statuses]

Init ==
    /\ codexUp \in BOOLEAN
    /\ rollout = [t \in Threads |-> {0}]
    /\ appended = [t \in Threads |-> 0]
    /\ db = [t \in Threads |-> NoRow]
    /\ schema \in Schemas
    /\ lock = Nobody
    /\ commits = 0
    /\ pc = [p \in Rescues |-> "idle"]
    /\ runs = [p \in Rescues |-> 0]
    /\ shaBefore = [p \in Rescues |-> {}]
    /\ probe = [p \in Rescues |-> "ERROR"]
    /\ backupSrc = [p \in Rescues |-> {}]
    /\ backupDb = [p \in Rescues |-> Truncated]
    /\ cause = [p \in Rescues |-> "none"]
    /\ result = [p \in Rescues |-> "none"]

-----------------------------------------------------------------------------
(* Helpers of the repair's steps.                                          *)

Source(p) == rollout[Target[p]]
Row(p)    == db[Target[p]]
Readable  == db # Truncated        \* a SELECT on the file succeeds

At(p, step)   == pc[p] = step
Goto(p, step) == pc' = [pc EXCEPT ![p] = step]

Report(p, status) == Goto(p, "done") /\ result' = [result EXCEPT ![p] = status]

Continue(p, step) == Goto(p, step) /\ UNCHANGED result

\* A file that cannot be read or copied raises out of the repair, past every
\* rollback.
RaiseOnFault(p) == Faults /\ Report(p, "RAISED")

Begin(p, why) ==
    /\ Continue(p, "restoreSource")
    /\ cause' = [cause EXCEPT ![p] = why]

-----------------------------------------------------------------------------
(* Preconditions: execute_derived_index_repair up to the backup.           *)

\* The session exists and is hashed; a file whose name yields no thread id
\* is refused on the spot.
Start(p) ==
    /\ pc[p] \in Resting /\ runs[p] < MaxRuns
    /\ runs' = [runs EXCEPT ![p] = @ + 1]
    /\ shaBefore' = [shaBefore EXCEPT ![p] = Source(p)]
    /\ cause' = [cause EXCEPT ![p] = "none"]
    /\ \/ Goto(p, "guardProcess") /\ result' = [result EXCEPT ![p] = "none"]
       \/ Report(p, "BLOCKED")
    /\ UNCHANGED <<world, probe, backups>>

\* The fail-closed aggregation of the two probes.
WriterStatusOptimistic(proc, locks) ==      \* mutant: an error counts as inactive
    IF "ACTIVE" \in {proc, locks} THEN "ACTIVE_CONFIRMED" ELSE "INACTIVE_CONFIRMED"

WriterStatus(proc, locks) ==
    CASE "ACTIVE" \in {proc, locks} -> "ACTIVE_CONFIRMED"
      [] "ACTIVE" \notin {proc, locks} /\ "ERROR" \in {proc, locks} -> "UNKNOWN"
      [] OTHER -> "INACTIVE_CONFIRMED"

ProcessProbe == {IF codexUp THEN "ACTIVE" ELSE "INACTIVE"}
                \cup (IF Faults THEN {"ERROR"} ELSE {})
LockProbe    == {IF lock # Nobody THEN "ACTIVE" ELSE "INACTIVE"}
                \cup (IF Faults \/ ~Readable THEN {"ERROR"} ELSE {})

ProbeProcess(p, here, next) ==
    /\ At(p, here)
    /\ Continue(p, next)
    /\ \E outcome \in ProcessProbe : probe' = [probe EXCEPT ![p] = outcome]
    /\ UNCHANGED <<world, plan, backups, cause>>

\* detect_writer_status answers after its second probe; anything but a
\* confirmed inactive writer ends the repair.  The sandbox simulation that
\* follows the first guard compares a copy with itself and never refuses.
ProbeLocks(p, here, next) ==
    /\ At(p, here)
    /\ \E outcome \in LockProbe :
          IF WriterStatus(probe[p], outcome) = "INACTIVE_CONFIRMED"
          THEN Continue(p, next)
          ELSE Report(p, "BLOCKED")
    /\ UNCHANGED <<world, plan, probe, backups, cause>>

\* A missing database, or one without a readable threads table, is refused.
CheckSchema(p) ==
    /\ At(p, "schema")
    /\ IF schema \in {"threads", "strict"} /\ Readable
       THEN Continue(p, "existing")
       ELSE Report(p, "BLOCKED")
    /\ UNCHANGED <<world, plan, probe, backups, cause>>

CheckExisting(p) ==
    /\ At(p, "existing")
    /\ \/ Readable /\ Row(p) = NoRow /\ Continue(p, "backupSource")
       \/ (Faults \/ ~Readable \/ Row(p) # NoRow) /\ Report(p, "BLOCKED")
    /\ UNCHANGED <<world, plan, probe, backups, cause>>

-----------------------------------------------------------------------------
(* BackupEngine.create_pre_mutation_backup: each target is hashed, then    *)
(* copied; a copy whose hash differs raises out of the repair.             *)

BackupSourceReusing(p) ==        \* mutant: an older backup is taken for this one
    /\ At(p, "backupSource")
    /\ backupSrc' = [backupSrc EXCEPT ![p] = IF @ = {} THEN Source(p) ELSE @]
    /\ Continue(p, IF backupSrc[p] = {} THEN "backupSourceCopy" ELSE "backupDb")
    /\ UNCHANGED <<world, plan, probe, backupDb, cause>>

BackupSource(p) ==
    /\ At(p, "backupSource")
    /\ backupSrc' = [backupSrc EXCEPT ![p] = Source(p)]
    /\ Continue(p, "backupSourceCopy") \/ RaiseOnFault(p)
    /\ UNCHANGED <<world, plan, probe, backupDb, cause>>

BackupSourceCopy(p) ==
    /\ At(p, "backupSourceCopy")
    /\ \/ IF Source(p) = backupSrc[p] THEN Continue(p, "backupDb")
                                      ELSE Report(p, "RAISED")
       \/ RaiseOnFault(p)
    /\ UNCHANGED <<world, plan, probe, backups, cause>>

BackupDb(p) ==
    /\ At(p, "backupDb")
    /\ backupDb' = [backupDb EXCEPT ![p] = db]
    /\ Continue(p, "backupDbCopy") \/ RaiseOnFault(p)
    /\ UNCHANGED <<world, plan, probe, backupSrc, cause>>

BackupDbCopy(p) ==
    /\ At(p, "backupDbCopy")
    /\ \/ IF db = backupDb[p] THEN Continue(p, "recheckSource")
                              ELSE Report(p, "RAISED")
       \/ RaiseOnFault(p)
    /\ UNCHANGED <<world, plan, probe, backups, cause>>

SourceUnchanged(p) == Source(p) = shaBefore[p]

PlanStillValidSkipped(p) == TRUE     \* mutant: the source is not hashed again
PlanStillValid(p) == SourceUnchanged(p)

RecheckSource(p) ==
    /\ At(p, "recheckSource")
    /\ \/ IF PlanStillValid(p) THEN Continue(p, "recheckProcess")
                               ELSE Report(p, "STALE_PLAN")
       \/ RaiseOnFault(p)
    /\ UNCHANGED <<world, plan, probe, backups, cause>>

-----------------------------------------------------------------------------
(* The mutation: INSERT INTO threads, then COMMIT, in one SQLite           *)
(* transaction.  Any exception goes to the rollback with cause "write".    *)

MayInsertReplacing(p) ==                     \* mutant: INSERT OR REPLACE
    lock = Nobody /\ Readable /\ schema = "threads"

MayInsert(p) ==
    lock = Nobody /\ Readable /\ schema = "threads" /\ Row(p) = NoRow

InsertFailsUnlessLocked(p) ==     \* mutant: no timeout on the write lock
    lock = Nobody /\ (Faults \/ ~MayInsert(p))

InsertFails(p) == Faults \/ ~MayInsert(p)

Insert(p) ==
    /\ At(p, "insert")
    /\ \/ MayInsert(p) /\ lock' = p /\ Continue(p, "commit") /\ UNCHANGED cause
       \/ InsertFails(p) /\ Begin(p, "write") /\ UNCHANGED lock
    /\ UNCHANGED <<codexVars, files, schema, plan, probe, backups>>

CloseConnectionForgotten == UNCHANGED lock    \* mutant: no finally
CloseConnection == lock' = Nobody

Commit(p) ==
    /\ At(p, "commit")
    /\ CloseConnection
    /\ \/ /\ Readable
          /\ db' = [db EXCEPT ![Target[p]] = RescueRow]
          /\ Continue(p, "verifySource")
          /\ UNCHANGED cause
       \/ (Faults \/ ~Readable) /\ Begin(p, "write") /\ UNCHANGED db
    /\ UNCHANGED <<codexVars, rollout, schema, plan, probe, backups>>

VerifySource(p) ==
    /\ At(p, "verifySource")
    /\ \/ SourceUnchanged(p) /\ Continue(p, "verifyRow") /\ UNCHANGED cause
       \/ ~SourceUnchanged(p) /\ Begin(p, "source")
       \/ RaiseOnFault(p) /\ UNCHANGED cause
    /\ UNCHANGED <<world, plan, probe, backups>>

\* A row Codex wrote since may or may not name this rollout.
Indexed(p) == Readable /\ Row(p) # NoRow

VerifyRow(p) ==
    /\ At(p, "verifyRow")
    /\ \/ Indexed(p) /\ Report(p, "REPAIRED") /\ UNCHANGED cause
       \/ (Faults \/ ~Indexed(p) \/ Row(p) # RescueRow) /\ Begin(p, "verify")
    /\ UNCHANGED <<world, plan, probe, backups>>

-----------------------------------------------------------------------------
(* BackupEngine.rollback: the rollout first, then the database; each       *)
(* original is truncated on open, rewritten from the backup and hashed     *)
(* again.  Any mismatch or exception abandons the remaining entries.       *)

\* mutant: a status the dataclass lists and no path returns
FailRollbackUnlisted(p) == Report(p, "VERIFY_FAILED")

FailRollback(p) == Report(p, "ROLLBACK_FAILED")

RestoreSource(p) ==
    /\ At(p, "restoreSource")
    /\ \/ /\ rollout' = [rollout EXCEPT ![Target[p]] = {}]
          /\ Continue(p, "copySource")
       \/ Faults /\ FailRollback(p) /\ UNCHANGED rollout
    /\ UNCHANGED <<codexVars, db, schema, lock, plan, probe, backups, cause>>

\* What Codex appended after the truncation is overwritten by the copy, or
\* sticks out behind it.
CopySource(p) ==
    /\ At(p, "copySource")
    /\ \/ /\ \E rest \in {{}} \cup (IF Source(p) = {} THEN {} ELSE {{Garbage}}) :
                rollout' = [rollout EXCEPT ![Target[p]] = backupSrc[p] \cup rest]
          /\ Continue(p, "checkSource")
       \/ Faults /\ FailRollback(p) /\ UNCHANGED rollout
    /\ UNCHANGED <<codexVars, db, schema, lock, plan, probe, backups, cause>>

CheckSourceLast(p) ==             \* mutant: the manifest's last entry is skipped
    /\ At(p, "checkSource")
    /\ \/ IF Source(p) = backupSrc[p] THEN Report(p, "ROLLED_BACK") ELSE FailRollback(p)
       \/ Faults /\ FailRollback(p)
    /\ UNCHANGED <<world, plan, probe, backups, cause>>

CheckSource(p) ==
    /\ At(p, "checkSource")
    /\ \/ IF Source(p) = backupSrc[p] THEN Continue(p, "restoreDb") ELSE FailRollback(p)
       \/ Faults /\ FailRollback(p)
    /\ UNCHANGED <<world, plan, probe, backups, cause>>

\* The database is overwritten as a file: no lock is taken.
RestoreDb(p) ==
    /\ At(p, "restoreDb")
    /\ \/ db' = Truncated /\ Continue(p, "copyDb")
       \/ Faults /\ FailRollback(p) /\ UNCHANGED db
    /\ UNCHANGED <<codexVars, rollout, schema, lock, plan, probe, backups, cause>>

CopyDb(p) ==
    /\ At(p, "copyDb")
    /\ \/ db' = backupDb[p] /\ Continue(p, "checkDb")
       \/ Faults /\ FailRollback(p) /\ UNCHANGED db
    /\ UNCHANGED <<codexVars, rollout, schema, lock, plan, probe, backups, cause>>

CheckDb(p) ==
    /\ At(p, "checkDb")
    /\ \/ IF db = backupDb[p] THEN Report(p, "ROLLED_BACK") ELSE FailRollback(p)
       \/ Faults /\ FailRollback(p)
    /\ UNCHANGED <<world, plan, probe, backups, cause>>

-----------------------------------------------------------------------------
(* The environment: a Rescue process dies, Codex runs.                     *)

\* A dead process releases its lock and its uncommitted insert; the manifest
\* stays on disk and nothing reads it back.
Crash(p) ==
    /\ Faults /\ pc[p] \notin Resting
    /\ Continue(p, IF pc[p] \in Restoring THEN "halfRestored" ELSE "crashed")
    /\ lock' = IF lock = p THEN Nobody ELSE lock
    /\ UNCHANGED <<codexVars, files, schema, plan, probe, backups, cause>>

CodexStart ==
    /\ ~codexUp
    /\ WriterExcluded => \A p \in Rescues : pc[p] \in Resting
    /\ codexUp' = TRUE
    /\ UNCHANGED <<appended, commits, files, schema, lock>>

CodexStop ==
    /\ codexUp
    /\ codexUp' = FALSE
    /\ lock' = IF lock = Codex THEN Nobody ELSE lock
    /\ UNCHANGED <<appended, commits, files, schema>>

CodexAppend(t) ==
    /\ codexUp /\ appended[t] < MaxAppends
    /\ appended' = [appended EXCEPT ![t] = @ + 1]
    /\ rollout' = [rollout EXCEPT ![t] = @ \cup {appended[t] + 1}]
    /\ UNCHANGED <<codexUp, commits, db, schema, lock>>

CodexBegin ==
    /\ codexUp /\ lock = Nobody
    /\ schema \in {"threads", "strict"} /\ Readable
    /\ lock' = Codex
    /\ UNCHANGED <<codexVars, files, schema>>

\* Codex writes or deletes one row; a transaction over a file truncated
\* under it is lost.
CodexCommit(t) ==
    /\ lock = Codex /\ commits < MaxCommits
    /\ lock' = Nobody
    /\ commits' = commits + 1
    /\ IF Readable
       THEN \E row \in {NoRow, commits + 1} : db' = [db EXCEPT ![t] = row]
       ELSE UNCHANGED db
    /\ UNCHANGED <<codexUp, appended, rollout, schema>>

CodexStep ==
    /\ \/ CodexStart \/ CodexStop \/ CodexBegin
       \/ \E t \in Threads : CodexAppend(t) \/ CodexCommit(t)
    /\ UNCHANGED <<pc, plan, probe, backups, cause, result>>

Precondition(p) ==
    \/ ProbeProcess(p, "guardProcess", "guardLock")
    \/ ProbeLocks(p, "guardLock", "schema")
    \/ CheckSchema(p)
    \/ CheckExisting(p)

Backup(p) ==
    \/ BackupSource(p) \/ BackupSourceCopy(p) \/ BackupDb(p) \/ BackupDbCopy(p)

Recheck(p) ==
    \/ RecheckSource(p)
    \/ ProbeProcess(p, "recheckProcess", "recheckLock")
    \/ ProbeLocks(p, "recheckLock", "insert")

Mutate(p) == Insert(p) \/ Commit(p) \/ VerifySource(p) \/ VerifyRow(p)

Rollback(p) ==
    \/ RestoreSource(p) \/ CopySource(p) \/ CheckSource(p)
    \/ RestoreDb(p) \/ CopyDb(p) \/ CheckDb(p)

Step(p) == Precondition(p) \/ Backup(p) \/ Recheck(p) \/ Mutate(p) \/ Rollback(p)

Next == CodexStep \/ \E p \in Rescues : Start(p) \/ Step(p) \/ Crash(p)

\* A started process keeps running; the user need not start one, and Codex
\* need not do anything.
Fairness == \A p \in Rescues : WF_vars(Step(p))

Spec == Init /\ [][Next]_vars /\ Fairness

-----------------------------------------------------------------------------
(* Properties.                                                             *)

\* Each repair works on a session of its own.
DistinctTargets == \A p, q \in Rescues : p # q => Target[p] # Target[q]

\* Each repair ends, or dies, before the next one starts.
OneAtATime == \A p, q \in Rescues : p # q => pc[p] \in Resting \/ pc[q] \in Resting

\* Nothing in the code keeps two repairs of one home apart, and a rollback takes
\* no lock: what a whole repair promises is promised of one at a time.
ExclusiveSpec == Init /\ [][Next /\ OneAtATime']_vars

Rewriting(p)  == pc[p] \in {"copySource"}
Abandoned(p)  == pc[p] = "halfRestored" \/ result[p] = "ROLLBACK_FAILED"
Ended(p, status) == result[p] # status /\ result'[p] = status

\* From the moment a repair has hashed its source, no step of anybody makes
\* a record of that source disappear, except a rollback that is under way or
\* was abandoned by a crash or an I/O error.  It is what the order "hash,
\* back up, hash again, mutate" of execute_derived_index_repair is for.
PlannedSourceSurvives ==
    \A p \in Rescues :
        shaBefore[p] \subseteq Source(p) \/ Rewriting(p) \/ Abandoned(p)

\* A repair that reaches the insert or the rollback holds a backup of
\* exactly the source it planned on, though Codex may have appended between
\* any two of the reads (INV-005, INV-015 of alpha7/invariants.py).
BackupIsThePlan ==
    \A p \in Rescues :
        pc[p] \in {"recheckProcess", "recheckLock", "insert", "commit", "verifySource",
                   "verifyRow", "restoreSource"} \cup Restoring
            => backupSrc[p] = shaBefore[p]

\* SQLite's write lock is a Rescue's exactly while its insert is uncommitted:
\* no failure path leaves it held.
LockHeldOnlyToCommit == \A p \in Rescues : lock = p <=> pc[p] = "commit"

\* The insert never takes the place of a row that Codex, or an earlier
\* repair, wrote after the existence check ("NEVER use INSERT OR REPLACE to
\* overwrite"), and touches no other thread's row.
InsertNeverReplaces ==
    [][\A p \in Rescues : pc[p] = "commit" /\ db' # db
           => db[Target[p]] = NoRow /\ \A t \in Threads \ {Target[p]} : db'[t] = db[t]]_vars

\* With the user keeping Codex closed until the repair ends, and the repairs one
\* after another, each is all or nothing: REPAIRED adds exactly the missing row,
\* ROLLED_BACK leaves rollout and database as its plan found them.
AllOrNothing ==
    [][\A p \in Rescues :
         /\ Ended(p, "REPAIRED") =>
              /\ Source(p) = shaBefore[p] /\ backupDb[p][Target[p]] = NoRow
              /\ db = [backupDb[p] EXCEPT ![Target[p]] = RescueRow]
         /\ Ended(p, "ROLLED_BACK") => Source(p) = shaBefore[p] /\ db = backupDb[p]]_vars

\* Every repair that starts reports a result, or dies: no lock, probe or
\* failing rollback holds it for ever.
StartedRepairEnds ==
    \A p \in Rescues : pc[p] \notin Resting ~> pc[p] \in Resting

\* README: the tool "never rewrites original session JSONL files".  Whenever no
\* repair is at work, every record Codex has appended is in the rollout.
SourceKeepsEveryRecord ==
    (\A p \in Rescues : pc[p] \in Resting) =>
        \A t \in Threads : 0..appended[t] \subseteq rollout[t]

\* BackupEngine.rollback: "Atomically restores all backed-up files".  One that
\* reports failure leaves neither file truncated.
RollbackIsAtomic ==
    [][\A p \in Rescues :
         Ended(p, "ROLLBACK_FAILED") => Source(p) # {} /\ Readable]_vars

(* The repair implements AtomicRepair: while a file is being rewritten it   *)
(* stands for the backup that is copied into it.                           *)
HasInstalled(p) ==
    \/ pc[p] \in {"verifySource", "verifyRow"}
    \/ pc[p] \in {"restoreSource", "copySource", "checkSource", "restoreDb"} /\ cause[p] # "write"

Phase(p) ==
    IF pc[p] \in {"idle", "guardProcess", "guardLock"} THEN "idle"
    ELSE IF pc[p] = "crashed" \/ result[p] = "RAISED" THEN "dead"
    ELSE IF Abandoned(p) THEN "broken"
    ELSE IF result[p] = "REPAIRED" THEN "repaired"
    ELSE IF pc[p] = "done" THEN "unchanged"
    ELSE IF HasInstalled(p) THEN "installed"
    ELSE "working"

SettledSource ==
    [t \in Threads |->
        IF \E p \in Rescues : Target[p] = t /\ pc[p] = "copySource"
        THEN backupSrc[CHOOSE p \in Rescues : Target[p] = t /\ pc[p] = "copySource"]
        ELSE rollout[t]]

SettledIndex ==
    IF \E p \in Rescues : pc[p] = "copyDb"
    THEN backupDb[CHOOSE p \in Rescues : pc[p] = "copyDb"]
    ELSE db

RepairPhases == [p \in Rescues |-> Phase(p)]

Atomic == INSTANCE AtomicRepair WITH
    Contents <- SUBSET Records,
    source <- SettledSource,
    index <- SettledIndex,
    phase <- RepairPhases

\* Repairs one at a time, with Codex closed while they run, are atomic whatever
\* fails or crashes in them, up to a rollback that breaks down.
ImplementsAtomicRepair == Atomic!Spec
=============================================================================
