---------------------- MODULE RepairTransactionProofs ----------------------
(* What holds of RepairTransaction for any threads, Rescues and bounds. *)
EXTENDS RepairTransaction, TLAPS

-----------------------------------------------------------------------------
USE RescuesAssumption, BoundsAssumption

\* The step of one repair, or of the environment, keeps every variable in its
\* type: no interleaving produces a status, row or record that is not listed.
LEMMA TypeStep == ASSUME TypeOK, [Next]_vars PROVE TypeOK'
<1> USE DEF TypeOK, world, codexVars, files, plan, backups
<1>1. CASE CodexStep
  <2> USE <1>1 DEF CodexStep
  <2>1. CASE CodexStart \/ CodexStop \/ CodexBegin
    BY <2>1 DEF CodexStart, CodexStop, CodexBegin
  <2>2. ASSUME NEW t \in Threads, CodexAppend(t) PROVE TypeOK'
    <3>1. appended[t] + 1 \in 0..MaxAppends
      BY <2>2 DEF CodexAppend
    <3>2. rollout' \in [Threads -> SUBSET Records]
      BY <3>1, <2>2 DEF CodexAppend, Records
    <3>3. appended' \in [Threads -> 0..MaxAppends]
      BY <3>1, <2>2 DEF CodexAppend
    <3>4. QED
      BY <3>2, <3>3, <2>2 DEF CodexAppend
  <2>3. ASSUME NEW t \in Threads, CodexCommit(t) PROVE TypeOK'
    <3>1. commits + 1 \in 1..MaxCommits
      BY <2>3 DEF CodexCommit
    <3>2. db' \in [Threads -> Rows]
      BY <3>1, <2>3 DEF CodexCommit, Rows
    <3>3. QED
      BY <3>1, <3>2, <2>3 DEF CodexCommit
  <2>4. QED
    BY <2>1, <2>2, <2>3
<1>2. ASSUME NEW p \in Rescues, Start(p) \/ Step(p) \/ Crash(p) PROVE TypeOK'
  <2> USE DEF At, Goto, Report, Continue, RaiseOnFault, Begin, Source, Steps, Resting, Restoring,
     Statuses
  <2>1. CASE Start(p)
    <3>1. runs' \in [Rescues -> 0..MaxRuns]
      BY <2>1 DEF Start
    <3>2. shaBefore' \in [Rescues -> SUBSET Records]
      BY <2>1 DEF Start
    <3>3. cause' \in [Rescues -> Causes]
      BY <2>1 DEF Start, Causes
    <3>4. pc' \in [Rescues -> Steps] /\ result' \in [Rescues -> Statuses]
      BY <2>1 DEF Start
    <3>5. QED
      BY <3>1, <3>2, <3>3, <3>4, <2>1 DEF Start
  <2>2. CASE ProbeProcess(p, "guardProcess", "guardLock")
    BY <2>2 DEF ProbeProcess, ProcessProbe, Outcomes
  <2>3. CASE ProbeLocks(p, "guardLock", "schema")
    BY <2>3 DEF ProbeLocks
  <2>4. CASE ProbeProcess(p, "recheckProcess", "recheckLock")
    BY <2>4 DEF ProbeProcess, ProcessProbe, Outcomes
  <2>5. CASE ProbeLocks(p, "recheckLock", "insert")
    BY <2>5 DEF ProbeLocks
  <2>6. CASE CheckSchema(p)
    BY <2>6 DEF CheckSchema
  <2>7. CASE CheckExisting(p)
    BY <2>7 DEF CheckExisting
  <2>8. CASE BackupSource(p)
    BY <2>8 DEF BackupSource
  <2>9. CASE BackupSourceCopy(p)
    BY <2>9 DEF BackupSourceCopy
  <2>10. CASE BackupDb(p)
    BY <2>10 DEF BackupDb
  <2>11. CASE BackupDbCopy(p)
    BY <2>11 DEF BackupDbCopy
  <2>12. CASE RecheckSource(p)
    BY <2>12 DEF RecheckSource
  <2>13. CASE Insert(p)
    BY <2>13 DEF Insert, Causes
  <2>14. CASE Commit(p)
    BY <2>14 DEF Commit, CloseConnection, Causes, Rows
  <2>15. CASE VerifySource(p)
    BY <2>15 DEF VerifySource, Causes
  <2>16. CASE VerifyRow(p)
    BY <2>16 DEF VerifyRow, Causes
  <2>17. CASE RestoreSource(p)
    BY <2>17 DEF RestoreSource, FailRollback
  <2>18. CASE CopySource(p)
    <3>1. rollout' \in [Threads -> SUBSET Records]
      <4>1. CASE UNCHANGED rollout
        BY <4>1
      <4>2. ASSUME NEW rest \in SUBSET Records,
                   rollout' = [rollout EXCEPT ![Target[p]] = backupSrc[p] \cup rest]
            PROVE  rollout' \in [Threads -> SUBSET Records]
        BY <4>2
      <4>3. {} \in SUBSET Records /\ {Garbage} \in SUBSET Records
        BY DEF Records
      <4>4. QED
        BY <4>1, <4>2, <4>3, <2>18 DEF CopySource
    <3>2. pc' \in [Rescues -> Steps] /\ result' \in [Rescues -> Statuses]
      BY <2>18 DEF CopySource, FailRollback
    <3>3. QED
      BY <3>1, <3>2, <2>18 DEF CopySource
  <2>19. CASE CheckSource(p)
    BY <2>19 DEF CheckSource, FailRollback
  <2>20. CASE RestoreDb(p)
    BY <2>20 DEF RestoreDb, FailRollback, Truncated, Rows
  <2>21. CASE CopyDb(p)
    <3>1. db' \in [Threads -> Rows]
      BY <2>21 DEF CopyDb
    <3>2. pc' \in [Rescues -> Steps] /\ result' \in [Rescues -> Statuses]
      BY <2>21 DEF CopyDb, FailRollback
    <3>3. QED
      BY <3>1, <3>2, <2>21 DEF CopyDb
  <2>22. CASE CheckDb(p)
    BY <2>22 DEF CheckDb, FailRollback
  <2>23. CASE Crash(p)
    BY <2>23 DEF Crash
  <2>24. QED
    BY <1>2, <2>1, <2>2, <2>3, <2>4, <2>5, <2>6, <2>7, <2>8, <2>9, <2>10, <2>11, <2>12, <2>13,
       <2>14, <2>15, <2>16, <2>17, <2>18, <2>19, <2>20, <2>21, <2>22, <2>23
       DEF Step, Precondition, Backup, Recheck, Mutate, Rollback
<1>3. CASE UNCHANGED vars
  BY <1>3 DEF vars
<1>4. QED
  BY <1>1, <1>2, <1>3 DEF Next

LEMMA TypeInitially == Init => TypeOK
BY DEF Init, TypeOK, Steps, Resting, Statuses, Rows, Records, Causes, Outcomes, Truncated,
       Garbage, NoRow, RescueRow, Lost

\* Every variable always has its type.
THEOREM TypeCorrect == Spec => []TypeOK
<1>1. Init => TypeOK
  BY TypeInitially
<1>2. TypeOK /\ [Next]_vars => TypeOK'
  BY TypeStep
<1>3. QED
  BY <1>1, <1>2, PTL DEF Spec
-----------------------------------------------------------------------------
(* A rollback loses no record its repair planned on.                       *)

InFlightHasNoResult(p) == pc[p] \notin Resting => result[p] = "none"

BackupGrewFromPlan(p) ==
    pc[p] \in {"backupSourceCopy", "backupDb", "backupDbCopy", "recheckSource"}
        => shaBefore[p] \subseteq backupSrc[p] /\ backupSrc[p] \subseteq Source(p)

\* From the second hash of the source on, the backup is the plan's.
PlanAsBackedUp(p) ==
    pc[p] \in {"recheckProcess", "recheckLock", "insert", "commit", "verifySource",
               "verifyRow", "restoreSource"} \cup Restoring
        => backupSrc[p] = shaBefore[p]

\* Until the second hash the backup lies between the plan's source and the
\* file; the hash closes the sandwich, and from then on the two are equal.
SourceInv(p) ==
    /\ InFlightHasNoResult(p)
    /\ shaBefore[p] \subseteq Source(p) \/ Rewriting(p) \/ Abandoned(p)
    /\ BackupGrewFromPlan(p)
    /\ PlanAsBackedUp(p)

IInv == TypeOK /\ \A p \in Rescues : SourceInv(p)

\* What one repair's step leaves to the others.
Frame(p) ==
    /\ \A q \in Rescues \ {p} :
          /\ pc'[q] = pc[q] /\ result'[q] = result[q]
          /\ shaBefore'[q] = shaBefore[q] /\ backupSrc'[q] = backupSrc[q]
    /\ \A t \in Threads \ {Target[p]} : rollout'[t] = rollout[t]

LEMMA StepFrame ==
  ASSUME TypeOK, NEW p \in Rescues, Start(p) \/ Step(p) \/ Crash(p)
  PROVE  Frame(p)
<1> USE DEF TypeOK, Frame, world, files, codexVars, plan, backups,
            Goto, Report, Continue, RaiseOnFault, Begin
<1>1. CASE Start(p)
  BY <1>1 DEF Start
<1>2. CASE ProbeProcess(p, "guardProcess", "guardLock")
  BY <1>2 DEF ProbeProcess
<1>3. CASE ProbeLocks(p, "guardLock", "schema")
  BY <1>3 DEF ProbeLocks
<1>4. CASE ProbeProcess(p, "recheckProcess", "recheckLock")
  BY <1>4 DEF ProbeProcess
<1>5. CASE ProbeLocks(p, "recheckLock", "insert")
  BY <1>5 DEF ProbeLocks
<1>6. CASE CheckSchema(p)
  BY <1>6 DEF CheckSchema
<1>7. CASE CheckExisting(p)
  BY <1>7 DEF CheckExisting
<1>8. CASE BackupSource(p)
  BY <1>8 DEF BackupSource
<1>9. CASE BackupSourceCopy(p)
  BY <1>9 DEF BackupSourceCopy
<1>10. CASE BackupDb(p)
  BY <1>10 DEF BackupDb
<1>11. CASE BackupDbCopy(p)
  BY <1>11 DEF BackupDbCopy
<1>12. CASE RecheckSource(p)
  BY <1>12 DEF RecheckSource
<1>13. CASE Insert(p)
  BY <1>13 DEF Insert
<1>14. CASE Commit(p)
  BY <1>14 DEF Commit
<1>15. CASE VerifySource(p)
  BY <1>15 DEF VerifySource
<1>16. CASE VerifyRow(p)
  BY <1>16 DEF VerifyRow
<1>17. CASE RestoreSource(p)
  BY <1>17 DEF RestoreSource, FailRollback
<1>18. CASE CopySource(p)
  BY <1>18 DEF CopySource, FailRollback
<1>19. CASE CheckSource(p)
  BY <1>19 DEF CheckSource, FailRollback
<1>20. CASE RestoreDb(p)
  BY <1>20 DEF RestoreDb, FailRollback
<1>21. CASE CopyDb(p)
  BY <1>21 DEF CopyDb, FailRollback
<1>22. CASE CheckDb(p)
  BY <1>22 DEF CheckDb, FailRollback
<1>23. CASE Crash(p)
  BY <1>23 DEF Crash
<1>24. QED
  BY <1>1, <1>2, <1>3, <1>4, <1>5, <1>6, <1>7, <1>8, <1>9, <1>10, <1>11, <1>12, <1>13, <1>14,
     <1>15, <1>16, <1>17, <1>18, <1>19, <1>20, <1>21, <1>22, <1>23
     DEF Step, Precondition, Backup, Recheck, Mutate, Rollback

\* The repair's own step, by itself.
LEMMA OwnStep ==
  ASSUME TypeOK, NEW p \in Rescues, SourceInv(p), Start(p) \/ Step(p) \/ Crash(p)
  PROVE  SourceInv(p)'
<1> USE DEF TypeOK, SourceInv, PlanAsBackedUp, InFlightHasNoResult, BackupGrewFromPlan,
   Rewriting, Abandoned,
            Resting, Restoring, Source, At, Goto, Report, Continue, RaiseOnFault, Begin,
            world, files, codexVars, plan, backups
<1>1. CASE Start(p)
  BY <1>1 DEF Start
<1>2. CASE ProbeProcess(p, "guardProcess", "guardLock")
  BY <1>2 DEF ProbeProcess
<1>3. CASE ProbeLocks(p, "guardLock", "schema")
  BY <1>3 DEF ProbeLocks
<1>4. CASE ProbeProcess(p, "recheckProcess", "recheckLock")
  BY <1>4 DEF ProbeProcess
<1>5. CASE ProbeLocks(p, "recheckLock", "insert")
  BY <1>5 DEF ProbeLocks
<1>6. CASE CheckSchema(p)
  BY <1>6 DEF CheckSchema
<1>7. CASE CheckExisting(p)
  BY <1>7 DEF CheckExisting
<1>8. CASE BackupSource(p)
  BY <1>8 DEF BackupSource
<1>9. CASE BackupSourceCopy(p)
  BY <1>9 DEF BackupSourceCopy
<1>10. CASE BackupDb(p)
  BY <1>10 DEF BackupDb
<1>11. CASE BackupDbCopy(p)
  BY <1>11 DEF BackupDbCopy
<1>12. CASE RecheckSource(p)
  BY <1>12 DEF RecheckSource, PlanStillValid, SourceUnchanged
<1>13. CASE Insert(p)
  BY <1>13 DEF Insert
<1>14. CASE Commit(p)
  BY <1>14 DEF Commit
<1>15. CASE VerifySource(p)
  BY <1>15 DEF VerifySource
<1>16. CASE VerifyRow(p)
  BY <1>16 DEF VerifyRow
<1>17. CASE RestoreSource(p)
  BY <1>17 DEF RestoreSource, FailRollback
<1>18. CASE CopySource(p)
  BY <1>18 DEF CopySource, FailRollback
<1>19. CASE CheckSource(p)
  BY <1>19 DEF CheckSource, FailRollback
<1>20. CASE RestoreDb(p)
  BY <1>20 DEF RestoreDb, FailRollback
<1>21. CASE CopyDb(p)
  BY <1>21 DEF CopyDb, FailRollback
<1>22. CASE CheckDb(p)
  BY <1>22 DEF CheckDb, FailRollback
<1>23. CASE Crash(p)
  BY <1>23 DEF Crash
<1>24. QED
  BY <1>1, <1>2, <1>3, <1>4, <1>5, <1>6, <1>7, <1>8, <1>9, <1>10, <1>11, <1>12, <1>13, <1>14,
     <1>15, <1>16, <1>17, <1>18, <1>19, <1>20, <1>21, <1>22, <1>23
     DEF Step, Precondition, Backup, Recheck, Mutate, Rollback

\* Two repairs of one session can restore each other's backups, so each is
\* taken to work on a session of its own.
LEMMA SourceStep == ASSUME DistinctTargets, IInv, [Next]_vars PROVE IInv'
<1>1. TypeOK'
  BY TypeStep DEF IInv
<1>2. ASSUME NEW p \in Rescues PROVE SourceInv(p)'
  <2> USE DEF SourceInv, PlanAsBackedUp, InFlightHasNoResult, BackupGrewFromPlan, Rewriting,
     Abandoned, Source
  <2>1. SourceInv(p) /\ TypeOK
    BY DEF IInv
  <2>2. CASE CodexStep
    <3>1. UNCHANGED <<pc, shaBefore, backupSrc, result>>
      BY <2>2 DEF CodexStep, plan, backups
    <3>2. rollout[Target[p]] \subseteq rollout'[Target[p]]
      BY <2>1, <2>2 DEF CodexStep, CodexStart, CodexStop, CodexBegin, CodexAppend, CodexCommit,
                        files, codexVars, TypeOK
    <3>3. QED
      BY <2>1, <3>1, <3>2
  <2>3. ASSUME NEW q \in Rescues, Start(q) \/ Step(q) \/ Crash(q) PROVE SourceInv(p)'
    <3>1. CASE q = p
      BY <2>1, <2>3, <3>1, OwnStep
    <3>2. CASE q # p
      <4>1. Frame(q)
        BY <2>1, <2>3, StepFrame
      <4>2. Target[p] \in Threads \ {Target[q]}
        BY <3>2 DEF DistinctTargets
      <4>3. /\ pc'[p] = pc[p] /\ result'[p] = result[p] /\ rollout'[Target[p]] = rollout[Target[p]]
            /\ shaBefore'[p] = shaBefore[p] /\ backupSrc'[p] = backupSrc[p]
        BY <3>2, <4>1, <4>2 DEF Frame
      <4>4. QED
        BY <2>1, <4>3
    <3>3. QED
      BY <3>1, <3>2
  <2>4. CASE UNCHANGED vars
    BY <2>1, <2>4 DEF vars, world, files, plan, backups
  <2>5. QED
    BY <2>2, <2>3, <2>4 DEF Next
<1>3. QED
  BY <1>1, <1>2 DEF IInv

LEMMA SourceInvariant == ASSUME DistinctTargets PROVE Spec => []IInv
<1>1. Init => IInv
  BY DEF Init, IInv, TypeOK, SourceInv, PlanAsBackedUp, InFlightHasNoResult, BackupGrewFromPlan,
     Rewriting,
         Abandoned, Source, Steps, Resting, Restoring, Statuses, Rows, Records, Causes, Outcomes,
         Truncated, Garbage, NoRow, RescueRow, Lost
<1>2. IInv /\ [Next]_vars => IInv'
  BY SourceStep
<1>3. QED
  BY <1>1, <1>2, PTL DEF Spec

\* However Codex's appends, crashes and I/O errors fall between the steps of
\* execute_derived_index_repair, the records a repair planned on outlive it,
\* unless its rollback is under way or was abandoned half-way.
THEOREM SourceSurvives == ASSUME DistinctTargets PROVE Spec => []PlannedSourceSurvives
<1>1. IInv => PlannedSourceSurvives
  BY DEF IInv, SourceInv, PlannedSourceSurvives
<1>2. QED
  BY <1>1, SourceInvariant, PTL

\* A repair that mutates or rolls back holds a backup of exactly the source
\* it planned on, for any interleaving with Codex.
THEOREM BackupMatchesPlan == ASSUME DistinctTargets PROVE Spec => []BackupIsThePlan
<1>1. IInv => BackupIsThePlan
  BY DEF IInv, SourceInv, PlanAsBackedUp, BackupIsThePlan
<1>2. QED
  BY <1>1, SourceInvariant, PTL
-----------------------------------------------------------------------------
(* No failure path leaves SQLite's write lock held.                        *)

LockFree(p) == lock # p /\ pc[p] # "commit"
LockHeld(p) == lock = p /\ pc[p] = "commit"

\* A repair takes the free lock with its insert and gives it back with its
\* commit, its failure or its death; it touches nobody else's.
LEMMA LockStep ==
  ASSUME TypeOK, LockHeldOnlyToCommit, NEW p \in Rescues, Start(p) \/ Step(p) \/ Crash(p)
  PROVE  /\ \A q \in Rescues \ {p} : pc'[q] = pc[q]
         /\ \/ LockFree(p) /\ (LockFree(p))' /\ lock' = lock
            \/ LockFree(p) /\ (LockHeld(p))' /\ lock = Nobody
            \/ LockHeld(p) /\ (LockFree(p))' /\ lock' = Nobody
<1> USE DEF TypeOK, LockHeldOnlyToCommit, LockFree, LockHeld, Resting, Restoring, At, Goto,
            Report, Continue, RaiseOnFault, Begin, world, files, codexVars, plan, backups
<1>1. CASE Start(p)
  BY <1>1 DEF Start
<1>2. CASE ProbeProcess(p, "guardProcess", "guardLock")
  BY <1>2 DEF ProbeProcess
<1>3. CASE ProbeLocks(p, "guardLock", "schema")
  BY <1>3 DEF ProbeLocks
<1>4. CASE ProbeProcess(p, "recheckProcess", "recheckLock")
  BY <1>4 DEF ProbeProcess
<1>5. CASE ProbeLocks(p, "recheckLock", "insert")
  BY <1>5 DEF ProbeLocks
<1>6. CASE CheckSchema(p)
  BY <1>6 DEF CheckSchema
<1>7. CASE CheckExisting(p)
  BY <1>7 DEF CheckExisting
<1>8. CASE BackupSource(p)
  BY <1>8 DEF BackupSource
<1>9. CASE BackupSourceCopy(p)
  BY <1>9 DEF BackupSourceCopy
<1>10. CASE BackupDb(p)
  BY <1>10 DEF BackupDb
<1>11. CASE BackupDbCopy(p)
  BY <1>11 DEF BackupDbCopy
<1>12. CASE RecheckSource(p)
  BY <1>12 DEF RecheckSource
<1>13. CASE Insert(p)
  BY <1>13 DEF Insert, MayInsert
<1>14. CASE Commit(p)
  BY <1>14 DEF Commit, CloseConnection
<1>15. CASE VerifySource(p)
  BY <1>15 DEF VerifySource
<1>16. CASE VerifyRow(p)
  BY <1>16 DEF VerifyRow
<1>17. CASE RestoreSource(p)
  BY <1>17 DEF RestoreSource, FailRollback
<1>18. CASE CopySource(p)
  BY <1>18 DEF CopySource, FailRollback
<1>19. CASE CheckSource(p)
  BY <1>19 DEF CheckSource, FailRollback
<1>20. CASE RestoreDb(p)
  BY <1>20 DEF RestoreDb, FailRollback
<1>21. CASE CopyDb(p)
  BY <1>21 DEF CopyDb, FailRollback
<1>22. CASE CheckDb(p)
  BY <1>22 DEF CheckDb, FailRollback
<1>23. CASE Crash(p)
  BY <1>23 DEF Crash
<1>24. QED
  BY <1>1, <1>2, <1>3, <1>4, <1>5, <1>6, <1>7, <1>8, <1>9, <1>10, <1>11, <1>12, <1>13, <1>14,
     <1>15, <1>16, <1>17, <1>18, <1>19, <1>20, <1>21, <1>22, <1>23
     DEF Step, Precondition, Backup, Recheck, Mutate, Rollback

LEMMA LockInvariant ==
  ASSUME TypeOK, LockHeldOnlyToCommit, [Next]_vars PROVE LockHeldOnlyToCommit'
<1>1. CASE CodexStep
  BY <1>1 DEF CodexStep, CodexStart, CodexStop, CodexBegin, CodexAppend, CodexCommit, TypeOK,
              LockHeldOnlyToCommit, codexVars, files
<1>2. ASSUME NEW p \in Rescues, Start(p) \/ Step(p) \/ Crash(p) PROVE LockHeldOnlyToCommit'
  BY <1>2, LockStep DEF LockHeldOnlyToCommit, LockFree, LockHeld
<1>3. CASE UNCHANGED vars
  BY <1>3 DEF vars, world, LockHeldOnlyToCommit
<1>4. QED
  BY <1>1, <1>2, <1>3 DEF Next

\* Whichever insert, commit, exception or crash ends a repair's transaction,
\* no Rescue keeps the write lock past it, and none commits without it.
THEOREM LockReleased == Spec => []LockHeldOnlyToCommit
<1>1. Init => LockHeldOnlyToCommit
  BY DEF Init, LockHeldOnlyToCommit
<1>2. TypeOK /\ LockHeldOnlyToCommit /\ [Next]_vars => LockHeldOnlyToCommit'
  BY LockInvariant
<1>3. QED
  BY <1>1, <1>2, TypeCorrect, PTL DEF Spec

-----------------------------------------------------------------------------
(* The insert against what the others do to the database.  Codex and the   *)
(* inserts wait for the write lock; a rollback writes the file without it. *)

\* No rollback overwrites the database file between another repair's INSERT
\* and its COMMIT.
RollbacksApart ==
    \A p, q \in Rescues :
        p # q /\ pc[p] = "commit" => pc[q] \notin {"restoreDb", "copyDb"}

RowStillMissing == \A p \in Rescues : pc[p] = "commit" => Row(p) = NoRow

\* While a repair has an uncommitted insert nobody else writes the database.
LEMMA CommitsAlone ==
  ASSUME RollbacksApart, TypeOK, LockHeldOnlyToCommit, Next,
         NEW p \in Rescues, pc[p] = "commit"
  PROVE  UNCHANGED db \/ Commit(p)
<1>1. lock = p
  BY DEF LockHeldOnlyToCommit
<1>2. CASE CodexStep
  BY <1>1, <1>2, RescuesAssumption DEF CodexStep, CodexStart, CodexStop, CodexBegin, CodexAppend,
     CodexCommit, files
<1>3. ASSUME NEW q \in Rescues, Start(q) \/ Step(q) \/ Crash(q)
      PROVE  UNCHANGED db \/ Commit(p)
  <2>1. CASE Commit(q)
    <3>1. lock = q
      BY <2>1 DEF Commit, At, LockHeldOnlyToCommit
    <3>2. QED
      BY <1>1, <2>1, <3>1
  <2>2. CASE RestoreDb(q) \/ CopyDb(q)
    BY <2>2 DEF RestoreDb, CopyDb, At, RollbacksApart
  <2>3. CASE Start(q) \/ Crash(q) \/ Precondition(q) \/ Backup(q) \/ Recheck(q)
    BY <2>3 DEF Start, Crash, Precondition, Backup, Recheck, ProbeProcess, ProbeLocks, CheckSchema,
       CheckExisting, BackupSource, BackupSourceCopy, BackupDb, BackupDbCopy, RecheckSource,
       world, files
  <2>4. CASE Insert(q) \/ VerifySource(q) \/ VerifyRow(q) \/ RestoreSource(q) \/ CopySource(q)
             \/ CheckSource(q) \/ CheckDb(q)
    BY <2>4 DEF Insert, VerifySource, VerifyRow, RestoreSource, CopySource, CheckSource, CheckDb,
       world, files
  <2>5. QED
    BY <1>3, <2>1, <2>2, <2>3, <2>4 DEF Step, Mutate, Rollback
<1>4. QED
  BY <1>2, <1>3 DEF Next

\* A repair comes to its commit by an insert that saw no row.
LEMMA CommitBegins ==
  ASSUME TypeOK, [Next]_vars, NEW p \in Rescues, pc'[p] = "commit", pc[p] # "commit"
  PROVE  Row(p)' = NoRow
<1>1. ~UNCHANGED vars /\ ~CodexStep
  BY DEF vars, CodexStep
<1>2. PICK q \in Rescues : Start(q) \/ Step(q) \/ Crash(q)
  BY <1>1 DEF Next
<1>3. CASE Insert(q)
  <2>1. q = p
    BY <1>3 DEF Insert, Continue, Begin, Goto, TypeOK
  <2>2. QED
    BY <1>3, <2>1 DEF Insert, MayInsert, files, Continue, Begin, Goto, TypeOK, Row
<1>4. CASE Start(q) \/ Crash(q)
  BY <1>4 DEF Start, Crash, Report, Continue, Goto, TypeOK
<1>5. CASE Precondition(q) \/ Backup(q) \/ Recheck(q)
  BY <1>5 DEF Precondition, Backup, Recheck, ProbeProcess, ProbeLocks, CheckSchema,
     CheckExisting, BackupSource, BackupSourceCopy, BackupDb, BackupDbCopy, RecheckSource,
     RaiseOnFault, Report, Continue, Goto, TypeOK
<1>6. CASE Commit(q) \/ VerifySource(q) \/ VerifyRow(q)
  BY <1>6 DEF Commit, VerifySource, VerifyRow, Begin, RaiseOnFault, Report, Continue, Goto,
     TypeOK
<1>7. CASE Rollback(q)
  BY <1>7 DEF Rollback, RestoreSource, CopySource, CheckSource, RestoreDb, CopyDb, CheckDb,
     FailRollback, Report, Continue, Goto, TypeOK
<1>8. QED
  BY <1>2, <1>3, <1>4, <1>5, <1>6, <1>7 DEF Step, Mutate

LEMMA RowMissingStep ==
  ASSUME RollbacksApart, TypeOK, LockHeldOnlyToCommit, RowStillMissing, [Next]_vars
  PROVE  RowStillMissing'
<1> SUFFICES ASSUME NEW p \in Rescues, pc'[p] = "commit" PROVE Row(p)' = NoRow
  BY DEF RowStillMissing
<1>1. CASE pc[p] # "commit"
  BY <1>1, CommitBegins
<1>2. CASE pc[p] = "commit"
  <2>1. Row(p) = NoRow
    BY <1>2 DEF RowStillMissing
  <2>2. ~(Next /\ Commit(p))
    BY DEF Commit, Continue, Begin, Goto, TypeOK
  <2>3. UNCHANGED db
    BY <1>2, <2>2, CommitsAlone DEF vars, world, files
  <2>4. QED
    BY <2>1, <2>3 DEF Row
<1>3. QED
  BY <1>1, <1>2

\* What the existence check and the insert saw under the lock still holds at
\* the commit, for any number of repairs, of one session or of several, and
\* whatever Codex does between: no row of anybody's is replaced and no other
\* thread's is touched, unless another repair's rollback overwrites the
\* database file, which it does without the lock (backup.py:156), just then.
THEOREM CommitsReplaceNothing == Spec /\ []RollbacksApart => InsertNeverReplaces
<1>1. Init => RowStillMissing
  BY DEF Init, RowStillMissing
<1>2. RollbacksApart /\ TypeOK /\ LockHeldOnlyToCommit /\ RowStillMissing /\ [Next]_vars
      => RowStillMissing'
  BY RowMissingStep
<1>3. RollbacksApart /\ TypeOK /\ LockHeldOnlyToCommit /\ RowStillMissing /\ [Next]_vars =>
        [\A p \in Rescues : pc[p] = "commit" /\ db' # db
           => db[Target[p]] = NoRow /\ \A t \in Threads \ {Target[p]} : db'[t] = db[t]]_vars
  <2> SUFFICES ASSUME RollbacksApart, TypeOK, LockHeldOnlyToCommit, RowStillMissing, Next,
                      NEW p \in Rescues, pc[p] = "commit", db' # db
               PROVE  /\ db[Target[p]] = NoRow
                      /\ \A t \in Threads \ {Target[p]} : db'[t] = db[t]
    OBVIOUS
  <2>1. db[Target[p]] = NoRow
    BY DEF RowStillMissing, Row
  <2>2. Commit(p)
    BY CommitsAlone
  <2>3. QED
    BY <2>1, <2>2 DEF Commit, TypeOK
<1>4. QED
  BY <1>1, <1>2, <1>3, TypeCorrect, LockReleased, PTL DEF Spec, InsertNeverReplaces

\* A single Rescue process.
OneRescue == \A p, q \in Rescues : p = q

\* With one repair at a time nothing is left to exclude: whatever Codex does
\* between the existence check and the commit, no row of its own is replaced.
THEOREM NeverReplaces == ASSUME OneRescue PROVE Spec => InsertNeverReplaces
<1>1. RollbacksApart
  BY DEF OneRescue, RollbacksApart
<1>2. []RollbacksApart
  BY <1>1, PTL
<1>3. QED
  BY <1>2, CommitsReplaceNothing, PTL

-----------------------------------------------------------------------------
(* Repairs one at a time, of any sessions, with Codex kept closed while     *)
(* they run, against AtomicRepair.                                          *)

PastGuard(p) == pc[p] \notin Resting \cup {"guardProcess", "guardLock"}

Planned(p) == db = backupDb[p] /\ db[Target[p]] = NoRow

Installed(p) ==
    /\ backupDb[p][Target[p]] = NoRow
    /\ db = [backupDb[p] EXCEPT ![Target[p]] = RescueRow]

\* The guard's confirmed answer means that Codex is closed.
Closed(p) ==
    /\ pc[p] = "guardLock" /\ probe[p] = "INACTIVE" => ~codexUp
    /\ PastGuard(p) => ~codexUp

\* Where the two files stand against their backups at each step.
SourceAsBackedUp(p) ==
    /\ pc[p] \in {"backupSourceCopy", "backupDb", "backupDbCopy", "recheckSource",
                  "recheckProcess", "recheckLock", "insert", "commit", "verifySource",
                  "verifyRow", "restoreSource", "checkSource", "restoreDb", "copyDb", "checkDb"}
          => Source(p) = backupSrc[p]
    /\ pc[p] = "copySource" => Source(p) = {}

IndexAsBackedUp(p) ==
    /\ pc[p] \in {"backupSource", "backupSourceCopy", "backupDb"} => Row(p) = NoRow
    /\ pc[p] \in {"backupDbCopy", "recheckSource", "recheckProcess", "recheckLock", "insert",
                  "commit"} => Planned(p)
    /\ pc[p] \in {"verifySource", "verifyRow"} => Installed(p)
    /\ pc[p] \in {"restoreSource", "copySource", "checkSource", "restoreDb"} =>
          (cause[p] = "write" /\ Planned(p)) \/ (cause[p] # "write" /\ Installed(p))
    /\ pc[p] = "checkDb" => db = backupDb[p]

AsBackedUp(p) == SourceAsBackedUp(p) /\ IndexAsBackedUp(p) /\ PlanAsBackedUp(p)

AloneInv ==
    /\ lock = Codex => codexUp
    /\ \A p \in Rescues : InFlightHasNoResult(p) /\ Closed(p) /\ AsBackedUp(p)

LEMMA NamedRowsDiffer ==
    /\ NoRow # RescueRow /\ NoRow # Lost /\ RescueRow # Lost
    /\ \A n \in 1..MaxCommits : n # RescueRow
BY DEF NoRow, RescueRow, Lost

\* A row that is missing is a row that could be read.
LEMMA MissingIsReadable ==
  ASSUME NEW p \in Rescues, db[Target[p]] # Lost PROVE Readable
BY DEF Readable, Truncated

\* Only two probes that both see no writer confirm that there is none.
LEMMA ConfirmedInactive ==
  ASSUME NEW proc \in Outcomes, NEW locks \in Outcomes,
         WriterStatus(proc, locks) = "INACTIVE_CONFIRMED"
  PROVE  proc = "INACTIVE" /\ locks = "INACTIVE"
<1>1. CASE "ACTIVE" \in {proc, locks}
  BY <1>1 DEF WriterStatus
<1>2. CASE "ACTIVE" \notin {proc, locks} /\ "ERROR" \in {proc, locks}
  BY <1>2 DEF WriterStatus
<1>3. CASE "ACTIVE" \notin {proc, locks} /\ "ERROR" \notin {proc, locks}
  BY <1>3 DEF Outcomes
<1>4. QED
  BY <1>1, <1>2, <1>3

LEMMA ClosedStep ==
  ASSUME WriterExcluded, TypeOK, NEW p \in Rescues, Closed(p), lock = Codex => codexUp,
         Start(p) \/ Step(p) \/ Crash(p)
  PROVE  Closed(p)' /\ codexUp' = codexUp /\ (lock' = Codex => lock = Codex)
<1> USE DEF TypeOK, Closed, PastGuard, Resting, Restoring, At, Goto, Report, Continue,
            RaiseOnFault, Begin, world, files, codexVars, plan, backups
<1>1. CASE Start(p)
  BY <1>1 DEF Start
<1>2. CASE ProbeProcess(p, "guardProcess", "guardLock")
  BY <1>2 DEF ProbeProcess, ProcessProbe
<1>3. CASE ProbeLocks(p, "guardLock", "schema")
  <2>1. \A outcome \in LockProbe :
            WriterStatus(probe[p], outcome) = "INACTIVE_CONFIRMED" => probe[p] = "INACTIVE"
    BY ConfirmedInactive DEF LockProbe, Outcomes
  <2>2. QED
    BY <1>3, <2>1 DEF ProbeLocks
<1>4. CASE ProbeProcess(p, "recheckProcess", "recheckLock")
  BY <1>4 DEF ProbeProcess, ProcessProbe
<1>5. CASE ProbeLocks(p, "recheckLock", "insert")
  BY <1>5 DEF ProbeLocks
<1>6. CASE CheckSchema(p)
  BY <1>6 DEF CheckSchema
<1>7. CASE CheckExisting(p)
  BY <1>7 DEF CheckExisting
<1>8. CASE BackupSource(p)
  BY <1>8 DEF BackupSource
<1>9. CASE BackupSourceCopy(p)
  BY <1>9 DEF BackupSourceCopy
<1>10. CASE BackupDb(p)
  BY <1>10 DEF BackupDb
<1>11. CASE BackupDbCopy(p)
  BY <1>11 DEF BackupDbCopy
<1>12. CASE RecheckSource(p)
  BY <1>12 DEF RecheckSource
<1>13. CASE Insert(p)
  BY <1>13 DEF Insert
<1>14. CASE Commit(p)
  BY <1>14 DEF Commit, CloseConnection
<1>15. CASE VerifySource(p)
  BY <1>15 DEF VerifySource
<1>16. CASE VerifyRow(p)
  BY <1>16 DEF VerifyRow
<1>17. CASE RestoreSource(p)
  BY <1>17 DEF RestoreSource, FailRollback
<1>18. CASE CopySource(p)
  BY <1>18 DEF CopySource, FailRollback
<1>19. CASE CheckSource(p)
  BY <1>19 DEF CheckSource, FailRollback
<1>20. CASE RestoreDb(p)
  BY <1>20 DEF RestoreDb, FailRollback
<1>21. CASE CopyDb(p)
  BY <1>21 DEF CopyDb, FailRollback
<1>22. CASE CheckDb(p)
  BY <1>22 DEF CheckDb, FailRollback
<1>23. CASE Crash(p)
  BY <1>23 DEF Crash
<1>24. QED
  BY <1>1, <1>2, <1>3, <1>4, <1>5, <1>6, <1>7, <1>8, <1>9, <1>10, <1>11, <1>12,
     <1>13, <1>14, <1>15, <1>16, <1>17, <1>18, <1>19, <1>20, <1>21, <1>22, <1>23
  DEF Step, Precondition, Backup, Recheck, Mutate, Rollback

LEMMA NoResultStep ==
  ASSUME TypeOK, NEW p \in Rescues, InFlightHasNoResult(p), Start(p) \/ Step(p) \/ Crash(p)
  PROVE  InFlightHasNoResult(p)'
<1> USE DEF TypeOK, InFlightHasNoResult, Resting, Restoring, At, Goto, Report, Continue,
            RaiseOnFault, Begin
<1>1. CASE Start(p)
  BY <1>1 DEF Start
<1>2. CASE ProbeProcess(p, "guardProcess", "guardLock")
  BY <1>2 DEF ProbeProcess, ProcessProbe
<1>3. CASE ProbeLocks(p, "guardLock", "schema")
  BY <1>3 DEF ProbeLocks
<1>4. CASE ProbeProcess(p, "recheckProcess", "recheckLock")
  BY <1>4 DEF ProbeProcess, ProcessProbe
<1>5. CASE ProbeLocks(p, "recheckLock", "insert")
  BY <1>5 DEF ProbeLocks
<1>6. CASE CheckSchema(p)
  BY <1>6 DEF CheckSchema
<1>7. CASE CheckExisting(p)
  BY <1>7 DEF CheckExisting
<1>8. CASE BackupSource(p)
  BY <1>8 DEF BackupSource
<1>9. CASE BackupSourceCopy(p)
  BY <1>9 DEF BackupSourceCopy
<1>10. CASE BackupDb(p)
  BY <1>10 DEF BackupDb
<1>11. CASE BackupDbCopy(p)
  BY <1>11 DEF BackupDbCopy
<1>12. CASE RecheckSource(p)
  BY <1>12 DEF RecheckSource
<1>13. CASE Insert(p)
  BY <1>13 DEF Insert
<1>14. CASE Commit(p)
  BY <1>14 DEF Commit
<1>15. CASE VerifySource(p)
  BY <1>15 DEF VerifySource
<1>16. CASE VerifyRow(p)
  BY <1>16 DEF VerifyRow
<1>17. CASE RestoreSource(p)
  BY <1>17 DEF RestoreSource, FailRollback
<1>18. CASE CopySource(p)
  BY <1>18 DEF CopySource, FailRollback
<1>19. CASE CheckSource(p)
  BY <1>19 DEF CheckSource, FailRollback
<1>20. CASE RestoreDb(p)
  BY <1>20 DEF RestoreDb, FailRollback
<1>21. CASE CopyDb(p)
  BY <1>21 DEF CopyDb, FailRollback
<1>22. CASE CheckDb(p)
  BY <1>22 DEF CheckDb, FailRollback
<1>23. CASE Crash(p)
  BY <1>23 DEF Crash
<1>24. QED
  BY <1>1, <1>2, <1>3, <1>4, <1>5, <1>6, <1>7, <1>8, <1>9, <1>10, <1>11, <1>12,
     <1>13, <1>14, <1>15, <1>16, <1>17, <1>18, <1>19, <1>20, <1>21, <1>22, <1>23
  DEF Step, Precondition, Backup, Recheck, Mutate, Rollback

LEMMA SourceBackupStep ==
  ASSUME TypeOK, NEW p \in Rescues, SourceAsBackedUp(p), Start(p) \/ Step(p) \/ Crash(p)
  PROVE  SourceAsBackedUp(p)'
<1> USE DEF TypeOK, SourceAsBackedUp, Source, Resting, Restoring, At, Goto, Report, Continue,
            RaiseOnFault, Begin, world, files, plan, backups
<1>1. CASE Start(p)
  BY <1>1 DEF Start
<1>2. CASE ProbeProcess(p, "guardProcess", "guardLock")
  BY <1>2 DEF ProbeProcess, ProcessProbe
<1>3. CASE ProbeLocks(p, "guardLock", "schema")
  BY <1>3 DEF ProbeLocks
<1>4. CASE ProbeProcess(p, "recheckProcess", "recheckLock")
  BY <1>4 DEF ProbeProcess, ProcessProbe
<1>5. CASE ProbeLocks(p, "recheckLock", "insert")
  BY <1>5 DEF ProbeLocks
<1>6. CASE CheckSchema(p)
  BY <1>6 DEF CheckSchema
<1>7. CASE CheckExisting(p)
  BY <1>7 DEF CheckExisting
<1>8. CASE BackupSource(p)
  BY <1>8 DEF BackupSource
<1>9. CASE BackupSourceCopy(p)
  BY <1>9 DEF BackupSourceCopy
<1>10. CASE BackupDb(p)
  BY <1>10 DEF BackupDb
<1>11. CASE BackupDbCopy(p)
  BY <1>11 DEF BackupDbCopy
<1>12. CASE RecheckSource(p)
  BY <1>12 DEF RecheckSource
<1>13. CASE Insert(p)
  BY <1>13 DEF Insert
<1>14. CASE Commit(p)
  BY <1>14 DEF Commit
<1>15. CASE VerifySource(p)
  BY <1>15 DEF VerifySource
<1>16. CASE VerifyRow(p)
  BY <1>16 DEF VerifyRow
<1>17. CASE RestoreSource(p)
  BY <1>17 DEF RestoreSource, FailRollback
<1>18. CASE CopySource(p)
  <2>1. CASE Faults /\ FailRollback(p) /\ UNCHANGED rollout
    BY <2>1 DEF FailRollback
  <2>2. ASSUME NEW rest \in {{}} \cup (IF Source(p) = {} THEN {} ELSE {{Garbage}}),
               rollout' = [rollout EXCEPT ![Target[p]] = backupSrc[p] \cup rest],
               Continue(p, "checkSource")
        PROVE  SourceAsBackedUp(p)'
    <3>1. rest = {}
      BY <1>18 DEF CopySource
    <3>2. rollout' = [rollout EXCEPT ![Target[p]] = backupSrc[p]] /\ UNCHANGED backupSrc
      BY <1>18, <2>2, <3>1 DEF CopySource
    <3>3. QED
      BY <2>2, <3>2
  <2>3. QED
    BY <1>18, <2>1, <2>2 DEF CopySource
<1>19. CASE CheckSource(p)
  BY <1>19 DEF CheckSource, FailRollback
<1>20. CASE RestoreDb(p)
  BY <1>20 DEF RestoreDb, FailRollback
<1>21. CASE CopyDb(p)
  BY <1>21 DEF CopyDb, FailRollback
<1>22. CASE CheckDb(p)
  BY <1>22 DEF CheckDb, FailRollback
<1>23. CASE Crash(p)
  BY <1>23 DEF Crash
<1>24. QED
  BY <1>1, <1>2, <1>3, <1>4, <1>5, <1>6, <1>7, <1>8, <1>9, <1>10, <1>11, <1>12,
     <1>13, <1>14, <1>15, <1>16, <1>17, <1>18, <1>19, <1>20, <1>21, <1>22, <1>23
  DEF Step, Precondition, Backup, Recheck, Mutate, Rollback

LEMMA IndexBackupStep ==
  ASSUME TypeOK, NEW p \in Rescues, IndexAsBackedUp(p), Start(p) \/ Step(p) \/ Crash(p)
  PROVE  IndexAsBackedUp(p)'
<1> USE DEF TypeOK, IndexAsBackedUp, Planned, Installed, Row, Resting, Restoring, At, Goto,
            Report, Continue, RaiseOnFault, Begin, world, files, plan, backups
<1>1. CASE Start(p)
  BY <1>1 DEF Start
<1>2. CASE ProbeProcess(p, "guardProcess", "guardLock")
  BY <1>2 DEF ProbeProcess, ProcessProbe
<1>3. CASE ProbeLocks(p, "guardLock", "schema")
  BY <1>3 DEF ProbeLocks
<1>4. CASE ProbeProcess(p, "recheckProcess", "recheckLock")
  BY <1>4 DEF ProbeProcess, ProcessProbe
<1>5. CASE ProbeLocks(p, "recheckLock", "insert")
  BY <1>5 DEF ProbeLocks
<1>6. CASE CheckSchema(p)
  BY <1>6 DEF CheckSchema
<1>7. CASE CheckExisting(p)
  BY <1>7 DEF CheckExisting
<1>8. CASE BackupSource(p)
  BY <1>8 DEF BackupSource
<1>9. CASE BackupSourceCopy(p)
  BY <1>9 DEF BackupSourceCopy
<1>10. CASE BackupDb(p)
  BY <1>10 DEF BackupDb
<1>11. CASE BackupDbCopy(p)
  BY <1>11 DEF BackupDbCopy
<1>12. CASE RecheckSource(p)
  BY <1>12 DEF RecheckSource
<1>13. CASE Insert(p)
  BY <1>13 DEF Insert
<1>14. CASE Commit(p)
  BY <1>14 DEF Commit
<1>15. CASE VerifySource(p)
  BY <1>15 DEF VerifySource
<1>16. CASE VerifyRow(p)
  BY <1>16 DEF VerifyRow
<1>17. CASE RestoreSource(p)
  BY <1>17 DEF RestoreSource, FailRollback
<1>18. CASE CopySource(p)
  BY <1>18 DEF CopySource, FailRollback
<1>19. CASE CheckSource(p)
  BY <1>19 DEF CheckSource, FailRollback
<1>20. CASE RestoreDb(p)
  BY <1>20 DEF RestoreDb, FailRollback
<1>21. CASE CopyDb(p)
  BY <1>21 DEF CopyDb, FailRollback
<1>22. CASE CheckDb(p)
  BY <1>22 DEF CheckDb, FailRollback
<1>23. CASE Crash(p)
  BY <1>23 DEF Crash
<1>24. QED
  BY <1>1, <1>2, <1>3, <1>4, <1>5, <1>6, <1>7, <1>8, <1>9, <1>10, <1>11, <1>12,
     <1>13, <1>14, <1>15, <1>16, <1>17, <1>18, <1>19, <1>20, <1>21, <1>22, <1>23
  DEF Step, Precondition, Backup, Recheck, Mutate, Rollback

LEMMA PlanBackupStep ==
  ASSUME TypeOK, NEW p \in Rescues, SourceAsBackedUp(p), PlanAsBackedUp(p),
         Start(p) \/ Step(p) \/ Crash(p)
  PROVE  PlanAsBackedUp(p)'
<1> USE DEF TypeOK, PlanAsBackedUp, Restoring, At, Goto, Report, Continue, RaiseOnFault, Begin,
            plan, backups
<1>1. CASE Start(p) \/ Crash(p) \/ Precondition(p)
  BY <1>1 DEF Start, Crash, Precondition, ProbeProcess, ProbeLocks, CheckSchema, CheckExisting
<1>2. CASE Backup(p)
  BY <1>2 DEF Backup, BackupSource, BackupSourceCopy, BackupDb, BackupDbCopy
<1>3. CASE RecheckSource(p)
  BY <1>3 DEF RecheckSource, PlanStillValid, SourceUnchanged, SourceAsBackedUp
<1>4. CASE ProbeProcess(p, "recheckProcess", "recheckLock")
  BY <1>4 DEF ProbeProcess
<1>5. CASE ProbeLocks(p, "recheckLock", "insert")
  BY <1>5 DEF ProbeLocks
<1>6. CASE Mutate(p)
  BY <1>6 DEF Mutate, Insert, Commit, VerifySource, VerifyRow
<1>7. CASE Rollback(p)
  BY <1>7 DEF Rollback, RestoreSource, CopySource, CheckSource, RestoreDb, CopyDb, CheckDb,
     FailRollback
<1>8. QED
  BY <1>1, <1>2, <1>3, <1>4, <1>5, <1>6, <1>7 DEF Step, Recheck

\* Codex is closed while the repair is at work, so its own steps leave the
\* repair's files alone.
LEMMA CodexKeepsAlone ==
  ASSUME WriterExcluded, TypeOK, AloneInv, CodexStep PROVE AloneInv'
<1>1. UNCHANGED <<pc, shaBefore, probe, backupSrc, backupDb, cause, result>>
  BY DEF CodexStep, backups, plan
<1>2. lock' = Codex => codexUp'
  BY RescuesAssumption DEF AloneInv, CodexStep, CodexStart, CodexStop, CodexBegin, CodexAppend,
     CodexCommit, codexVars
<1>3. ASSUME NEW p \in Rescues, ~(pc[p] \in Resting)
      PROVE  codexUp' => codexUp
  BY <1>3 DEF CodexStep, CodexStart, CodexStop, CodexBegin, CodexAppend, CodexCommit, codexVars
<1>4. ~codexUp => UNCHANGED files
  BY DEF AloneInv, CodexStep, CodexStart, CodexStop, CodexBegin, CodexAppend, CodexCommit, files
<1>5. ASSUME NEW p \in Rescues
      PROVE  InFlightHasNoResult(p)' /\ Closed(p)' /\ AsBackedUp(p)'
  <2>1. InFlightHasNoResult(p)'
    BY <1>1 DEF AloneInv, InFlightHasNoResult
  <2>2. Closed(p)'
    BY <1>1, <1>3 DEF AloneInv, Closed, PastGuard, Resting
  <2>3. PlanAsBackedUp(p)'
    BY <1>1 DEF AloneInv, AsBackedUp, PlanAsBackedUp
  <2>4. CASE PastGuard(p)
    <3>1. UNCHANGED files
      BY <1>4, <2>4 DEF AloneInv, Closed
    <3>2. SourceAsBackedUp(p)' /\ IndexAsBackedUp(p)'
      BY <1>1, <3>1 DEF AloneInv, AsBackedUp, SourceAsBackedUp, IndexAsBackedUp, Source, Row,
         Planned, Installed, files
    <3>3. QED
      BY <2>1, <2>2, <2>3, <3>2 DEF AsBackedUp
  <2>5. CASE ~PastGuard(p)
    <3>1. SourceAsBackedUp(p)' /\ IndexAsBackedUp(p)'
      BY <1>1, <2>5 DEF PastGuard, Resting, SourceAsBackedUp, IndexAsBackedUp
    <3>2. QED
      BY <2>1, <2>2, <2>3, <3>1 DEF AsBackedUp
  <2>6. QED
    BY <2>4, <2>5
<1>6. QED
  BY <1>2, <1>5 DEF AloneInv

LEMMA CauseFrame ==
  ASSUME TypeOK, NEW p \in Rescues, Start(p) \/ Step(p) \/ Crash(p),
         NEW q \in Rescues, q # p
  PROVE  cause'[q] = cause[q]
<1> USE DEF TypeOK, Begin
<1>1. CASE Start(p) \/ Crash(p) \/ Precondition(p) \/ Backup(p) \/ Recheck(p)
  BY <1>1 DEF Start, Crash, Precondition, Backup, Recheck, ProbeProcess, ProbeLocks, CheckSchema,
     CheckExisting, BackupSource, BackupSourceCopy, BackupDb, BackupDbCopy, RecheckSource
<1>2. CASE Mutate(p)
  BY <1>2 DEF Mutate, Insert, Commit, VerifySource, VerifyRow
<1>3. CASE Rollback(p)
  BY <1>3 DEF Rollback, RestoreSource, CopySource, CheckSource, RestoreDb, CopyDb, CheckDb
<1>4. QED
  BY <1>1, <1>2, <1>3 DEF Step

LEMMA RestingOnlyStarts ==
  ASSUME NEW p \in Rescues, pc[p] \in Resting, Start(p) \/ Step(p) \/ Crash(p)
  PROVE  Start(p)
<1> USE DEF Resting, At
<1>1. ~Crash(p) /\ ~Precondition(p) /\ ~Backup(p) /\ ~Recheck(p)
  BY DEF Crash, Precondition, Backup, Recheck, ProbeProcess, ProbeLocks, CheckSchema,
     CheckExisting, BackupSource, BackupSourceCopy, BackupDb, BackupDbCopy, RecheckSource
<1>2. ~Mutate(p) /\ ~Rollback(p)
  BY DEF Mutate, Insert, Commit, VerifySource, VerifyRow, Rollback, RestoreSource, CopySource,
     CheckSource, RestoreDb, CopyDb, CheckDb
<1>3. QED
  BY <1>1, <1>2 DEF Step

\* A repair that is not at work is in nobody's way, and starting one disturbs
\* nobody.
LEMMA OthersKeepAlone ==
  ASSUME TypeOK, OneAtATime, AloneInv, NEW p \in Rescues, Start(p) \/ Step(p) \/ Crash(p),
         codexUp' = codexUp, NEW q \in Rescues, q # p
  PROVE  InFlightHasNoResult(q)' /\ Closed(q)' /\ AsBackedUp(q)'
<1> USE DEF AsBackedUp
<1>1. UNCHANGED <<pc[q], result[q], shaBefore[q], cause[q]>>
  BY StepFrame, CauseFrame DEF Frame
<1>2. CASE pc[q] \in Resting
  BY <1>1, <1>2 DEF InFlightHasNoResult, Closed, PastGuard, SourceAsBackedUp, IndexAsBackedUp,
     PlanAsBackedUp, Resting, Restoring
<1>3. CASE pc[q] \notin Resting
  <2>1. pc[p] \in Resting
    BY <1>3 DEF OneAtATime
  <2>2. Start(p)
    BY <2>1, RestingOnlyStarts
  <2>3. UNCHANGED <<files, probe, backupSrc, backupDb>>
    BY <2>2 DEF Start, world, backups
  <2>4. QED
    BY <1>1, <2>3 DEF AloneInv, InFlightHasNoResult, Closed, PastGuard, SourceAsBackedUp,
       IndexAsBackedUp, PlanAsBackedUp, Source, Row, Planned, Installed, files
<1>4. QED
  BY <1>2, <1>3

LEMMA AloneStep ==
  ASSUME WriterExcluded, TypeOK, OneAtATime, AloneInv, [Next]_vars PROVE AloneInv'
<1>1. ASSUME NEW p \in Rescues, Start(p) \/ Step(p) \/ Crash(p) PROVE AloneInv'
  <2>1. Closed(p)' /\ codexUp' = codexUp /\ (lock' = Codex => lock = Codex)
    BY <1>1, ClosedStep DEF AloneInv
  <2>2. InFlightHasNoResult(p)' /\ AsBackedUp(p)'
    BY <1>1, NoResultStep, SourceBackupStep, IndexBackupStep, PlanBackupStep
       DEF AloneInv, AsBackedUp
  <2>3. \A q \in Rescues \ {p} : InFlightHasNoResult(q)' /\ Closed(q)' /\ AsBackedUp(q)'
    BY <1>1, <2>1, OthersKeepAlone
  <2>4. QED
    BY <2>1, <2>2, <2>3 DEF AloneInv
<1>2. CASE UNCHANGED vars
  BY <1>2 DEF vars, world, codexVars, files, plan, backups, AloneInv, InFlightHasNoResult, Closed,
     PastGuard, AsBackedUp, SourceAsBackedUp, IndexAsBackedUp, PlanAsBackedUp, Source, Row,
     Planned, Installed
<1>3. QED
  BY <1>1, <1>2, CodexKeepsAlone DEF Next

\* The types, and what ExclusiveSpec says of every step.
LEMMA ExclusiveTypes == ExclusiveSpec => [](TypeOK /\ OneAtATime)
<1>1. Init => TypeOK /\ OneAtATime
  BY TypeInitially DEF Init, OneAtATime, Resting
<1>2. TypeOK /\ OneAtATime /\ [Next /\ OneAtATime']_vars => TypeOK' /\ OneAtATime'
  BY TypeStep DEF vars, OneAtATime
<1>3. QED
  BY <1>1, <1>2, PTL DEF ExclusiveSpec

\* Between the guard's answer and the repair's end, the rollout and the table
\* differ from their backups by what the repair itself did to them, and the
\* rollout's backup is the plan's: for any number of repairs, of one session or
\* of several, that run one after another.
THEOREM FilesFollowTheBackups ==
  ASSUME WriterExcluded PROVE ExclusiveSpec => []AloneInv
<1>1. Init => AloneInv
  BY RescuesAssumption DEF Init, AloneInv, AsBackedUp, InFlightHasNoResult, Closed, PastGuard,
     SourceAsBackedUp, IndexAsBackedUp, PlanAsBackedUp, Resting, Restoring
<1>2. TypeOK /\ OneAtATime /\ AloneInv /\ [Next /\ OneAtATime']_vars => AloneInv'
  BY AloneStep
<1>3. QED
  BY <1>1, <1>2, ExclusiveTypes, PTL DEF ExclusiveSpec

\* Once its preconditions hold, a repair whose user keeps Codex closed, and starts
\* no second repair meanwhile, adds
\* exactly the missing row or leaves both files as its plan found them.
THEOREM RepairIsAllOrNothing ==
  ASSUME WriterExcluded PROVE ExclusiveSpec => AllOrNothing
<1>1. TypeOK /\ AloneInv /\ [Next /\ OneAtATime']_vars =>
        [\A p \in Rescues :
         /\ Ended(p, "REPAIRED") =>
              /\ Source(p) = shaBefore[p] /\ backupDb[p][Target[p]] = NoRow
              /\ db = [backupDb[p] EXCEPT ![Target[p]] = RescueRow]
         /\ Ended(p, "ROLLED_BACK") => Source(p) = shaBefore[p] /\ db = backupDb[p]]_vars
  <2> SUFFICES ASSUME TypeOK, AloneInv, Next, NEW p \in Rescues
               PROVE  /\ Ended(p, "REPAIRED") =>
                           /\ Source(p) = shaBefore[p] /\ backupDb[p][Target[p]] = NoRow
                           /\ db = [backupDb[p] EXCEPT ![Target[p]] = RescueRow]
                      /\ Ended(p, "ROLLED_BACK") => Source(p) = shaBefore[p] /\ db = backupDb[p]
    OBVIOUS
  <2>1. CASE CodexStep
    BY <2>1 DEF CodexStep, Ended
  <2>2. CASE Start(p) \/ Step(p) \/ Crash(p)
    <3>1. Ended(p, "REPAIRED") => VerifyRow(p)
      BY <2>2 DEF Ended, Start, Crash, Step, Precondition, Backup, Recheck, Mutate, Rollback,
         ProbeProcess, ProbeLocks, CheckSchema, CheckExisting, BackupSource, BackupSourceCopy,
         BackupDb, BackupDbCopy, RecheckSource, Insert, Commit, VerifySource, RestoreSource,
         CopySource, CheckSource, RestoreDb, CopyDb, CheckDb, FailRollback, RaiseOnFault, Begin,
         Report, Continue, TypeOK
    <3>2. Ended(p, "ROLLED_BACK") => CheckDb(p)
      BY <2>2 DEF Ended, Start, Crash, Step, Precondition, Backup, Recheck, Mutate, Rollback,
         ProbeProcess, ProbeLocks, CheckSchema, CheckExisting, BackupSource, BackupSourceCopy,
         BackupDb, BackupDbCopy, RecheckSource, Insert, Commit, VerifySource, VerifyRow,
         RestoreSource, CopySource, CheckSource, RestoreDb, CopyDb, FailRollback, RaiseOnFault,
         Begin, Report, Continue, TypeOK
    <3>3. CASE VerifyRow(p)
      <4>1. pc[p] = "verifyRow"
        BY <3>3 DEF VerifyRow, At
      <4>2. Installed(p) /\ Source(p) = backupSrc[p] /\ backupSrc[p] = shaBefore[p]
        BY <4>1 DEF AloneInv, AsBackedUp, IndexAsBackedUp, SourceAsBackedUp, PlanAsBackedUp
      <4>3. ~Ended(p, "ROLLED_BACK")
        BY <3>3 DEF Ended, VerifyRow, Report, Begin, Continue, TypeOK
      <4>4. QED
        BY <4>2, <4>3 DEF Installed
    <3>4. CASE CheckDb(p)
      <4>1. pc[p] = "checkDb"
        BY <3>4 DEF CheckDb, At
      <4>2. db = backupDb[p] /\ Source(p) = backupSrc[p] /\ backupSrc[p] = shaBefore[p]
        BY <4>1 DEF AloneInv, AsBackedUp, IndexAsBackedUp, SourceAsBackedUp, PlanAsBackedUp,
           Restoring
      <4>3. ~Ended(p, "REPAIRED")
        BY <3>4 DEF Ended, CheckDb, FailRollback, Report, TypeOK
      <4>4. QED
        BY <4>2, <4>3
    <3>5. QED
      BY <3>1, <3>2, <3>3, <3>4
  <2>3. ASSUME NEW q \in Rescues \ {p}, Start(q) \/ Step(q) \/ Crash(q)
        PROVE  ~Ended(p, "REPAIRED") /\ ~Ended(p, "ROLLED_BACK")
    BY <2>3, StepFrame DEF Frame, Ended
  <2>4. QED
    BY <2>1, <2>2, <2>3 DEF Next
<1>2. QED
  BY <1>1, ExclusiveTypes, FilesFollowTheBackups, PTL DEF ExclusiveSpec, AllOrNothing

-----------------------------------------------------------------------------
(* The refinement: what one repair's variables look like from outside.     *)

SettledAs(p) ==
    /\ SettledSource = [t \in Threads |-> IF Target[p] = t /\ pc[p] = "copySource"
                                         THEN backupSrc[p] ELSE rollout[t]]
    /\ SettledIndex = IF pc[p] = "copyDb" THEN backupDb[p] ELSE db

Alone(p) == \A q \in Rescues \ {p} : pc[q] \notin {"copySource", "copyDb"}

LEMMA SettledByTheOne ==
  ASSUME NEW p \in Rescues
  PROVE  /\ Alone(p) => SettledAs(p)
         /\ Alone(p)' => SettledAs(p)'
<1>1. ASSUME Alone(p) PROVE SettledAs(p)
  <2>1. \A q \in Rescues : pc[q] \in {"copySource", "copyDb"} => q = p
    BY <1>1 DEF Alone
  <2>2. \A t : Target[p] = t /\ pc[p] = "copySource" =>
            (CHOOSE q \in Rescues : Target[q] = t /\ pc[q] = "copySource") = p
    BY <2>1
  <2>3. pc[p] = "copyDb" => (CHOOSE q \in Rescues : pc[q] = "copyDb") = p
    BY <2>1
  <2>4. QED
    BY <2>1, <2>2, <2>3 DEF SettledAs, SettledSource, SettledIndex
<1>2. ASSUME Alone(p)' PROVE SettledAs(p)'
  <2>1. \A q \in Rescues : pc'[q] \in {"copySource", "copyDb"} => q = p
    BY <1>2 DEF Alone
  <2>2. \A t : Target[p] = t /\ pc'[p] = "copySource" =>
            (CHOOSE q \in Rescues : Target[q] = t /\ pc'[q] = "copySource") = p
    BY <2>1
  <2>3. pc'[p] = "copyDb" => (CHOOSE q \in Rescues : pc'[q] = "copyDb") = p
    BY <2>1
  <2>4. QED
    BY <2>1, <2>2, <2>3 DEF SettledAs, SettledSource, SettledIndex
<1>3. QED
  BY <1>1, <1>2

AtWork == {"working", "installed"}

\* Which phase each step of the repair counts as.
PhaseTable(p) ==
    /\ pc[p] \in {"idle", "guardProcess", "guardLock"} => Phase(p) = "idle"
    /\ pc[p] \in {"schema", "existing", "backupSource", "backupSourceCopy", "backupDb",
                  "backupDbCopy", "recheckSource", "recheckProcess", "recheckLock", "insert",
                  "commit", "copyDb", "checkDb"} => Phase(p) = "working"
    /\ pc[p] \in {"verifySource", "verifyRow"} => Phase(p) = "installed"
    /\ pc[p] \in {"restoreSource", "copySource", "checkSource", "restoreDb"} =>
          \/ cause[p] = "write" /\ Phase(p) = "working"
          \/ cause[p] # "write" /\ Phase(p) = "installed"
    /\ pc[p] = "crashed" => Phase(p) = "dead"
    /\ pc[p] = "halfRestored" /\ result[p] # "RAISED" => Phase(p) = "broken"
    /\ pc[p] = "done" =>
          /\ result[p] = "RAISED" => Phase(p) = "dead"
          /\ result[p] = "ROLLBACK_FAILED" => Phase(p) = "broken"
          /\ result[p] = "REPAIRED" => Phase(p) = "repaired"
          /\ result[p] \notin {"RAISED", "ROLLBACK_FAILED", "REPAIRED"} => Phase(p) = "unchanged"
    /\ pc[p] \in Resting => Phase(p) \notin AtWork

LEMMA PhaseIsTabled ==
  ASSUME NEW p \in Rescues
  PROVE  /\ InFlightHasNoResult(p) => PhaseTable(p)
         /\ InFlightHasNoResult(p)' => PhaseTable(p)'
<1>1. ASSUME InFlightHasNoResult(p) PROVE PhaseTable(p)
  <2> USE <1>1
  <2>1. pc[p] \in {"idle", "guardProcess", "guardLock"} => Phase(p) = "idle"
    BY DEF Phase
  <2>2. pc[p] = "crashed" => Phase(p) = "dead"
    BY DEF Phase
  <2>3. pc[p] = "halfRestored" /\ result[p] # "RAISED" => Phase(p) = "broken"
    BY DEF Phase, Abandoned
  <2>4. pc[p] = "halfRestored" => Phase(p) \in {"dead", "broken"}
    BY DEF Phase, Abandoned
  <2>5. CASE pc[p] = "done"
    <3>1. result[p] = "RAISED" => Phase(p) = "dead"
      BY <2>5 DEF Phase
    <3>2. result[p] = "ROLLBACK_FAILED" => Phase(p) = "broken"
      BY <2>5 DEF Phase, Abandoned
    <3>3. result[p] = "REPAIRED" => Phase(p) = "repaired"
      BY <2>5 DEF Phase, Abandoned
    <3>4. result[p] \notin {"RAISED", "ROLLBACK_FAILED", "REPAIRED"}
             => Phase(p) = "unchanged"
      BY <2>5 DEF Phase, Abandoned
    <3>5. QED
      BY <2>5, <3>1, <3>2, <3>3, <3>4 DEF PhaseTable, AtWork
  <2>6. CASE pc[p] \notin Resting \cup {"guardProcess", "guardLock"}
    <3>1. Phase(p) = IF HasInstalled(p) THEN "installed" ELSE "working"
      BY <2>6 DEF Phase, InFlightHasNoResult, Abandoned, Resting
    <3>2. QED
      BY <2>6, <3>1 DEF HasInstalled, PhaseTable, Resting
  <2>7. QED
    BY <2>1, <2>2, <2>3, <2>4, <2>5, <2>6 DEF Resting, PhaseTable, AtWork
<1>2. ASSUME InFlightHasNoResult(p)' PROVE PhaseTable(p)'
  <2> USE <1>2
  <2>1. pc'[p] \in {"idle", "guardProcess", "guardLock"} => Phase(p)' = "idle"
    BY DEF Phase
  <2>2. pc'[p] = "crashed" => Phase(p)' = "dead"
    BY DEF Phase
  <2>3. pc'[p] = "halfRestored" /\ result'[p] # "RAISED" => Phase(p)' = "broken"
    BY DEF Phase, Abandoned
  <2>4. pc'[p] = "halfRestored" => Phase(p)' \in {"dead", "broken"}
    BY DEF Phase, Abandoned
  <2>5. CASE pc'[p] = "done"
    <3>1. result'[p] = "RAISED" => Phase(p)' = "dead"
      BY <2>5 DEF Phase
    <3>2. result'[p] = "ROLLBACK_FAILED" => Phase(p)' = "broken"
      BY <2>5 DEF Phase, Abandoned
    <3>3. result'[p] = "REPAIRED" => Phase(p)' = "repaired"
      BY <2>5 DEF Phase, Abandoned
    <3>4. result'[p] \notin {"RAISED", "ROLLBACK_FAILED", "REPAIRED"}
             => Phase(p)' = "unchanged"
      BY <2>5 DEF Phase, Abandoned
    <3>5. QED
      BY <2>5, <3>1, <3>2, <3>3, <3>4 DEF PhaseTable, AtWork
  <2>6. CASE pc'[p] \notin Resting \cup {"guardProcess", "guardLock"}
    <3>1. Phase(p)' = IF HasInstalled(p)' THEN "installed" ELSE "working"
      BY <2>6 DEF Phase, InFlightHasNoResult, Abandoned, Resting
    <3>2. QED
      BY <2>6, <3>1 DEF HasInstalled, PhaseTable, Resting
  <2>7. QED
    BY <2>1, <2>2, <2>3, <2>4, <2>5, <2>6 DEF Resting, PhaseTable, AtWork
<1>3. QED
  BY <1>1, <1>2

\* What a step may do to the phase while the files seem to stand still.
PhaseKept(p) ==
    \/ Phase(p)' = Phase(p)
    \/ Phase(p) \notin AtWork /\ Phase(p)' \in {"idle", "working", "unchanged", "dead"}
    \/ Phase(p) = "working" /\ Phase(p)' = "unchanged"
    \/ Phase(p) = "installed" /\ Phase(p)' = "repaired"
    \/ Phase(p) \in AtWork /\ Phase(p)' = "dead"

Broke(p) == Phase(p) \in AtWork /\ Phase(p)' = "broken"

LEMMA PhaseEffect ==
  ASSUME NEW p \in Rescues, TypeOK, PhaseTable(p), PhaseTable(p)', InFlightHasNoResult(p),
         SourceAsBackedUp(p), IndexAsBackedUp(p), Start(p) \/ Step(p) \/ Crash(p)
  PROVE  \/ PhaseKept(p) \/ Broke(p)
         \/ Commit(p) /\ pc'[p] = "verifySource"
         \/ RestoreDb(p) /\ pc'[p] = "copyDb"
<1> USE DEF TypeOK, PhaseTable, PhaseKept, Broke, AtWork, InFlightHasNoResult, Resting, Restoring,
            At, Goto, Report, Continue, RaiseOnFault, Begin
<1>1. CASE Start(p)
  BY <1>1 DEF Start
<1>2. CASE ProbeProcess(p, "guardProcess", "guardLock")
  BY <1>2 DEF ProbeProcess
<1>3. CASE ProbeLocks(p, "guardLock", "schema")
  BY <1>3 DEF ProbeLocks
<1>4. CASE ProbeProcess(p, "recheckProcess", "recheckLock")
  BY <1>4 DEF ProbeProcess
<1>5. CASE ProbeLocks(p, "recheckLock", "insert")
  BY <1>5 DEF ProbeLocks
<1>6. CASE CheckSchema(p)
  BY <1>6 DEF CheckSchema
<1>7. CASE CheckExisting(p)
  BY <1>7 DEF CheckExisting
<1>8. CASE BackupSource(p)
  BY <1>8 DEF BackupSource
<1>9. CASE BackupSourceCopy(p)
  BY <1>9 DEF BackupSourceCopy
<1>10. CASE BackupDb(p)
  BY <1>10 DEF BackupDb
<1>11. CASE BackupDbCopy(p)
  BY <1>11 DEF BackupDbCopy
<1>12. CASE RecheckSource(p)
  BY <1>12 DEF RecheckSource
<1>13. CASE Insert(p)
  BY <1>13 DEF Insert
<1>14. CASE Commit(p)
  BY <1>14 DEF Commit
<1>15. CASE VerifySource(p)
  BY <1>15 DEF VerifySource
<1>16. CASE VerifyRow(p)
  BY <1>16 DEF VerifyRow
<1>17. CASE RestoreSource(p)
  BY <1>17 DEF RestoreSource, FailRollback
<1>18. CASE CopySource(p)
  BY <1>18 DEF CopySource, FailRollback
<1>19. CASE CheckSource(p)
  BY <1>19 DEF CheckSource, FailRollback, SourceAsBackedUp, Source
<1>20. CASE RestoreDb(p)
  BY <1>20 DEF RestoreDb, FailRollback
<1>21. CASE CopyDb(p)
  BY <1>21 DEF CopyDb, FailRollback
<1>22. CASE CheckDb(p)
  BY <1>22 DEF CheckDb, FailRollback, IndexAsBackedUp
<1>23. CASE Crash(p)
  BY <1>23 DEF Crash
<1>24. QED
  BY <1>1, <1>2, <1>3, <1>4, <1>5, <1>6, <1>7, <1>8, <1>9, <1>10, <1>11, <1>12,
     <1>13, <1>14, <1>15, <1>16, <1>17, <1>18, <1>19, <1>20, <1>21, <1>22, <1>23
  DEF Step, Precondition, Backup, Recheck, Mutate, Rollback

\* The files seem to stand still, but for the insert and the undoing of it,
\* and for a rollback that breaks down.
Still == UNCHANGED <<SettledSource, SettledIndex>>

Installs(p) ==
    /\ UNCHANGED SettledSource
    /\ Phase(p) = "working" /\ Phase(p)' = "installed"
    /\ SettledIndex[Target[p]] = NoRow
    /\ SettledIndex' = [SettledIndex EXCEPT ![Target[p]] = RescueRow]

Undoes(p) ==
    /\ UNCHANGED SettledSource
    /\ Phase(p) = "installed" /\ Phase(p)' = "working"
    /\ SettledIndex[Target[p]] = RescueRow
    /\ SettledIndex' = [SettledIndex EXCEPT ![Target[p]] = NoRow]

LEMMA InstallEffect ==
  ASSUME NEW p \in Rescues, TypeOK, SettledAs(p), SettledAs(p)', PhaseTable(p), PhaseTable(p)',
         IndexAsBackedUp(p), Commit(p), pc'[p] = "verifySource"
  PROVE  Installs(p)
<1> USE DEF Commit, At, Goto, Continue, Begin
<1>1. /\ pc[p] = "commit" /\ db' = [db EXCEPT ![Target[p]] = RescueRow]
      /\ UNCHANGED <<rollout, backups>>
  BY DEF TypeOK
<1>2. Phase(p) = "working" /\ Phase(p)' = "installed"
  BY <1>1 DEF PhaseTable
<1>3. SettledSource' = SettledSource /\ SettledIndex = db /\ SettledIndex' = db'
  BY <1>1 DEF SettledAs
<1>4. db[Target[p]] = NoRow
  BY <1>1 DEF IndexAsBackedUp, Planned
<1>5. QED
  BY <1>1, <1>2, <1>3, <1>4 DEF Installs

LEMMA UndoEffect ==
  ASSUME NEW p \in Rescues, TypeOK, SettledAs(p), SettledAs(p)', PhaseTable(p), PhaseTable(p)',
         IndexAsBackedUp(p), RestoreDb(p), pc'[p] = "copyDb"
  PROVE  Undoes(p) \/ (Still /\ PhaseKept(p))
<1>1. pc[p] = "restoreDb" /\ UNCHANGED <<rollout, backupDb>>
  BY DEF RestoreDb, backups, At
<1>2. SettledSource' = SettledSource /\ SettledIndex = db /\ SettledIndex' = backupDb[p]
  BY <1>1 DEF SettledAs
<1>3. Phase(p)' = "working"
  BY DEF PhaseTable
<1>4. CASE cause[p] = "write"
  <2>1. Phase(p) = "working"
    BY <1>1, <1>4 DEF PhaseTable
  <2>2. QED
    BY <1>1, <1>2, <1>3, <1>4, <2>1 DEF IndexAsBackedUp, Planned, Still, PhaseKept
<1>5. CASE cause[p] # "write"
  <2>1. Phase(p) = "installed" /\ Installed(p)
    BY <1>1, <1>5 DEF PhaseTable, IndexAsBackedUp
  <2>2. Target[p] \in Threads /\ backupDb[p] \in [Threads -> Rows]
    BY DEF TypeOK
  <2>3. /\ db[Target[p]] = RescueRow
        /\ backupDb[p] = [db EXCEPT ![Target[p]] = NoRow]
    BY <2>1, <2>2 DEF Installed
  <2>4. QED
    BY <1>2, <1>3, <2>1, <2>3 DEF Undoes
<1>6. QED
  BY <1>4, <1>5

LEMMA NotAFileStep ==
  ASSUME NEW p \in Rescues, SettledAs(p), SettledAs(p)', UNCHANGED files,
         pc[p] \notin {"copySource", "copyDb"}, pc'[p] \notin {"copySource", "copyDb"}
  PROVE  Still
BY DEF SettledAs, files, Still

LEMMA FilesEffect ==
  ASSUME NEW p \in Rescues, TypeOK, SettledAs(p), SettledAs(p)', PhaseTable(p), PhaseTable(p)',
         InFlightHasNoResult(p), SourceAsBackedUp(p), IndexAsBackedUp(p),
         Start(p) \/ Step(p) \/ Crash(p)
  PROVE  Still \/ Installs(p) \/ Undoes(p) \/ Broke(p)
<1> USE DEF TypeOK, Resting, Restoring, At, Goto, Report, Continue, RaiseOnFault, Begin, world,
            files
<1>0. UNCHANGED files /\ pc[p] \notin {"copySource", "copyDb"}
          /\ pc'[p] \notin {"copySource", "copyDb"} => Still
  BY NotAFileStep
<1>1. CASE Start(p)
  BY <1>0, <1>1 DEF Start
<1>2. CASE ProbeProcess(p, "guardProcess", "guardLock")
  BY <1>0, <1>2 DEF ProbeProcess
<1>3. CASE ProbeLocks(p, "guardLock", "schema")
  BY <1>0, <1>3 DEF ProbeLocks
<1>4. CASE ProbeProcess(p, "recheckProcess", "recheckLock")
  BY <1>0, <1>4 DEF ProbeProcess
<1>5. CASE ProbeLocks(p, "recheckLock", "insert")
  BY <1>0, <1>5 DEF ProbeLocks
<1>6. CASE CheckSchema(p)
  BY <1>0, <1>6 DEF CheckSchema
<1>7. CASE CheckExisting(p)
  BY <1>0, <1>7 DEF CheckExisting
<1>8. CASE BackupSource(p)
  BY <1>0, <1>8 DEF BackupSource
<1>9. CASE BackupSourceCopy(p)
  BY <1>0, <1>9 DEF BackupSourceCopy
<1>10. CASE BackupDb(p)
  BY <1>0, <1>10 DEF BackupDb
<1>11. CASE BackupDbCopy(p)
  BY <1>0, <1>11 DEF BackupDbCopy
<1>12. CASE RecheckSource(p)
  BY <1>0, <1>12 DEF RecheckSource
<1>13. CASE Insert(p)
  BY <1>0, <1>13 DEF Insert
<1>14. CASE Commit(p)
  <2>1. CASE pc'[p] = "verifySource"
    BY <1>14, <2>1, InstallEffect
  <2>2. CASE UNCHANGED db /\ pc'[p] = "restoreSource"
    BY <1>0, <1>14, <2>2 DEF Commit
  <2>3. QED
    BY <1>14, <2>1, <2>2 DEF Commit
<1>15. CASE VerifySource(p)
  BY <1>0, <1>15 DEF VerifySource
<1>16. CASE VerifyRow(p)
  BY <1>0, <1>16 DEF VerifyRow
<1>17. CASE RestoreSource(p)
  <2>1. CASE FailRollback(p)
    BY <1>17, <2>1 DEF RestoreSource, FailRollback, PhaseTable, Broke, AtWork, InFlightHasNoResult
  <2>2. CASE rollout' = [rollout EXCEPT ![Target[p]] = {}] /\ pc'[p] = "copySource"
    <3>1. pc[p] = "restoreSource" /\ rollout[Target[p]] = backupSrc[p]
      BY <1>17 DEF RestoreSource, SourceAsBackedUp, Source
    <3>2. SettledSource = [t \in Threads |-> rollout[t]]
      BY <3>1 DEF SettledAs
    <3>3. SettledSource' = [t \in Threads |-> IF Target[p] = t THEN backupSrc[p] ELSE rollout[t]]
      BY <1>17, <2>2 DEF RestoreSource, SettledAs, backups
    <3>4. SettledIndex' = SettledIndex
      BY <1>17, <2>2, <3>1 DEF RestoreSource, SettledAs
    <3>5. QED
      BY <3>1, <3>2, <3>3, <3>4 DEF Still
  <2>3. QED
    BY <1>17, <2>1, <2>2 DEF RestoreSource
<1>18. CASE CopySource(p)
  <2>1. CASE FailRollback(p)
    BY <1>18, <2>1 DEF CopySource, FailRollback, PhaseTable, Broke, AtWork, InFlightHasNoResult
  <2>2. CASE ~FailRollback(p)
    <3>1. pc[p] = "copySource" /\ Source(p) = {} /\ pc'[p] = "checkSource"
      BY <1>18, <2>2 DEF CopySource, SourceAsBackedUp
    <3>2. rollout' = [rollout EXCEPT ![Target[p]] = backupSrc[p]]
      <4>1. PICK rest \in {{}} \cup (IF Source(p) = {} THEN {} ELSE {{Garbage}}) :
                rollout' = [rollout EXCEPT ![Target[p]] = backupSrc[p] \cup rest]
        BY <1>18, <2>2 DEF CopySource
      <4>2. rest = {}
        BY <3>1
      <4>3. QED
        BY <4>1, <4>2
    <3>3. SettledSource = [t \in Threads |-> IF Target[p] = t THEN backupSrc[p] ELSE rollout[t]]
      BY <3>1 DEF SettledAs
    <3>4. SettledSource' = [t \in Threads |-> rollout'[t]]
      BY <3>1 DEF SettledAs
    <3>5. SettledIndex' = SettledIndex
      BY <1>18, <3>1 DEF CopySource, SettledAs
    <3>6. QED
      BY <3>2, <3>3, <3>4, <3>5 DEF Still
  <2>3. QED
    BY <1>18, <2>1, <2>2 DEF CopySource
<1>19. CASE CheckSource(p)
  BY <1>0, <1>19 DEF CheckSource, FailRollback
<1>20. CASE RestoreDb(p)
  <2>1. CASE FailRollback(p)
    BY <1>20, <2>1 DEF RestoreDb, FailRollback, PhaseTable, Broke, AtWork, InFlightHasNoResult
  <2>2. CASE pc'[p] = "copyDb"
    BY <1>20, <2>2, UndoEffect
  <2>3. QED
    BY <1>20, <2>1, <2>2 DEF RestoreDb
<1>21. CASE CopyDb(p)
  <2>1. CASE FailRollback(p)
    BY <1>21, <2>1 DEF CopyDb, FailRollback, PhaseTable, Broke, AtWork, InFlightHasNoResult
  <2>2. CASE db' = backupDb[p] /\ pc'[p] = "checkDb"
    BY <1>21, <2>2 DEF CopyDb, SettledAs, Still
  <2>3. QED
    BY <1>21, <2>1, <2>2 DEF CopyDb
<1>22. CASE CheckDb(p)
  BY <1>0, <1>22 DEF CheckDb, FailRollback
<1>23. CASE Crash(p)
  <2>1. CASE pc[p] \in Restoring
    BY <1>23, <2>1 DEF Crash, PhaseTable, Broke, AtWork, InFlightHasNoResult
  <2>2. CASE pc[p] \notin Restoring
    BY <1>0, <1>23, <2>2 DEF Crash
  <2>3. QED
    BY <2>1, <2>2
<1>24. QED
  BY <1>1, <1>2, <1>3, <1>4, <1>5, <1>6, <1>7, <1>8, <1>9, <1>10, <1>11, <1>12,
     <1>13, <1>14, <1>15, <1>16, <1>17, <1>18, <1>19, <1>20, <1>21, <1>22, <1>23
  DEF Step, Precondition, Backup, Recheck, Mutate, Rollback

\* A repair that starts while another is at work is refused at once, and shows
\* nothing of the files.
LEMMA StartBesideAnother ==
  ASSUME TypeOK, OneAtATime, NEW p \in Rescues, Start(p) \/ Step(p) \/ Crash(p), ~Alone(p)
  PROVE  Start(p) /\ Still
<1>1. PICK q \in Rescues \ {p} : pc[q] \in {"copySource", "copyDb"}
  BY DEF Alone
<1>2. pc[p] \in Resting /\ \A r \in Rescues \ {q} : pc[r] \in Resting
  BY <1>1 DEF OneAtATime, Resting
<1>3. Start(p)
  BY <1>2, RestingOnlyStarts
<1>4. Alone(q)
  BY <1>2 DEF Alone, Resting
<1>5. Alone(q)'
  <2>1. pc'[p] \in {"guardProcess", "done"}
    BY <1>3 DEF Start, Goto, Report, TypeOK
  <2>2. \A r \in Rescues \ {p} : pc'[r] = pc[r]
    BY StepFrame DEF Frame
  <2>3. QED
    BY <1>2, <2>1, <2>2 DEF Alone, Resting
<1>6. UNCHANGED <<rollout, db, backupSrc, backupDb, pc[q]>>
  BY <1>3, StepFrame DEF Start, world, files, backups, Frame
<1>7. SettledAs(q) /\ SettledAs(q)'
  BY <1>4, <1>5, SettledByTheOne
<1>8. QED
  BY <1>3, <1>6, <1>7 DEF SettledAs, Still

\* What the repair's own step shows from outside is a step of AtomicRepair.
LEMMA OwnStepRefines ==
  ASSUME TypeOK, TypeOK', OneAtATime, AloneInv, AloneInv',
         NEW p \in Rescues, Start(p) \/ Step(p) \/ Crash(p)
  PROVE  [Atomic!Next]_(Atomic!vars)
<1>1. /\ InFlightHasNoResult(p) /\ InFlightHasNoResult(p)'
      /\ SourceAsBackedUp(p) /\ IndexAsBackedUp(p)
  BY DEF AloneInv, AsBackedUp
<1>2. PhaseTable(p) /\ PhaseTable(p)'
  BY <1>1, PhaseIsTabled
<1>3. /\ RepairPhases[p] = Phase(p)
      /\ RepairPhases' = [RepairPhases EXCEPT ![p] = Phase(p)']
  <2>1. \A q \in Rescues \ {p} : Phase(q)' = Phase(q)
    BY StepFrame, CauseFrame DEF Frame, Phase, Abandoned, HasInstalled
  <2>2. QED
    BY <2>1 DEF RepairPhases
<1>4. Phase(p) \in Atomic!Phases
  BY DEF Phase, Atomic!Phases
<1>5. CASE Still /\ PhaseKept(p)
  <2>1. CASE Phase(p)' = Phase(p)
    BY <1>3, <1>5, <2>1 DEF Still, Atomic!vars, RepairPhases
  <2>2. CASE Phase(p) \notin AtWork /\ Phase(p)' \in {"idle", "working", "unchanged", "dead"}
    <3>1. Atomic!Start(p)
      BY <1>3, <1>4, <1>5, <2>2 DEF Still, AtWork, Atomic!Start, Atomic!Move, Atomic!AtWork
    <3>2. QED
      BY <3>1 DEF Atomic!Next
  <2>3. CASE Phase(p) = "working" /\ Phase(p)' = "unchanged"
    BY <1>3, <1>5, <2>3 DEF Still, Atomic!Refuse, Atomic!Move, Atomic!Next
  <2>4. CASE Phase(p) = "installed" /\ Phase(p)' = "repaired"
    BY <1>3, <1>5, <2>4 DEF Still, Atomic!Keep, Atomic!Move, Atomic!Next
  <2>5. CASE Phase(p) \in AtWork /\ Phase(p)' = "dead"
    BY <1>3, <1>5, <2>5 DEF Still, AtWork, Atomic!Die, Atomic!Move, Atomic!AtWork, Atomic!Next
  <2>6. QED
    BY <1>5, <2>1, <2>2, <2>3, <2>4, <2>5 DEF PhaseKept
<1>6. CASE Installs(p)
  BY <1>3, <1>6 DEF Installs, Atomic!Install, Atomic!Move, Atomic!Next
<1>7. CASE Undoes(p)
  BY <1>3, <1>7 DEF Undoes, Atomic!Undo, Atomic!Move, Atomic!Next
<1>8. CASE Broke(p) /\ SettledAs(p)'
  <2>1. SettledSource' \in [Threads -> SUBSET Records]
    BY <1>8 DEF SettledAs, TypeOK
  <2>2. SettledIndex' \in [Threads -> Rows]
    BY <1>8 DEF SettledAs, TypeOK
  <2>3. Atomic!Break(p)
    BY <1>3, <1>8, <2>1, <2>2 DEF Broke, AtWork, Atomic!Break, Atomic!Move, Atomic!AtWork
  <2>4. QED
    BY <2>3 DEF Atomic!Next
<1>9. CASE Alone(p)
  <2>1. Alone(p)'
    BY <1>9, StepFrame DEF Alone, Frame
  <2>2. SettledAs(p) /\ SettledAs(p)'
    BY <1>9, <2>1, SettledByTheOne
  <2>3. QED
    BY <1>1, <1>2, <1>5, <1>6, <1>7, <1>8, <2>2, PhaseEffect, FilesEffect, InstallEffect,
       UndoEffect
<1>10. CASE ~Alone(p)
  <2>1. Start(p) /\ Still
    BY <1>10, StartBesideAnother
  <2>2. ~Broke(p) /\ ~Commit(p) /\ ~RestoreDb(p)
    BY <1>2, <2>1 DEF Start, PhaseTable, Broke, Commit, RestoreDb, At, Resting
  <2>3. PhaseKept(p)
    BY <1>1, <1>2, <2>1, <2>2, PhaseEffect
  <2>4. QED
    BY <1>5, <2>1, <2>3
<1>11. QED
  BY <1>9, <1>10

\* What Codex does is a write between repairs, or shows nothing.
LEMMA CodexRefines ==
  ASSUME TypeOK, TypeOK', AloneInv, CodexStep PROVE [Atomic!Next]_(Atomic!vars)
<1>1. UNCHANGED <<pc, backupSrc, backupDb, cause, result>>
  BY DEF CodexStep, backups
<1>2. UNCHANGED RepairPhases
  BY <1>1 DEF RepairPhases, Phase, Abandoned, HasInstalled
<1>3. CASE UNCHANGED files
  BY <1>1, <1>2, <1>3 DEF files, SettledSource, SettledIndex, Atomic!vars
<1>4. CASE ~UNCHANGED files
  <2>1. codexUp
    BY <1>4 DEF AloneInv, CodexStep, CodexStart, CodexStop, CodexBegin, CodexAppend, CodexCommit,
       files
  <2>2. \A p \in Rescues : ~PastGuard(p)
    BY <2>1 DEF AloneInv, Closed
  <2>3. \A p \in Rescues : pc[p] \notin {"copySource", "copyDb"}
    BY <2>2 DEF PastGuard, Resting
  <2>4. \A p \in Rescues : Phase(p) \notin AtWork
    <3>1. \A p \in Rescues : PhaseTable(p)
      BY PhaseIsTabled DEF AloneInv
    <3>2. QED
      BY <2>2, <3>1 DEF PhaseTable, PastGuard, AtWork
  <2>5. Atomic!Idle
    BY <2>4 DEF Atomic!Idle, Atomic!AtWork, AtWork, RepairPhases
  <2>6. SettledSource = rollout /\ SettledSource' = rollout'
    BY <1>1, <2>3 DEF SettledSource, TypeOK
  <2>7. SettledIndex = db /\ SettledIndex' = db'
    BY <1>1, <2>3 DEF SettledIndex
  <2>8. ASSUME NEW t \in Threads, CodexAppend(t) PROVE Atomic!Write(t)
    <3>1. /\ rollout' = [rollout EXCEPT ![t] = rollout'[t]] /\ rollout[t] \subseteq rollout'[t]
          /\ rollout'[t] \in SUBSET Records /\ UNCHANGED db
      BY <2>8 DEF CodexAppend, TypeOK
    <3>2. QED
      BY <1>2, <2>6, <2>7, <3>1 DEF Atomic!Write
  <2>9. ASSUME NEW t \in Threads, CodexCommit(t) PROVE Atomic!Write(t)
    <3>1. PICK row \in {NoRow, commits + 1} : db' = [db EXCEPT ![t] = row]
      BY <1>4, <2>9 DEF CodexCommit, files
    <3>2. UNCHANGED rollout /\ row \in Rows \ {RescueRow}
      BY <2>9, <3>1 DEF CodexCommit, TypeOK, Rows, NoRow, RescueRow, Lost
    <3>3. QED
      BY <1>2, <2>6, <2>7, <3>1, <3>2 DEF Atomic!Write
  <2>10. \E t \in Threads : CodexAppend(t) \/ CodexCommit(t)
    BY <1>4 DEF CodexStep, CodexStart, CodexStop, CodexBegin, files
  <2>11. QED
    BY <2>5, <2>8, <2>9, <2>10 DEF Atomic!Next
<1>5. QED
  BY <1>3, <1>4

\* The repair, with its two copies, two truncations and many exits, implements
\* the atomic repair of AtomicRepair: its row appears and disappears in one
\* step and nothing else moves, unless the rollback itself breaks down.
THEOREM RepairIsAtomic ==
  ASSUME WriterExcluded PROVE ExclusiveSpec => ImplementsAtomicRepair
<1>1. Init => Atomic!Init
  <2> SUFFICES ASSUME Init PROVE Atomic!Init
    OBVIOUS
  <2>1. \A p \in Rescues : pc[p] = "idle"
    BY DEF Init
  <2>2. SettledSource = rollout /\ SettledIndex = db
    BY <2>1 DEF Init, SettledSource, SettledIndex
  <2>3. rollout \in [Threads -> SUBSET Records]
    BY DEF Init, Records
  <2>4. RepairPhases = [p \in Rescues |-> "idle"]
    BY <2>1 DEF RepairPhases, Phase
  <2>5. QED
    BY <2>2, <2>3, <2>4 DEF Init, Atomic!Init
<1>2. /\ TypeOK /\ TypeOK' /\ OneAtATime /\ AloneInv /\ AloneInv'
      /\ [Next /\ OneAtATime']_vars
      => [Atomic!Next]_(Atomic!vars)
  <2>1. ASSUME TypeOK, UNCHANGED vars PROVE UNCHANGED Atomic!vars
    BY <2>1 DEF vars, world, files, backups, Atomic!vars, SettledSource, SettledIndex,
       RepairPhases, Phase, Abandoned, HasInstalled
  <2>2. QED
    BY <2>1, OwnStepRefines, CodexRefines DEF Next
<1>3. QED
  BY <1>1, <1>2, ExclusiveTypes, FilesFollowTheBackups, PTL
  DEF ExclusiveSpec, ImplementsAtomicRepair, Atomic!Spec
=============================================================================
