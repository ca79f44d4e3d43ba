----------------------------- MODULE PlanApply -----------------------------
(***************************************************************************)
(* Recovery plans: generate_recovery_plan of plan.py, which decides on one *)
(* scan of a session, and apply_recovery_plan of apply_plan.py, which acts *)
(* on the plan file any time later, both reading the session through       *)
(* collect_session_evidence of evidence.py, beside the Codex that owns it. *)
(*                                                                         *)
(* A rollout is a sequence of lines; two have the same SHA-256 exactly     *)
(* when they are equal.  The state database is the session's row.  Either  *)
(* command may fail, or be killed, at any step: nothing it did is undone.  *)
(***************************************************************************)
EXTENDS Naturals, Sequences

CONSTANTS
    MaxLines,    \* bound: lines Codex ever writes to the session
    MaxApplies   \* bound: plans the user applies

ASSUME PlanApplyAssumption == MaxLines \in Nat /\ MaxApplies \in Nat

\* ok; not JSON; over the size limit; not ended by a newline yet
Kinds == {"ok", "bad", "big", "torn"}
Lines == [id : 1..MaxLines, kind : Kinds]
Rollouts == UNION {[1..n -> Lines] : n \in 0..MaxLines}
Ops == {"none", "reindex", "fork"}

VARIABLES
    codexUp,     \* Codex has the session open
    lockFile,    \* its lock file, naming its pid, is on disk
    rollout,     \* the lines of the session's rollout
    written,     \* how many Codex has ever begun
    database,    \* what state.db is: fixed for a behaviour
    row,         \* the session's row in the threads table

    pc,          \* the next step of the command the user runs
    applies,     \* plans applied
    evidence,    \* what collect_session_evidence has read
    plan,        \* the recovery plan on disk
    currentSha,  \* current_sha: the rollout the apply hashed first
    backup,      \* source_backup
    copied,      \* how many of its lines a restore has written
    result,      \* how the last command ended
    cut          \* history: the last apply cut the rollout, and did not write it back
                 \* to the end

restore == <<copied, cut>>
codex == <<codexUp, lockFile, rollout, written, row>>
vars  == <<codex, database, pc, applies, evidence, plan, currentSha, backup, restore, result>>

NoEvidence == [lines |-> <<>>, failed |-> FALSE, locked |-> FALSE, indexed |-> FALSE]
NoPlan == [hashed |-> FALSE, sha |-> <<>>, applicable |-> FALSE, op |-> "none"]

TypeOK ==
    /\ codexUp \in BOOLEAN /\ lockFile \in BOOLEAN
    /\ rollout \in Rollouts /\ currentSha \in Rollouts /\ backup \in Rollouts
    /\ written \in 0..MaxLines
    /\ database \in {"absent", "foreign", "threads"}
    /\ row \in {"none", "codex", "rescue"}
    /\ pc \in {"idle", "planScan", "planInspect", "planHash", "hash", "applyScan",
               "applyInspect", "guard", "backup", "mutate", "postHash", "restore", "copy"}
    /\ applies \in 0..MaxApplies
    /\ evidence \in [lines : Rollouts, failed : BOOLEAN, locked : BOOLEAN,
                     indexed : BOOLEAN]
    /\ plan \in [hashed : BOOLEAN, sha : Rollouts, applicable : BOOLEAN, op : Ops]
    /\ copied \in 0..MaxLines /\ cut \in BOOLEAN
    /\ result \in {"none", "PLANNED", "REFUSED", "DRY_RUN", "APPLIED", "RESTORED", "RAISED"}

Init ==
    /\ codexUp = FALSE /\ lockFile = FALSE
    /\ rollout = <<>> /\ written = 0
    /\ database \in {"absent", "foreign", "threads"} /\ row = "none"
    /\ pc = "idle" /\ applies = 0
    /\ evidence = NoEvidence
    /\ plan = NoPlan /\ currentSha = <<>> /\ backup = <<>>
    /\ copied = 0 /\ cut = FALSE
    /\ result = "none"

Goto(step)  == pc' = step /\ UNCHANGED result
End(status) == pc' = "idle" /\ result' = status

\* An exception, or the end of the process.  A backup that was not finished is one
\* that no later step reads, and a plan that was not written is none.
Fail ==
    /\ pc # "idle"
    /\ End("RAISED")
    /\ UNCHANGED <<codex, database, applies, evidence, plan, currentSha, backup, restore>>

-----------------------------------------------------------------------------
(* collect_session_evidence: the rollout is scanned, then the lock file and *)
(* the database are read.  A scan may fail or stop at its limit of lines; a *)
(* lock file that cannot be read, or names no pid, counts as no writer, and *)
(* a database that cannot be read as one without the session.               *)

Scan(here, next) ==
    /\ pc = here
    /\ \/ evidence' = [evidence EXCEPT !.lines = rollout, !.failed = FALSE]
       \/ evidence' = [evidence EXCEPT !.lines = <<>>, !.failed = TRUE]
    /\ Goto(next)
    /\ UNCHANGED <<codex, database, applies, plan, currentSha, backup, restore>>

Inspect(here, next) ==
    /\ pc = here
    /\ \E named, readable \in BOOLEAN :
          evidence' = [evidence EXCEPT !.locked = named /\ lockFile /\ codexUp,
                                       !.indexed = readable /\ row # "none"]
    /\ Goto(next)
    /\ UNCHANGED <<codex, database, applies, plan, currentSha, backup, restore>>

Complete == ~evidence.failed /\ \A i \in 1..Len(evidence.lines) : evidence.lines[i].kind # "big"
Found(kind) == \E i \in 1..Len(evidence.lines) : evidence.lines[i].kind = kind

SafeUnscanned == ~evidence.locked          \* mutant: only the lock is asked for
Safe == Complete /\ ~evidence.locked

-----------------------------------------------------------------------------
(* generate_recovery_plan.                                                 *)

StartPlan ==
    /\ pc = "idle"
    /\ pc' = "planScan" /\ result' = "none"
    /\ evidence' = NoEvidence
    /\ UNCHANGED <<codex, database, applies, plan, currentSha, backup, restore>>

\* What the evidence allows.  It holds no projection cursor, so the branch
\* that realigns one is never taken.
Propose ==
    LET damaged   == Found("bad") \/ Found("torn")
        unindexed == database # "absent" /\ ~evidence.indexed
    IN  CASE ~Safe -> "refuse"
          [] Safe /\ unindexed -> IF damaged THEN "refuse" ELSE "reindex"
          [] Safe /\ ~unindexed -> IF damaged THEN "fork" ELSE "refuse"

\* The plan names the hash of a rollout that is read again after the scan, or
\* none when that read fails.
PlanHash ==
    /\ pc = "planHash"
    /\ \E hashed \in BOOLEAN :
          plan' = [hashed |-> hashed, sha |-> IF hashed THEN rollout ELSE <<>>,
                   applicable |-> Propose # "refuse",
                   op |-> IF Propose = "refuse" THEN "none" ELSE Propose]
    /\ End("PLANNED")
    /\ UNCHANGED <<codex, database, applies, evidence, currentSha, backup, restore>>

\* A plan is a JSON file: the user may declare a refused one applicable.
EditPlan ==
    /\ pc = "idle" /\ result = "PLANNED"
    /\ plan' = [plan EXCEPT !.applicable = TRUE]
    /\ UNCHANGED <<codex, database, pc, applies, evidence, currentSha, backup, restore, result>>

-----------------------------------------------------------------------------
(* apply_recovery_plan.                                                    *)

StartApply ==
    /\ pc = "idle" /\ applies < MaxApplies
    /\ applies' = applies + 1
    /\ currentSha' = <<>> /\ evidence' = NoEvidence
    /\ copied' = 0 /\ cut' = FALSE
    /\ IF plan.applicable THEN pc' = "hash" /\ result' = "none" ELSE End("REFUSED")
    /\ UNCHANGED <<codex, database, plan, backup>>

Hash ==
    /\ pc = "hash"
    /\ IF plan.hashed => rollout = plan.sha
       THEN currentSha' = rollout /\ Goto("applyScan")
       ELSE End("REFUSED") /\ UNCHANGED currentSha
    /\ UNCHANGED <<codex, database, applies, evidence, plan, backup, restore>>

\* A dry run ends here.
Guard ==
    /\ pc = "guard"
    /\ IF Safe THEN Goto("backup") \/ End("DRY_RUN") ELSE End("REFUSED")
    /\ UNCHANGED <<codex, database, applies, evidence, plan, currentSha, backup, restore>>

BackupStale == backup' = IF backup = <<>> THEN rollout ELSE backup  \* mutant: made once
BackupSource == backup' = rollout

Backup ==
    /\ pc = "backup"
    /\ BackupSource
    /\ Goto("mutate")
    /\ UNCHANGED <<codex, database, applies, evidence, plan, currentSha, restore>>

\* INSERT OR REPLACE, the only operation that writes.
Mutate ==
    /\ pc = "mutate"
    /\ row' = IF plan.op = "reindex" /\ database = "threads" THEN "rescue" ELSE row
    /\ Goto("postHash")
    /\ UNCHANGED <<codexUp, lockFile, rollout, written, database, applies, evidence, plan,
                   currentSha, backup, restore>>

UnmodifiedUnchecked == TRUE              \* mutant: the rollout is not hashed again
Unmodified == rollout = currentSha

PostHash ==
    /\ pc = "postHash"
    /\ IF Unmodified THEN End("APPLIED") ELSE Goto("restore")
    /\ UNCHANGED <<codex, database, applies, evidence, plan, currentSha, backup, restore>>

\* shutil.copy2 truncates the rollout when it opens it.  The row stays.
Truncate ==
    /\ pc = "restore"
    /\ rollout' = <<>> /\ copied' = 0 /\ cut' = TRUE
    /\ Goto("copy")
    /\ UNCHANGED <<codexUp, lockFile, written, row, database, applies, evidence, plan,
                   currentSha, backup>>

\* The backup is written from the start of the file, over what Codex has appended to it
\* since; what sticks out behind stays.
CopyLine ==
    rollout' = [i \in 1..Len(rollout) \cup {copied + 1} |->
                   IF i = copied + 1 THEN backup[i] ELSE rollout[i]]

EndRestoreUnlisted == End("ROLLED_BACK")  \* mutant: the other engine's status
EndRestore == End("RESTORED")

CopyBack ==
    /\ pc = "copy"
    /\ \/ /\ copied < Len(backup)
          /\ CopyLine
          /\ copied' = copied + 1
          /\ Goto("copy") /\ UNCHANGED cut
       \/ /\ copied = Len(backup)
          /\ copied' = 0 /\ cut' = FALSE
          /\ EndRestore /\ UNCHANGED rollout
    /\ UNCHANGED <<codexUp, lockFile, written, row, database, applies, evidence, plan,
                   currentSha, backup>>

-----------------------------------------------------------------------------
(* Codex, from what the evidence reads of it.                              *)

CodexOpen ==
    /\ ~codexUp
    /\ codexUp' = TRUE /\ lockFile' = TRUE
    /\ UNCHANGED <<rollout, written, row>>

\* A Codex that crashes leaves its lock file, and perhaps half a line.
CodexEnd ==
    /\ codexUp
    /\ codexUp' = FALSE
    /\ lockFile' \in BOOLEAN
    /\ UNCHANGED <<rollout, written, row>>

\* Codex appends a line, or the first half of one; or, to a file that was cut under
\* it, the second half of one.
CodexBeginLine ==
    /\ codexUp /\ written < MaxLines
    /\ rollout # <<>> => rollout[Len(rollout)].kind # "torn"
    /\ written' = written + 1
    /\ \E kind \in {"ok", "big", "torn"} \cup (IF cut THEN {"bad"} ELSE {}) :
          rollout' = Append(rollout, [id |-> written + 1, kind |-> kind])
    /\ UNCHANGED <<codexUp, lockFile, row>>

\* The half line is completed, or a later Codex writes its own behind it.
CodexEndLine ==
    /\ codexUp /\ rollout # <<>> /\ rollout[Len(rollout)].kind = "torn"
    /\ \E kind \in {"ok", "bad"} : rollout' = [rollout EXCEPT ![Len(rollout)].kind = kind]
    /\ UNCHANGED <<codexUp, lockFile, written, row>>

CodexIndex ==
    /\ codexUp /\ database = "threads"
    /\ row' \in {"none", "codex"}
    /\ UNCHANGED <<codexUp, lockFile, rollout, written>>

CodexStep ==
    /\ CodexOpen \/ CodexEnd \/ CodexBeginLine \/ CodexEndLine \/ CodexIndex
    /\ UNCHANGED <<database, pc, applies, evidence, plan, currentSha, backup, restore,
                   result>>

PlanStep ==
    \/ StartPlan \/ EditPlan
    \/ Scan("planScan", "planInspect") \/ Inspect("planInspect", "planHash")
    \/ PlanHash

ApplyStep ==
    \/ StartApply \/ Hash
    \/ Scan("applyScan", "applyInspect") \/ Inspect("applyInspect", "guard")
    \/ Guard \/ Backup \/ Mutate \/ PostHash \/ Truncate \/ CopyBack

Next == PlanStep \/ ApplyStep \/ Fail \/ CodexStep

Spec == Init /\ [][Next]_vars

-----------------------------------------------------------------------------
(* Properties.                                                             *)

\* The later rollout holds every line of the earlier, in its place.
Keeps(earlier, later) ==
    /\ Len(earlier) <= Len(later)
    /\ \A i \in 1..Len(earlier) : earlier[i].id = later[i].id

\* A plan reported as applied was applied to the source it was made for: what
\* was planned, scanned and backed up is one and the same, whatever Codex wrote
\* between the reads, or the apply would have noticed.
AppliedAsPlanned ==
    result = "APPLIED" =>
        /\ evidence.lines = currentSha /\ backup = currentSha
        /\ plan.hashed => currentSha = plan.sha

\* Nothing is written before a complete scan that found no lock known to be live, and
\* a backup that holds every line of the source the plan was checked against; not even
\* for a plan edited by hand.
MutatesUnderGuard ==
    pc \in {"mutate", "postHash", "restore", "copy"} =>
        Complete /\ ~evidence.locked /\ Keeps(currentSha, backup)

\* The apply loses no line of the source it checked, whatever Codex appends before,
\* during and after a restore, and wherever the apply fails; but for the restore
\* itself, which cuts the rollout before it copies the backup: one that is under way,
\* or was broken off, has lost the lines it had not come to.
CheckedSourceKept ==
    \A i \in 1..Len(currentSha) :
        ~cut \/ i <= copied => i <= Len(rollout) /\ rollout[i].id = currentSha[i].id

\* Contract 3.2: INSERT OR REPLACE INTO threads is prohibited.  An apply never
\* takes the place of a row Codex has written.
ApplyNeverReplaces == [][pc = "mutate" /\ row' # row => row = "none"]_vars
=============================================================================
