-------------------------- MODULE PlanApplyProofs --------------------------
(***************************************************************************)
(* What holds of PlanApply however much Codex writes and however many      *)
(* plans are applied.  The argument is a sandwich: every read of the       *)
(* session an apply makes lies, in the order in which a rollout grows,     *)
(* between the source it hashed first and the rollout as it is now; so     *)
(* when the last hash equals the first, all of them do.  A restore leaves  *)
(* that order: until its copy has come to the end of the backup, only the  *)
(* lines it has written are known to be there.                             *)
(***************************************************************************)
EXTENDS PlanApply, TLAPS

\* Codex appends lines, and completes a torn one.
Grows(earlier, later) ==
    /\ Len(earlier) <= Len(later)
    /\ \A i \in 1..Len(earlier) :
          /\ earlier[i].id = later[i].id
          /\ earlier[i].kind \in {later[i].kind, "torn"}

Fits == Len(rollout) <= written /\ Len(backup) <= written

Applying == {"applyScan", "applyInspect", "guard", "backup", "mutate", "postHash", "restore",
             "copy"}
Scanned  == {"applyInspect", "guard", "backup", "mutate", "postHash"}

Sandwich ==
    /\ ~cut => Grows(currentSha, rollout)
    /\ pc \in Scanned /\ ~evidence.failed =>
          Grows(currentSha, evidence.lines) /\ Grows(evidence.lines, rollout)
    /\ pc \in {"mutate", "postHash", "restore"} \/ cut => Grows(currentSha, backup)
    /\ pc \in {"mutate", "postHash"} => Grows(backup, rollout)

\* Of a cut rollout, the lines the restore has written.
Restored ==
    /\ cut =>
          /\ copied <= Len(backup) /\ copied <= Len(rollout)
          /\ \A i \in 1..copied :
                /\ backup[i].id = rollout[i].id
                /\ backup[i].kind \in {rollout[i].kind, "torn"}
    /\ pc = "copy" => cut
    /\ pc \in (Applying \cup {"hash"}) \ {"copy"} => ~cut

Guarded ==
    /\ pc \in {"backup", "mutate", "postHash", "restore", "copy"} => Complete /\ ~evidence.locked
    /\ pc \in Applying => (plan.hashed => currentSha = plan.sha)
    /\ pc # "idle" => result = "none"

IInv == TypeOK /\ Fits /\ Sandwich /\ Restored /\ Guarded /\ AppliedAsPlanned

-----------------------------------------------------------------------------
(* The order in which a rollout grows.                                     *)

LEMMA RolloutIsSeq == \A r \in Rollouts : r \in Seq(Lines) /\ Len(r) \in 0..MaxLines
BY PlanApplyAssumption DEF Rollouts, PlanApplyAssumption

LEMMA SeqIsRollout == \A r \in Seq(Lines) : Len(r) <= MaxLines => r \in Rollouts
<1>. SUFFICES ASSUME NEW r \in Seq(Lines), Len(r) <= MaxLines PROVE r \in Rollouts
  OBVIOUS
<1>1. Len(r) \in 0..MaxLines /\ r \in [1..Len(r) -> Lines]
  BY PlanApplyAssumption DEF PlanApplyAssumption
<1>. QED
  BY <1>1 DEF Rollouts

LEMMA EmptyRollout == <<>> \in Rollouts /\ <<>> \in Seq(Lines) /\ Len(<<>>) = 0
<1>1. <<>> \in Seq(Lines) /\ Len(<<>>) = 0
  OBVIOUS
<1>2. Len(<<>>) <= MaxLines
  BY <1>1, PlanApplyAssumption DEF PlanApplyAssumption
<1>. QED
  BY <1>1, <1>2, SeqIsRollout

LEMMA GrowsReflexive == ASSUME NEW a \in Seq(Lines) PROVE Grows(a, a)
BY DEF Grows

LEMMA GrowsTransitive ==
    ASSUME NEW a \in Seq(Lines), NEW b \in Seq(Lines), NEW c \in Seq(Lines),
           Grows(a, b), Grows(b, c)
    PROVE  Grows(a, c)
BY DEF Grows

LEMMA GrowsAntisymmetric ==
    ASSUME NEW a \in Seq(Lines), NEW b \in Seq(Lines), Grows(a, b), Grows(b, a)
    PROVE  a = b
<1>1. Len(a) = Len(b)
  BY DEF Grows
<1>2. \A i \in 1..Len(a) : a[i] = b[i]
  <2>. SUFFICES ASSUME NEW i \in 1..Len(a) PROVE a[i] = b[i]
    OBVIOUS
  <2>1. a[i] \in Lines /\ b[i] \in Lines
    BY <1>1
  <2>2. a[i].id = b[i].id /\ a[i].kind = b[i].kind
    BY <1>1 DEF Grows
  <2>. QED
    BY <2>1, <2>2 DEF Lines
<1>. QED
  BY <1>1, <1>2

LEMMA GrowsKeeps == \A a, b : Grows(a, b) => Keeps(a, b)
BY DEF Grows, Keeps

LEMMA RolloutTypes ==
    ASSUME TypeOK
    PROVE  /\ rollout \in Seq(Lines) /\ currentSha \in Seq(Lines) /\ backup \in Seq(Lines)
           /\ evidence.lines \in Seq(Lines)
BY RolloutIsSeq DEF TypeOK

\* A step of Codex only makes the rollout grow.
LEMMA CodexGrows ==
    ASSUME TypeOK, Fits, CodexStep
    PROVE  rollout' \in Rollouts /\ Grows(rollout, rollout') /\ Len(rollout') <= written'
           /\ written' \in 0..MaxLines /\ written <= written'
<1>1. rollout \in Seq(Lines) /\ written \in 0..MaxLines /\ MaxLines \in Nat
  BY RolloutTypes, PlanApplyAssumption DEF TypeOK, PlanApplyAssumption
<1>2. CASE UNCHANGED <<rollout, written>>
  BY <1>1, <1>2, GrowsReflexive DEF TypeOK, Fits
<1>3. CASE CodexBeginLine
  <2>1. PICK kind \in {"ok", "big", "torn", "bad"} :
           rollout' = Append(rollout, [id |-> written + 1, kind |-> kind])
    BY <1>3 DEF CodexBeginLine
  <2>2. written' = written + 1 /\ written < MaxLines
    BY <1>3 DEF CodexBeginLine
  <2>3. [id |-> written + 1, kind |-> kind] \in Lines
    BY <1>1, <2>2 DEF Lines, Kinds
  <2>4. rollout' \in Seq(Lines) /\ Len(rollout') = Len(rollout) + 1
    BY <1>1, <2>1, <2>3
  <2>5. \A i \in 1..Len(rollout) : rollout'[i] = rollout[i]
    BY <1>1, <2>1, <2>3
  <2>6. Len(rollout') <= written' /\ Len(rollout') <= MaxLines
    BY <1>1, <2>2, <2>4 DEF Fits
  <2>7. Grows(rollout, rollout')
    BY <1>1, <2>4, <2>5 DEF Grows
  <2>. QED
    BY <1>1, <2>2, <2>4, <2>6, <2>7, SeqIsRollout
<1>4. CASE CodexEndLine
  <2>1. PICK kind \in {"ok", "bad"} :
           rollout' = [rollout EXCEPT ![Len(rollout)].kind = kind]
    BY <1>4 DEF CodexEndLine
  <2>2. rollout # <<>> /\ rollout[Len(rollout)].kind = "torn" /\ written' = written
    BY <1>4 DEF CodexEndLine
  <2>3. Len(rollout) \in 1..Len(rollout) /\ rollout[Len(rollout)] \in Lines
    BY <1>1, <2>2
  <2>4. [rollout[Len(rollout)] EXCEPT !.kind = kind] \in Lines
    BY <2>3 DEF Lines, Kinds
  <2>5. rollout' \in Seq(Lines) /\ Len(rollout') = Len(rollout)
    BY <1>1, <2>1, <2>3, <2>4
  <2>6. \A i \in 1..Len(rollout) :
           rollout'[i].id = rollout[i].id /\ rollout[i].kind \in {rollout'[i].kind, "torn"}
    BY <1>1, <2>1, <2>2, <2>3 DEF Lines
  <2>7. Grows(rollout, rollout')
    BY <2>5, <2>6 DEF Grows
  <2>. QED
    BY <1>1, <2>2, <2>5, <2>7, SeqIsRollout DEF Fits
<1>. QED
  BY <1>2, <1>3, <1>4 DEF CodexStep, CodexOpen, CodexEnd, CodexIndex

-----------------------------------------------------------------------------
(* Every step keeps the invariant.                                         *)

LEMMA InitIInv == Init => IInv
<1>. SUFFICES ASSUME Init PROVE IInv
  OBVIOUS
<1>1. <<>> \in Rollouts /\ <<>> \in Seq(Lines)
  BY EmptyRollout
<1>2. TypeOK
  <2>1. written \in 0..MaxLines /\ applies \in 0..MaxApplies /\ copied \in 0..MaxLines
    BY PlanApplyAssumption DEF Init, PlanApplyAssumption
  <2>2. evidence \in [lines : Rollouts, failed : BOOLEAN, locked : BOOLEAN, indexed : BOOLEAN]
    BY <1>1 DEF Init, NoEvidence
  <2>3. plan \in [hashed : BOOLEAN, sha : Rollouts, applicable : BOOLEAN, op : Ops]
    BY <1>1 DEF Init, NoPlan, Ops
  <2>. QED
    BY <1>1, <2>1, <2>2, <2>3 DEF Init, TypeOK
<1>3. Fits
  BY DEF Init, Fits
<1>4. Sandwich
  BY <1>1, GrowsReflexive DEF Init, Sandwich, Scanned
<1>5. Restored /\ Guarded /\ AppliedAsPlanned
  BY DEF Init, Restored, Guarded, AppliedAsPlanned, Applying
<1>. QED
  BY <1>2, <1>3, <1>4, <1>5 DEF IInv

LEMMA CodexIInv == ASSUME IInv, CodexStep PROVE IInv'
<1>1. TypeOK /\ Fits /\ Sandwich /\ Restored /\ Guarded /\ AppliedAsPlanned
  BY DEF IInv
<1>2. /\ rollout' \in Rollouts /\ Grows(rollout, rollout') /\ Len(rollout') <= written'
      /\ written' \in 0..MaxLines /\ written <= written'
  BY <1>1, CodexGrows
<1>3. UNCHANGED <<database, pc, applies, evidence, plan, currentSha, backup, copied, cut, result>>
  BY DEF CodexStep, restore
<1>4. TypeOK'
  <2>1. codexUp' \in BOOLEAN /\ lockFile' \in BOOLEAN /\ row' \in {"none", "codex", "rescue"}
    BY <1>1 DEF TypeOK, CodexStep, CodexOpen, CodexEnd, CodexBeginLine, CodexEndLine, CodexIndex
  <2>. QED
    BY <1>1, <1>2, <1>3, <2>1 DEF TypeOK
<1>5. Fits'
  <2>1. Len(backup) \in Nat /\ written \in Nat
    BY <1>1, RolloutTypes DEF TypeOK
  <2>. QED
    BY <1>1, <1>2, <1>3, <2>1 DEF Fits
<1>6. Sandwich'
  <2>1. /\ rollout \in Seq(Lines) /\ rollout' \in Seq(Lines) /\ currentSha \in Seq(Lines)
        /\ backup \in Seq(Lines) /\ evidence.lines \in Seq(Lines)
    BY <1>1, <1>2, RolloutTypes, RolloutIsSeq
  <2>2. \A r \in Seq(Lines) : Grows(r, rollout) => Grows(r, rollout')
    BY <1>2, <2>1, GrowsTransitive
  <2>. QED
    BY <1>1, <1>3, <2>1, <2>2 DEF Sandwich
<1>7. Guarded' /\ AppliedAsPlanned'
  BY <1>1, <1>3 DEF Guarded, AppliedAsPlanned, Complete
<1>8. Restored'
  <2>1. /\ rollout \in Seq(Lines) /\ rollout' \in Seq(Lines) /\ backup \in Seq(Lines)
        /\ copied \in Nat
    BY <1>1, <1>2, RolloutTypes, RolloutIsSeq DEF TypeOK
  <2>2. Len(rollout) <= Len(rollout')
    BY <1>2 DEF Grows
  <2>3. ASSUME cut, NEW i \in 1..copied
        PROVE  backup[i].id = rollout'[i].id /\ backup[i].kind \in {rollout'[i].kind, "torn"}
    <3>1. backup[i].id = rollout[i].id /\ backup[i].kind \in {rollout[i].kind, "torn"}
      BY <1>1, <2>3 DEF Restored
    <3>2. i \in 1..Len(rollout)
      BY <1>1, <2>1, <2>3 DEF Restored
    <3>3. rollout[i].id = rollout'[i].id /\ rollout[i].kind \in {rollout'[i].kind, "torn"}
      BY <1>2, <3>2 DEF Grows
    <3>. QED
      BY <3>1, <3>3
  <2>4. cut => copied <= Len(rollout')
    BY <1>1, <2>1, <2>2 DEF Restored
  <2>. QED
    BY <1>1, <1>3, <2>3, <2>4 DEF Restored
<1>. QED
  BY <1>4, <1>5, <1>6, <1>7, <1>8 DEF IInv

\* Steps of a plan's making: no apply is under way, before or after.
LEMMA PlanIInv == ASSUME IInv, PlanStep PROVE IInv'
<1>1. TypeOK /\ Fits /\ Sandwich /\ Restored /\ Guarded /\ AppliedAsPlanned
  BY DEF IInv
<1>2. /\ pc \in {"idle", "planScan", "planInspect", "planHash"}
      /\ pc' \in {"idle", "planScan", "planInspect", "planHash"}
      /\ UNCHANGED <<codex, database, applies, currentSha, backup, copied, cut>>
  BY DEF PlanStep, StartPlan, EditPlan, Scan, Inspect, PlanHash, Goto, End, restore
<1>3. /\ result' \in {"none", "PLANNED"} /\ (pc' # "idle" => result' = "none")
  BY <1>1 DEF PlanStep, StartPlan, EditPlan, Scan, Inspect, PlanHash, Goto, End, Guarded
<1>4. evidence' \in [lines : Rollouts, failed : BOOLEAN, locked : BOOLEAN, indexed : BOOLEAN]
  <2>1. <<>> \in Rollouts
    BY EmptyRollout
  <2>. QED
    <3>. DEFINE E == [lines : Rollouts, failed : BOOLEAN, locked : BOOLEAN, indexed : BOOLEAN]
    <3>1. evidence \in E /\ rollout \in Rollouts /\ lockFile \in BOOLEAN /\ codexUp \in BOOLEAN
      BY <1>1 DEF TypeOK
    <3>2. CASE StartPlan
      BY <2>1, <3>2 DEF StartPlan, NoEvidence
    <3>3. CASE EditPlan \/ PlanHash
      BY <3>1, <3>3 DEF EditPlan, PlanHash
    <3>4. CASE Scan("planScan", "planInspect")
      BY <2>1, <3>1, <3>4 DEF Scan
    <3>5. CASE Inspect("planInspect", "planHash")
      BY <3>1, <3>5 DEF Inspect
    <3>. QED
      BY <3>2, <3>3, <3>4, <3>5 DEF PlanStep
<1>5. plan' \in [hashed : BOOLEAN, sha : Rollouts, applicable : BOOLEAN, op : Ops]
  <2>1. CASE PlanHash
    <3>1. <<>> \in Rollouts
      BY EmptyRollout
    <3>2. Propose \in {"refuse", "reindex", "fork"}
      BY DEF Propose
    <3>. QED
      BY <1>1, <2>1, <3>1, <3>2 DEF PlanHash, TypeOK, Ops
  <2>2. CASE EditPlan
    BY <1>1, <2>2 DEF EditPlan, TypeOK
  <2>3. CASE UNCHANGED plan
    BY <1>1, <2>3 DEF TypeOK
  <2>. QED
    BY <2>1, <2>2, <2>3 DEF PlanStep, StartPlan, Scan, Inspect
<1>6. TypeOK'
  BY <1>1, <1>2, <1>3, <1>4, <1>5 DEF TypeOK, codex
<1>7. Fits' /\ Sandwich' /\ Restored'
  BY <1>1, <1>2 DEF Fits, Sandwich, Scanned, Restored, Applying, codex
<1>8. Guarded' /\ AppliedAsPlanned'
  BY <1>2, <1>3 DEF Guarded, AppliedAsPlanned, Applying
<1>. QED
  BY <1>6, <1>7, <1>8 DEF IInv

\* Whatever the step, failing leaves everything but the program counter as it is.
LEMMA FailIInv == ASSUME IInv, Fail PROVE IInv'
<1>1. TypeOK /\ Fits /\ Sandwich /\ Restored /\ Guarded /\ AppliedAsPlanned
  BY DEF IInv
<1>2. /\ pc' = "idle" /\ result' = "RAISED"
      /\ UNCHANGED <<codexUp, lockFile, rollout, written, row, database, applies, evidence,
                     plan, currentSha, backup, copied, cut>>
  BY DEF Fail, End, codex, restore
<1>3. TypeOK'
  BY <1>1, <1>2 DEF TypeOK
<1>. QED
  BY <1>1, <1>2, <1>3
     DEF IInv, Fits, Sandwich, Scanned, Restored, Guarded, Applying, AppliedAsPlanned, Complete

\* Steps of an apply: a read extends the sandwich, the last hash closes it.
LEMMA ApplyIInv == ASSUME IInv, ApplyStep PROVE IInv'
<1>. DEFINE E == [lines : Rollouts, failed : BOOLEAN, locked : BOOLEAN, indexed : BOOLEAN]
<1>1. TypeOK /\ Fits /\ Sandwich /\ Restored /\ Guarded /\ AppliedAsPlanned
  BY DEF IInv
<1>2. /\ rollout \in Seq(Lines) /\ currentSha \in Seq(Lines) /\ backup \in Seq(Lines)
      /\ evidence.lines \in Seq(Lines) /\ <<>> \in Seq(Lines) /\ <<>> \in Rollouts
      /\ evidence \in E /\ rollout \in Rollouts /\ currentSha \in Rollouts
      /\ backup \in Rollouts /\ lockFile \in BOOLEAN /\ codexUp \in BOOLEAN
  BY <1>1, RolloutTypes, EmptyRollout DEF TypeOK
<1>3. Grows(rollout, rollout)
  BY <1>2, GrowsReflexive
<1>4. UNCHANGED <<codexUp, lockFile, written, database, plan>>
  BY DEF ApplyStep, StartApply, Hash, Scan, Inspect, Guard, Backup, BackupSource, Mutate,
         PostHash, Truncate, CopyBack, codex
<1>5. CASE StartApply
  <2>1. /\ currentSha' = <<>> /\ evidence' = NoEvidence
        /\ \/ pc' = "hash" /\ result' = "none"
           \/ pc' = "idle" /\ result' = "REFUSED"
        /\ applies' \in 0..MaxApplies
        /\ copied' = 0 /\ cut' = FALSE /\ 0 \in 0..MaxLines
        /\ UNCHANGED <<rollout, row, backup>>
    BY <1>1, <1>5, PlanApplyAssumption DEF StartApply, End, codex, TypeOK, PlanApplyAssumption
  <2>2. NoEvidence \in E
    BY <1>2 DEF NoEvidence
  <2>3. Grows(<<>>, rollout)
    BY <1>2, EmptyRollout DEF Grows
  <2>4. TypeOK'
    <3>1. evidence' \in E /\ currentSha' \in Rollouts
      BY <1>2, <2>1, <2>2
    <3>2. copied' \in 0..MaxLines /\ cut' \in BOOLEAN
      BY <2>1
    <3>. QED
      BY <1>1, <1>2, <1>4, <2>1, <3>1, <3>2 DEF TypeOK
  <2>. QED
    BY <1>1, <1>4, <2>1, <2>3, <2>4
       DEF IInv, Fits, Sandwich, Scanned, Restored, Guarded, Applying, AppliedAsPlanned
<1>6. CASE Hash
  <2>1. /\ ~cut /\ UNCHANGED <<rollout, row, applies, evidence, backup, copied, cut>>
        /\ \/ /\ currentSha' = rollout /\ (plan.hashed => rollout = plan.sha)
              /\ pc' = "applyScan" /\ result' = "none"
           \/ currentSha' = currentSha /\ pc' = "idle" /\ result' = "REFUSED"
    BY <1>1, <1>6 DEF Hash, Goto, End, codex, restore, Restored, Guarded
  <2>2. TypeOK'
    BY <1>1, <1>2, <1>4, <2>1 DEF TypeOK
  <2>. QED
    BY <1>1, <1>3, <1>4, <2>1, <2>2
       DEF IInv, Fits, Sandwich, Scanned, Restored, Guarded, Applying, AppliedAsPlanned
<1>7. CASE Scan("applyScan", "applyInspect")
  <2>1. /\ pc = "applyScan" /\ pc' = "applyInspect" /\ result' = "none" /\ ~cut
        /\ UNCHANGED <<rollout, row, applies, currentSha, backup, copied, cut>>
        /\ \/ evidence'.lines = rollout
           \/ evidence'.failed
        /\ evidence' \in E
    BY <1>1, <1>2, <1>7 DEF Scan, Goto, codex, restore, Restored, Applying, Guarded
  <2>2. TypeOK'
    BY <1>1, <1>2, <1>4, <2>1 DEF TypeOK
  <2>3. Sandwich'
    BY <1>1, <1>2, <1>3, <2>1 DEF Sandwich, Scanned
  <2>. QED
    BY <1>1, <1>4, <2>1, <2>2, <2>3
       DEF IInv, Fits, Restored, Guarded, Applying, AppliedAsPlanned
<1>8. CASE Inspect("applyInspect", "guard")
  <2>1. /\ pc = "applyInspect" /\ pc' = "guard" /\ result' = "none"
        /\ UNCHANGED <<rollout, row, applies, currentSha, backup, copied, cut>>
        /\ evidence'.lines = evidence.lines /\ evidence'.failed = evidence.failed
        /\ evidence' \in E
    BY <1>1, <1>2, <1>8 DEF Inspect, Goto, codex, restore, Guarded
  <2>2. TypeOK'
    BY <1>1, <1>2, <1>4, <2>1 DEF TypeOK
  <2>3. Sandwich'
    BY <1>1, <2>1 DEF Sandwich, Scanned
  <2>. QED
    BY <1>1, <1>4, <2>1, <2>2, <2>3
       DEF IInv, Fits, Restored, Guarded, Applying, AppliedAsPlanned
<1>9. CASE Guard
  <2>1. /\ pc = "guard"
        /\ UNCHANGED <<rollout, row, applies, evidence, currentSha, backup, copied, cut>>
        /\ \/ Safe /\ pc' = "backup" /\ result' = "none"
           \/ pc' = "idle" /\ result' \in {"DRY_RUN", "REFUSED"}
    BY <1>1, <1>9 DEF Guard, Goto, End, codex, restore, Guarded
  <2>2. TypeOK'
    BY <1>1, <1>2, <1>4, <2>1 DEF TypeOK
  <2>. QED
    BY <1>1, <1>4, <2>1, <2>2
       DEF IInv, Fits, Sandwich, Scanned, Restored, Guarded, Applying, AppliedAsPlanned, Safe,
           Complete
<1>10. CASE Backup
  <2>1. /\ pc = "backup" /\ pc' = "mutate" /\ result' = "none" /\ backup' = rollout
        /\ UNCHANGED <<rollout, row, applies, evidence, currentSha, copied, cut>>
    BY <1>1, <1>10 DEF Backup, BackupSource, Goto, codex, restore, Guarded
  <2>2. TypeOK'
    BY <1>1, <1>2, <1>4, <2>1 DEF TypeOK
  <2>. QED
    BY <1>1, <1>3, <1>4, <2>1, <2>2
       DEF IInv, Fits, Sandwich, Scanned, Restored, Guarded, Applying, AppliedAsPlanned, Complete
<1>11. CASE Mutate
  <2>1. /\ pc = "mutate"
        /\ UNCHANGED <<rollout, applies, evidence, currentSha, backup, copied, cut>>
        /\ pc' = "postHash" /\ result' = "none"
        /\ row' \in {"none", "codex", "rescue"}
    BY <1>1, <1>11 DEF Mutate, Goto, End, Guarded, restore, TypeOK
  <2>2. TypeOK'
    BY <1>1, <1>2, <1>4, <2>1 DEF TypeOK
  <2>. QED
    BY <1>1, <1>4, <2>1, <2>2
       DEF IInv, Fits, Sandwich, Scanned, Restored, Guarded, Applying, AppliedAsPlanned, Complete
<1>12. CASE PostHash
  <2>1. /\ pc = "postHash"
        /\ UNCHANGED <<rollout, row, applies, evidence, currentSha, backup, copied, cut>>
        /\ \/ rollout = currentSha /\ pc' = "idle" /\ result' = "APPLIED"
           \/ pc' = "restore" /\ result' = "none"
    BY <1>1, <1>12 DEF PostHash, Unmodified, Goto, End, codex, restore, Guarded
  <2>2. TypeOK'
    BY <1>1, <1>2, <1>4, <2>1 DEF TypeOK
  <2>3. Complete /\ ~evidence.failed
    BY <1>1, <2>1 DEF Guarded, Complete
  <2>4. ASSUME result' = "APPLIED"
        PROVE  /\ evidence.lines = currentSha /\ backup = currentSha
               /\ plan.hashed => currentSha = plan.sha
    <3>1. rollout = currentSha
      BY <2>1, <2>4
    <3>2. Grows(currentSha, evidence.lines) /\ Grows(evidence.lines, currentSha)
      BY <1>1, <2>1, <2>3, <3>1 DEF Sandwich, Scanned
    <3>3. Grows(currentSha, backup) /\ Grows(backup, currentSha)
      BY <1>1, <2>1, <3>1 DEF Sandwich
    <3>. QED
      BY <1>1, <1>2, <2>1, <3>2, <3>3, GrowsAntisymmetric DEF Guarded, Applying
  <2>5. AppliedAsPlanned'
    BY <1>4, <2>1, <2>4 DEF AppliedAsPlanned
  <2>. QED
    BY <1>1, <1>4, <2>1, <2>2, <2>5
       DEF IInv, Fits, Sandwich, Scanned, Restored, Guarded, Applying, Complete
<1>13. CASE Truncate
  <2>1. /\ pc = "restore" /\ pc' = "copy" /\ result' = "none" /\ rollout' = <<>>
        /\ copied' = 0 /\ cut' = TRUE /\ 0 \in 0..MaxLines
        /\ UNCHANGED <<row, applies, evidence, currentSha, backup>>
    BY <1>1, <1>13, PlanApplyAssumption DEF Truncate, Goto, Guarded, PlanApplyAssumption
  <2>2. TypeOK'
    BY <1>1, <1>2, <1>4, <2>1 DEF TypeOK
  <2>3. Len(rollout') = 0 /\ Len(backup) \in Nat /\ written \in Nat
    BY <1>1, <1>2, <2>1 DEF TypeOK
  <2>4. Fits' /\ Sandwich' /\ Restored'
    BY <1>1, <1>4, <2>1, <2>3 DEF Fits, Sandwich, Scanned, Restored, Applying
  <2>. QED
    BY <1>1, <1>4, <2>1, <2>2, <2>4 DEF IInv, Guarded, Applying, AppliedAsPlanned, Complete
<1>14. CASE CopyBack /\ copied < Len(backup)
  <2>1. /\ pc = "copy" /\ pc' = "copy" /\ result' = "none" /\ cut /\ cut' = cut
        /\ copied' = copied + 1 /\ copied + 1 <= Len(backup)
        /\ rollout' = [i \in 1..Len(rollout) \cup {copied + 1} |->
                          IF i = copied + 1 THEN backup[i] ELSE rollout[i]]
        /\ UNCHANGED <<row, applies, evidence, currentSha, backup>>
        /\ copied \in Nat /\ written \in 0..MaxLines /\ MaxLines \in Nat
    <3>1. /\ pc = "copy" /\ pc' = "copy" /\ result' = "none" /\ cut' = cut
          /\ copied' = copied + 1 /\ copied < Len(backup)
          /\ rollout' = [i \in 1..Len(rollout) \cup {copied + 1} |->
                            IF i = copied + 1 THEN backup[i] ELSE rollout[i]]
          /\ UNCHANGED <<row, applies, evidence, currentSha, backup>>
      BY <1>1, <1>2, <1>14 DEF CopyBack, CopyLine, Goto, Guarded
    <3>2. /\ copied \in 0..MaxLines /\ written \in 0..MaxLines /\ Len(backup) \in Nat
      BY <1>1, <1>2 DEF TypeOK
    <3>3. cut
      BY <1>1, <3>1 DEF Restored
    <3>. QED
      BY <3>1, <3>2, <3>3, PlanApplyAssumption DEF PlanApplyAssumption
  <2>2. copied <= Len(rollout) /\ Len(rollout) <= written /\ Len(backup) <= written
    BY <1>1, <2>1 DEF Restored, Fits
  <2>. DEFINE n == IF copied < Len(rollout) THEN Len(rollout) ELSE copied + 1
  <2>3. /\ n \in Nat /\ copied + 1 <= n /\ n <= written
        /\ 1..Len(rollout) \cup {copied + 1} = 1..n
    <3>1. Len(rollout) \in Nat /\ Len(backup) \in Nat
      BY <1>2
    <3>2. n \in Nat /\ copied + 1 <= n /\ n <= written
      BY <2>1, <2>2, <3>1
    <3>3. \A i : i \in 1..Len(rollout) \cup {copied + 1} <=> i \in 1..n
      BY <2>1, <2>2, <3>1
    <3>. QED
      BY <3>2, <3>3
  <2>. HIDE DEF n
  <2>4. \A i \in 1..n : rollout'[i] = IF i = copied + 1 THEN backup[i] ELSE rollout[i]
    BY <2>1, <2>3
  <2>5. rollout' \in Seq(Lines) /\ Len(rollout') = n
    <3>1. backup[copied + 1] \in Lines
      BY <1>2, <2>1
    <3>2. \A i \in 1..n : i # copied + 1 => rollout[i] \in Lines
      <4>. SUFFICES ASSUME NEW i \in 1..n, i # copied + 1 PROVE rollout[i] \in Lines
        OBVIOUS
      <4>1. i \in 1..Len(rollout)
        BY <2>3
      <4>. QED
        BY <1>2, <4>1
    <3>3. rollout' \in [1..n -> Lines]
      BY <2>1, <2>3, <3>1, <3>2
    <3>. QED
      BY <2>3, <3>3
  <2>6. TypeOK'
    <3>. Len(rollout') <= MaxLines
      BY <2>1, <2>3, <2>5
    <3>1. rollout' \in Rollouts
      BY <2>5, SeqIsRollout
    <3>2. copied' \in 0..MaxLines
      BY <2>1, <2>3
    <3>. QED
      BY <1>1, <1>4, <2>1, <3>1, <3>2 DEF TypeOK
  <2>7. Restored'
    <3>1. \A i \in 1..(copied + 1) :
             backup[i].id = rollout'[i].id /\ backup[i].kind \in {rollout'[i].kind, "torn"}
      <4>. SUFFICES ASSUME NEW i \in 1..(copied + 1)
                    PROVE  /\ backup[i].id = rollout'[i].id
                           /\ backup[i].kind \in {rollout'[i].kind, "torn"}
        OBVIOUS
      <4>1. i \in 1..n
        BY <2>1, <2>3
      <4>2. CASE i = copied + 1
        BY <2>4, <4>1, <4>2
      <4>3. CASE i \in 1..copied
        <5>. i # copied + 1
          BY <2>1, <4>3
        <5>1. rollout'[i] = rollout[i]
          BY <2>4, <4>1
        <5>. QED
          BY <1>1, <2>1, <4>3, <5>1 DEF Restored
      <4>. QED
        BY <2>1, <4>2, <4>3
    <3>. QED
      BY <1>1, <2>1, <2>3, <2>5, <3>1 DEF Restored, Applying
  <2>8. Fits' /\ Sandwich'
    BY <1>1, <1>4, <2>1, <2>3, <2>5 DEF Fits, Sandwich, Scanned
  <2>. QED
    BY <1>1, <1>4, <2>1, <2>6, <2>7, <2>8 DEF IInv, Guarded, Applying, AppliedAsPlanned, Complete
<1>15. CASE CopyBack /\ ~(copied < Len(backup))
  <2>1. /\ pc = "copy" /\ pc' = "idle" /\ result' = "RESTORED" /\ cut /\ cut' = FALSE
        /\ copied = Len(backup) /\ copied' = 0 /\ 0 \in 0..MaxLines
        /\ UNCHANGED <<rollout, row, applies, evidence, currentSha, backup>>
    <3>1. /\ pc = "copy" /\ copied = Len(backup) /\ copied' = 0 /\ cut' = FALSE
          /\ pc' = "idle" /\ result' = "RESTORED"
          /\ UNCHANGED <<rollout, row, applies, evidence, currentSha, backup>>
      BY <1>15 DEF CopyBack, CopyLine, Goto, EndRestore, End
    <3>. QED
      BY <1>1, <3>1, PlanApplyAssumption DEF Restored, PlanApplyAssumption
  <2>2. TypeOK'
    BY <1>1, <1>2, <1>4, <2>1 DEF TypeOK
  <2>3. Grows(backup, rollout) /\ Grows(currentSha, backup)
    BY <1>1, <2>1 DEF Restored, Sandwich, Grows
  <2>4. Grows(currentSha, rollout)
    BY <1>2, <2>3, GrowsTransitive
  <2>. QED
    BY <1>1, <1>4, <2>1, <2>2, <2>4
       DEF IInv, Fits, Sandwich, Scanned, Restored, Guarded, Applying, AppliedAsPlanned
<1>. QED
  BY <1>5, <1>6, <1>7, <1>8, <1>9, <1>10, <1>11, <1>12, <1>13, <1>14, <1>15 DEF ApplyStep

LEMMA StutterIInv == ASSUME IInv, UNCHANGED vars PROVE IInv'
BY DEF IInv, TypeOK, Fits, Sandwich, Scanned, Restored, Guarded, Applying, AppliedAsPlanned,
       Complete, vars, codex, restore

LEMMA Invariant == Spec => []IInv
<1>1. IInv /\ [Next]_vars => IInv'
  BY CodexIInv, PlanIInv, ApplyIInv, FailIInv, StutterIInv DEF Next
<1>. QED
  BY <1>1, InitIInv, PTL DEF Spec

-----------------------------------------------------------------------------

\* Every variable always has its type.
THEOREM TypeCorrect == Spec => []TypeOK
<1>1. IInv => TypeOK
  BY DEF IInv
<1>. QED
  BY <1>1, Invariant, PTL

\* What a plan reported as applied was made for, scanned and backed up is one
\* and the same source, though Codex may write between any two of the reads.
THEOREM AppliedSourceIsPlanned == Spec => []AppliedAsPlanned
<1>1. IInv => AppliedAsPlanned
  BY DEF IInv
<1>. QED
  BY <1>1, Invariant, PTL

\* Nothing is written without a complete scan, a lock that is not known to be live and
\* a backup that holds the source the plan was checked against.
THEOREM MutationIsGuarded == Spec => []MutatesUnderGuard
<1>1. IInv => MutatesUnderGuard
  BY GrowsKeeps DEF IInv, Guarded, Sandwich, Restored, MutatesUnderGuard
<1>. QED
  BY <1>1, Invariant, PTL

\* No line of the source an apply checked is lost, whatever Codex appends and wherever
\* the apply fails or is killed, but for those a restore has cut off and not yet, or
\* never, written back.
THEOREM SourceKept == Spec => []CheckedSourceKept
<1>1. ASSUME IInv PROVE CheckedSourceKept
  <2>1. /\ currentSha \in Seq(Lines) /\ backup \in Seq(Lines) /\ rollout \in Seq(Lines)
        /\ copied \in Nat
    BY <1>1, RolloutTypes DEF IInv, TypeOK
  <2>2. CASE ~cut
    BY <1>1, <2>1, <2>2 DEF IInv, Sandwich, Grows, CheckedSourceKept
  <2>3. CASE cut
    <3>. SUFFICES ASSUME NEW i \in 1..Len(currentSha), i <= copied
                  PROVE  i <= Len(rollout) /\ rollout[i].id = currentSha[i].id
      BY <2>3 DEF CheckedSourceKept
    <3>1. i \in 1..copied /\ i <= Len(rollout) /\ backup[i].id = rollout[i].id
      BY <1>1, <2>1, <2>3 DEF IInv, Restored
    <3>2. currentSha[i].id = backup[i].id
      BY <1>1, <2>1, <2>3 DEF IInv, Sandwich, Grows
    <3>. QED
      BY <3>1, <3>2
  <2>. QED
    BY <2>2, <2>3
<1>. QED
  BY <1>1, Invariant, PTL
=============================================================================
