-------------------------- MODULE RolloutReaderProofs --------------------------
(***************************************************************************)
(* The commands that read one rollout twice, or only in part, while Codex  *)
(* writes to it: the quick scan of its tail, the comparison of a cursor    *)
(* with its end, the family of a session, the cache of the batch doctor,   *)
(* and the copies that exports, imports and salvages make.  For any        *)
(* rollout, any bounds and any turns of Codex.                             *)
(***************************************************************************)
EXTENDS QuickScan, ProjectionCheck, LifecycleCheck, DoctorCache, PortableSession,
        FiniteSetTheorems, SequenceTheorems, TLAPS

LEMMA StoresAreStores == Stores \in Seq(Range(Stores))
<1>1. Stores \in Seq(STRING) BY HomeAssumption
<1>2. Len(Stores) \in Nat /\ Stores \in [1..Len(Stores) -> STRING] BY <1>1
<1>3. \A i \in 1..Len(Stores) : Stores[i] \in Range(Stores) BY <1>2 DEF Range
<1>4. Stores \in [1..Len(Stores) -> Range(Stores)] BY <1>2, <1>3
<1>5. QED BY <1>2, <1>4

-----------------------------------------------------------------------------
(* The tail of a rollout.                                                  *)

quickAll == <<home, pc, result, quickVars>>
QuickNext == QuickStep \/ (HomeTurn /\ UNCHANGED quickVars)
QuickBegin == HomeInit /\ pc = "idle" /\ result = "none" /\ QuickInit

QuickHome ==
    /\ log \in [Sessions -> Seq(Records)]
    /\ torn \in [Sessions -> BOOLEAN]
QuickIsRecord ==
    quick = [session |-> quick.session, size |-> quick.size, header |-> quick.header,
             end |-> quick.end]
Sizing   == pc \in {"quickHead", "quickTail"}
Scanning == pc \in {"quickSize", "quickVerdict"} \/ Sizing

\* The tail that was read ends where the window or the rollout did, which was no
\* shorter than when its size was taken.
TailIsRead ==
    /\ quick.size \in Nat /\ seen \in Seq(Records)
    /\ \E half \in {0, 1} :
          /\ quick.size <= 2 * Len(seen) + half
          /\ quick.end = Least(Offset + TailLimit, 2 * Len(seen) + half)

QuickInv ==
    /\ QuickHome /\ QuickIsRecord
    /\ Scanning => quick.session \in Sessions
    /\ Sizing => quick.size \in Nat /\ quick.size <= Size(quick.session)
    /\ pc = "quickVerdict" => TailIsRead
    /\ Scanning => result = "none"
    /\ HealthyTailIsClosed

LEMMA RolloutsGrow ==
    ASSUME QuickHome, HomeTurn
    PROVE  /\ QuickHome' /\ pc' = pc /\ result' = result
           /\ \A s \in Sessions : Size(s) \in Nat /\ Size(s) <= Size(s)'
<1> USE DEF QuickHome, Turn, Size
<1>1. CASE \E s \in Sessions, r \in Records : WriteLine(s, r)
  <2> PICK s \in Sessions, r \in Records : WriteLine(s, r) BY <1>1
  <2>1. /\ log' = [log EXCEPT ![s] = log[s] \o <<r>>] /\ torn' = [torn EXCEPT ![s] = FALSE]
        /\ pc' = pc /\ result' = result
    BY DEF WriteLine
  <2>2. log[s] \o <<r>> \in Seq(Records) /\ Len(log[s] \o <<r>>) = Len(log[s]) + 1
    <3>1. log[s] \in Seq(Records) OBVIOUS
    <3>2. QED BY <3>1
  <2>3. QuickHome' BY <2>1, <2>2
  <2>4. ASSUME NEW t \in Sessions PROVE Size(t) \in Nat /\ Size(t) <= Size(t)'
    <3>1. log[t] \in Seq(Records) /\ Len(log[t]) \in Nat /\ torn[t] \in BOOLEAN OBVIOUS
    <3>2. CASE t = s
      <4>1. log'[t] = log[s] \o <<r>> /\ torn'[t] = FALSE BY <2>1, <3>2
      <4>2. Len(log'[t]) = Len(log[t]) + 1 BY <2>2, <3>2, <4>1
      <4>3. QED BY <3>1, <4>1, <4>2
    <3>3. CASE t # s
      <4>1. log'[t] = log[t] /\ torn'[t] = torn[t] BY <2>1, <3>3
      <4>2. QED BY <3>1, <4>1
    <3>4. QED BY <3>2, <3>3
  <2>5. QED BY <2>1, <2>3, <2>4
<1>2. CASE \E s \in Sessions : Tear(s) BY <1>2 DEF Tear
<1>3. CASE \E s \in Sessions : Create(s) BY <1>3 DEF Create
<1>4. CASE \E s \in Sessions, to \in Places : Move(s, to) BY <1>4 DEF Move, rollout
<1>5. CASE \E s \in Sessions, value \in Rows : WriteRow(s, value) BY <1>5 DEF WriteRow, rollout
<1>6. CASE \E s \in Sessions, d \in Range(Stores), n \in 1..Lines : Project(s, d, n)
  BY <1>6 DEF Project, rollout
<1>7. CASE \E s \in Sessions, value \in {"unrecorded", "open", "closed"} : SetEdge(s, value)
  BY <1>7 DEF SetEdge, rollout
<1>8. CASE \E s \in Sessions, value \in BOOLEAN : SetAlive(s, value)
  BY <1>8 DEF SetAlive, rollout
<1>9. CASE \E value \in BOOLEAN : SetReadable(value) BY <1>9 DEF SetReadable, rollout
<1>10. QED BY <1>1, <1>2, <1>3, <1>4, <1>5, <1>6, <1>7, <1>8, <1>9 DEF HomeTurn

LEMMA QuickInitially == QuickBegin => QuickInv
<1> SUFFICES ASSUME QuickBegin PROVE QuickInv OBVIOUS
<1> USE DEF QuickBegin, HomeInit, QuickInit
<1>1. Meta \in Records BY DEF Meta, Record, Records, Kinds
<1>2. QuickHome BY <1>1 DEF QuickHome
<1>3. QED
  BY <1>2 DEF QuickInv, QuickIsRecord, NoQuick, Scanning, Sizing, HealthyTailIsClosed

LEMMA TailStill ==
    ASSUME UNCHANGED quickVars
    PROVE  /\ TailIsRead' <=> TailIsRead
           /\ QuickIsRecord' <=> QuickIsRecord
           /\ result' = result => (HealthyTailIsClosed' <=> HealthyTailIsClosed)
BY DEF quickVars, TailIsRead, QuickIsRecord, HealthyTailIsClosed, RecentCalls, Sized, Offset

LEMMA QuickUnderCodex ==
    ASSUME QuickInv, HomeTurn, UNCHANGED quickVars
    PROVE  QuickInv'
<1>1. /\ QuickHome' /\ pc' = pc /\ result' = result /\ quick' = quick
      /\ \A s \in Sessions : Size(s) \in Nat /\ Size(s) <= Size(s)'
  BY RolloutsGrow DEF QuickInv, quickVars
<1>2. ASSUME Sizing PROVE quick.size <= Size(quick.session)'
  <2>1. quick.session \in Sessions /\ quick.size \in Nat /\ quick.size <= Size(quick.session)
    BY <1>2 DEF QuickInv, Scanning
  <2>2. PICK s \in Sessions : s = quick.session BY <2>1
  <2>3. Size(s) \in Nat /\ Size(s) <= Size(s)' BY <1>1
  <2>4. Size(s)' \in Nat BY <1>1 DEF Size, QuickHome
  <2>5. Size(quick.session)' = Size(s)' BY <1>1, <2>2 DEF Size
  <2>6. QED BY <2>1, <2>2, <2>3, <2>4, <2>5
<1>3. QED BY <1>1, <1>2, TailStill DEF QuickInv, Scanning, Sizing

\* The last lines that were whole when the size was taken are all in the window.
LEMMA RecentIsWhole ==
    ASSUME TailIsRead, NEW i \in RecentCalls
    PROVE  i \in WholeLines
<1> DEFINE h == (TailLimit - 1) \div 2
<1>1. TailLimit \in Nat \ {0} BY WindowAssumption
<1>2. h \in Nat /\ 2 * h <= TailLimit - 1 BY <1>1
<1>3. Sized \in Nat /\ 2 * Sized <= quick.size /\ quick.size <= 2 * Sized + 1
  BY DEF TailIsRead, Sized
<1> HIDE DEF h
<1>4. i \in Monus(Sized, h) + 1..Sized BY DEF RecentCalls, h
<1>5. PICK half \in {0, 1} : /\ quick.size <= 2 * Len(seen) + half
                             /\ quick.end = Least(Offset + TailLimit, 2 * Len(seen) + half)
  BY DEF TailIsRead
<1>6. quick.size \in Nat /\ Len(seen) \in Nat BY DEF TailIsRead
<1>7. Offset \in Nat /\ Offset + TailLimit >= quick.size
      /\ (Offset = 0 \/ Offset = quick.size - TailLimit)
  BY <1>1, <1>6 DEF Offset, Monus
<1>8. i \in Nat /\ i >= 1 /\ i <= Sized /\ i >= Sized - h + 1
  BY <1>2, <1>3, <1>4 DEF Monus
<1>9. 2 * (i - 1) >= Offset BY <1>1, <1>2, <1>3, <1>6, <1>7, <1>8
<1>10. 2 * i <= quick.end BY <1>1, <1>3, <1>5, <1>6, <1>7, <1>8 DEF Least
<1>11. i <= Len(seen) BY <1>3, <1>5, <1>6, <1>8
<1>12. QED BY <1>6, <1>8, <1>9, <1>10, <1>11 DEF WholeLines

LEMMA TailVerdictIsTrue ==
    ASSUME TailIsRead
    PROVE  /\ ~Malformed /\ ~Unfinished =>
                 \A i \in RecentCalls :
                    \E j \in 1..Len(seen) : seen[j].kind = "output" /\ seen[j].id = seen[i].id
           /\ Malformed => \/ quick.size % 2 = 1
                           \/ \E i \in 1..Len(seen) : seen[i].kind = "bad"
                           \/ quick.size < quick.end
<1>1. ASSUME ~Unfinished, NEW i \in RecentCalls
      PROVE  \E j \in 1..Len(seen) : seen[j].kind = "output" /\ seen[j].id = seen[i].id
  <2>1. i \in WholeLines /\ seen[i].kind = "call" BY RecentIsWhole DEF RecentCalls
  <2>2. seen[i].id \in Of("call") BY <2>1 DEF Of
  <2>3. seen[i].id \in Of("output") BY <1>1, <2>2 DEF Unfinished
  <2>4. PICK j \in WholeLines : seen[j].kind = "output" /\ seen[j].id = seen[i].id
    BY <2>3 DEF Of
  <2>5. QED BY <2>4 DEF WholeLines
<1>2. ASSUME CutLine PROVE quick.size % 2 = 1 \/ quick.size < quick.end
  <2>1. PICK half \in {0, 1} : /\ quick.size <= 2 * Len(seen) + half
                               /\ quick.end = Least(Offset + TailLimit, 2 * Len(seen) + half)
    BY DEF TailIsRead
  <2>2. quick.size \in Nat /\ Len(seen) \in Nat /\ TailLimit \in Nat \ {0}
    BY WindowAssumption DEF TailIsRead
  <2>3. Offset \in Nat /\ Offset + TailLimit >= quick.size
        /\ (Offset + TailLimit = quick.size \/ Offset = 0)
    BY <2>2 DEF Offset, Monus
  <2>4. quick.end \in Nat /\ quick.end >= quick.size BY <2>1, <2>2, <2>3 DEF Least
  <2>5. QED BY <1>2, <2>2, <2>4 DEF CutLine
<1>3. QED BY <1>1, <1>2 DEF Malformed, WholeLines

LEMMA QuickUnderScan ==
    ASSUME QuickInv, QuickStep
    PROVE  QuickInv'
<1>1. UNCHANGED <<log, torn>> /\ QuickHome /\ QuickIsRecord BY DEF QuickStep, home, QuickInv
<1>2. QuickHome' /\ \A s \in Sessions : Size(s)' = Size(s) /\ Size(s) \in Nat
  BY <1>1 DEF QuickHome, Size
<1> DEFINE s == quick.session
<1>3. ASSUME Scanning PROVE s \in Sessions /\ result = "none"
  BY <1>3 DEF QuickInv
<1>4. CASE \E t \in Sessions : QuickStart(t)
  <2> PICK t \in Sessions : QuickStart(t) BY <1>4
  <2>1. quick' = [session |-> t, size |-> 0, header |-> FALSE, end |-> 0]
        /\ pc' = "quickSize" /\ result' = "none"
    BY DEF QuickStart, NoQuick
  <2>2. QED
    BY <1>2, <2>1 DEF QuickInv, QuickIsRecord, Scanning, Sizing, HealthyTailIsClosed
<1>5. CASE QuickSize
  <2>1. /\ quick' = [session |-> s, size |-> Size(s), header |-> quick.header,
                     end |-> quick.end]
        /\ pc = "quickSize" /\ pc' = "quickHead" /\ result' = result
    BY <1>1, <1>5 DEF QuickSize, Goto, QuickIsRecord
  <2>2. s \in Sessions /\ result = "none" BY <1>3, <2>1 DEF Scanning
  <2>3. QuickIsRecord' /\ quick'.session = s /\ quick'.size = Size(s)
    BY <2>1 DEF QuickIsRecord
  <2>4. Size(quick.session)' = Size(s) BY <1>1, <2>3 DEF Size
  <2>5. QED
    BY <1>2, <2>1, <2>2, <2>3, <2>4 DEF QuickInv, Scanning, Sizing, HealthyTailIsClosed
<1>6. CASE QuickHead
  <2>1. /\ quick' = [session |-> s, size |-> quick.size, header |-> HeadLimit >= 2,
                     end |-> quick.end]
        /\ pc = "quickHead" /\ pc' = "quickTail" /\ result' = result
    BY <1>1, <1>6 DEF QuickHead, Goto, QuickIsRecord
  <2>2. s \in Sessions /\ result = "none" /\ quick.size \in Nat /\ quick.size <= Size(s)
    BY <1>3, <2>1 DEF Scanning, Sizing, QuickInv
  <2>3. QuickIsRecord' /\ quick'.session = s /\ quick'.size = quick.size
    BY <2>1 DEF QuickIsRecord
  <2>4. Size(quick.session)' = Size(s) BY <1>1, <2>3 DEF Size
  <2>5. QED
    BY <1>2, <2>1, <2>2, <2>3, <2>4 DEF QuickInv, Scanning, Sizing, HealthyTailIsClosed
<1>7. CASE QuickTail
  <2>1. /\ quick' = [session |-> s, size |-> quick.size, header |-> quick.header,
                     end |-> Least(Offset + TailLimit, Size(s))]
        /\ pc = "quickTail" /\ pc' = "quickVerdict" /\ result' = result /\ seen' = log[s]
    BY <1>1, <1>7 DEF QuickTail, Goto, QuickIsRecord
  <2>2. s \in Sessions /\ result = "none" /\ quick.size \in Nat /\ quick.size <= Size(s)
    BY <1>3, <2>1 DEF Scanning, Sizing, QuickInv
  <2>3. QuickIsRecord' /\ quick'.session = s /\ quick'.size = quick.size
        /\ quick'.end = Least(Offset + TailLimit, Size(s))
    BY <2>1 DEF QuickIsRecord
  <2>4. Offset' = Offset BY <2>3 DEF Offset
  <2>5. TailIsRead'
    <3>1. log[s] \in Seq(Records) BY <1>1, <2>2 DEF QuickHome
    <3>2. Size(s) = 2 * Len(seen') + 0 \/ Size(s) = 2 * Len(seen') + 1
      BY <2>1, <3>1 DEF Size
    <3>3. QED BY <2>1, <2>2, <2>3, <2>4, <3>1, <3>2 DEF TailIsRead
  <2>6. QED
    BY <1>2, <2>1, <2>2, <2>3, <2>5 DEF QuickInv, Scanning, Sizing, HealthyTailIsClosed
<1>8. CASE QuickVerdict
  <2>1. /\ UNCHANGED quickVars /\ pc = "quickVerdict" /\ pc' = "idle"
        /\ result' = IF Malformed THEN "damaged"
                     ELSE IF Unfinished \/ Conflict THEN "suspicious" ELSE "healthy"
    BY <1>8 DEF QuickVerdict, Answer
  <2>2. TailIsRead BY <2>1 DEF QuickInv
  <2>3. quick' = quick /\ seen' = seen /\ RecentCalls' = RecentCalls
    BY <2>1 DEF quickVars, RecentCalls, Sized
  <2>4. /\ result' = "healthy" => ~Malformed /\ ~Unfinished
        /\ result' = "damaged" => Malformed
    BY <2>1
  <2>5. HealthyTailIsClosed'
    <3> HIDE <2>1
    <3>1. QED BY <2>2, <2>3, <2>4, TailVerdictIsTrue DEF HealthyTailIsClosed
  <2>6. QED BY <1>1, <1>2, <2>1, <2>5, TailStill DEF QuickInv, Scanning, Sizing
<1>9. QED BY <1>4, <1>5, <1>6, <1>7, <1>8 DEF QuickStep

LEMMA QuickKept == QuickInv /\ [QuickNext]_quickAll => QuickInv'
<1> SUFFICES ASSUME QuickInv, [QuickNext]_quickAll PROVE QuickInv' OBVIOUS
<1>1. CASE QuickStep BY <1>1, QuickUnderScan
<1>2. CASE HomeTurn /\ UNCHANGED quickVars BY <1>2, QuickUnderCodex
<1>3. CASE UNCHANGED quickAll
  <2>1. UNCHANGED <<quick, quickVars, pc, result, log, torn>>
    BY <1>3 DEF quickAll, quickVars, home
  <2>2. QuickHome' <=> QuickHome BY <2>1 DEF QuickHome
  <2>3. Size(quick.session)' = Size(quick.session) BY <2>1 DEF Size
  <2>4. QED BY <2>1, <2>2, <2>3, TailStill DEF QuickInv, Scanning, Sizing
<1>4. QED BY <1>1, <1>2, <1>3 DEF QuickNext

\* For any windows and any rollout that grows while it is scanned: healthy means that the
\* last lines' calls had their outputs, damaged that there was something to be seen as
\* damage, or a rollout shorter than the window that grew under it (discovery.py).
THEOREM HealthyTailHolds == QuickSpec => []HealthyTailIsClosed
<1>1. QuickInv => HealthyTailIsClosed BY DEF QuickInv
<1>2. QED BY QuickKept, <1>1, QuickInitially, PTL
          DEF QuickSpec, QuickBegin, QuickNext, quickAll

-----------------------------------------------------------------------------
(* The cursor and the end of the rollout.                                  *)

parityAll == <<home, pc, result, parityVars>>
ParityNext == ParityStep \/ (HomeTurn /\ UNCHANGED parityVars)
ParityBegin == HomeInit /\ pc = "idle" /\ result = "none" /\ ParityInit

\* A cursor stands behind a line of this rollout.
Stands(c, l) ==
    \E n \in 1..Len(l) : c.offset = 2 * n /\ c.ordinal = l[n].ordinal + 1
Extends(l, k) == Len(k) <= Len(l) /\ \A i \in 1..Len(k) : l[i] = k[i]
ParityHome ==
    /\ log \in [Sessions -> Seq(Records)]
    /\ torn \in [Sessions -> BOOLEAN]
    /\ cursor \in [Sessions -> [Range(Stores) -> Cursors]]
    /\ \A s \in Sessions, d \in Range(Stores) :
          cursor[s][d].present => Stands(cursor[s][d], log[s])

Comparing == pc \in {"suffixStat", "suffixRead", "suffixVerdict"}
Closing   == pc \in {"exactStat", "exactRead", "exactVerdict"}
Checking  == pc = "parityRows" \/ Comparing \/ Closing

ParityIsRecord ==
    parity = [session |-> parity.session, size |-> parity.size, todo |-> parity.todo,
              rows |-> parity.rows, errors |-> parity.errors, before |-> parity.before,
              first |-> parity.first, second |-> parity.second]

\* What was read of the cursors was never beyond the rollout.
RowsStand == \A c \in parity.rows : Stands(c, log[parity.session])
SizedIsSize ==
    /\ sized.lines \in Nat /\ sized.torn \in BOOLEAN
    /\ parity.size = 2 * sized.lines + (IF sized.torn THEN 1 ELSE 0)

\* All stores agree on one cursor, which stood behind a line of what was read.
OneRow == \E c : parity.rows = {c} /\ Stands(c, at)

AtEndOfRead ==
    parity.first # NoOrdinal =>
       at # <<>> /\ parity.first = at[Len(at)].ordinal
OrdinalIn(l, i) ==
    IF i <= Len(l) /\ l[i].kind # "bad" THEN l[i].ordinal ELSE NoOrdinal
AtCursor ==
    LET n == Row.offset \div 2 IN
    /\ parity.first = OrdinalIn(at, n + 1)
    /\ parity.second = IF parity.first + 1 = Row.ordinal THEN OrdinalIn(at, n + 2)
                                                        ELSE NoOrdinal
    /\ parity.first # NoOrdinal

ParityInv ==
    /\ ParityHome /\ ParityIsRecord
    /\ Checking => /\ parity.session \in Sessions /\ parity.todo \in Seq(Range(Stores))
                   /\ IsFiniteSet(parity.rows) /\ RowsStand /\ SizedIsSize
    /\ Comparing \/ Closing => \E c : parity.rows = {c}
    /\ Comparing => Row.offset < parity.size
    /\ Checking => result = "none"
    /\ pc = "suffixVerdict" => OneRow /\ AtCursor /\ at \in Seq(Records)
    /\ pc = "exactVerdict" => OneRow /\ AtEndOfRead /\ at \in Seq(Records)
    /\ ParityIsTrue

LEMMA StandsOn ==
    ASSUME NEW l \in Seq(Records), NEW k \in Seq(Records), Extends(l, k), NEW c, Stands(c, k)
    PROVE  Stands(c, l)
<1>1. PICK n \in 1..Len(k) : c.offset = 2 * n /\ c.ordinal = k[n].ordinal + 1 BY DEF Stands
<1>2. n \in 1..Len(l) /\ l[n] = k[n] BY DEF Extends
<1>3. QED BY <1>1, <1>2 DEF Stands

\* Rollouts only grow, and a projection only moves to where a line ends.
LEMMA TurnKeepsParityHome ==
    ASSUME ParityHome, HomeTurn
    PROVE  /\ ParityHome' /\ pc' = pc /\ result' = result
           /\ \A s \in Sessions : Extends(log'[s], log[s])
<1> USE DEF ParityHome, Turn
<1>1. \A s \in Sessions : Extends(log[s], log[s]) BY DEF Extends
<1>2. CASE \E s \in Sessions, r \in Records : WriteLine(s, r)
  <2> PICK s \in Sessions, r \in Records : WriteLine(s, r) BY <1>2
  <2>1. /\ log' = [log EXCEPT ![s] = log[s] \o <<r>>] /\ torn' = [torn EXCEPT ![s] = FALSE]
        /\ cursor' = cursor /\ pc' = pc /\ result' = result
    BY DEF WriteLine
  <2>2. log[s] \o <<r>> \in Seq(Records) /\ Extends(log[s] \o <<r>>, log[s])
    <3>1. log[s] \in Seq(Records) OBVIOUS
    <3>2. QED BY <3>1 DEF Extends
  <2>3. log' \in [Sessions -> Seq(Records)] /\ torn' \in [Sessions -> BOOLEAN]
    BY <2>1, <2>2
  <2>4. ASSUME NEW t \in Sessions PROVE Extends(log'[t], log[t])
    BY <2>1, <2>2, <1>1
  <2>5. ASSUME NEW t \in Sessions, NEW d \in Range(Stores), cursor'[t][d].present
        PROVE  Stands(cursor'[t][d], log'[t])
    <3>1. Stands(cursor[t][d], log[t]) BY <2>1, <2>5
    <3>2. QED BY <2>1, <2>3, <2>4, <3>1, StandsOn
  <2>6. QED BY <2>1, <2>3, <2>4, <2>5
<1>3. CASE \E s \in Sessions : Tear(s) BY <1>1, <1>3 DEF Tear
<1>4. CASE \E s \in Sessions : Create(s) BY <1>1, <1>4 DEF Create
<1>5. CASE \E s \in Sessions, to \in Places : Move(s, to) BY <1>1, <1>5 DEF Move, rollout
<1>6. CASE \E s \in Sessions, value \in Rows : WriteRow(s, value)
  BY <1>1, <1>6 DEF WriteRow, rollout
<1>7. CASE \E s \in Sessions, d \in Range(Stores), n \in 1..Lines : Project(s, d, n)
  <2> PICK s \in Sessions, d \in Range(Stores), n \in 1..Lines : Project(s, d, n) BY <1>7
  <2> DEFINE c == [offset |-> 2 * n, ordinal |-> log[s][n].ordinal + 1, present |-> TRUE]
  <2>1. /\ cursor' = [cursor EXCEPT ![s][d] = c] /\ log' = log /\ torn' = torn
        /\ pc' = pc /\ result' = result /\ n \in 1..Len(log[s])
    BY DEF Project, CursorAfter, rollout
  <2>2. c \in Cursors /\ Stands(c, log[s])
    <3>1. log[s] \in Seq(Records) OBVIOUS
    <3>2. log[s][n] \in Records BY <2>1, <3>1
    <3>3. log[s][n].ordinal \in Nat BY <3>2 DEF Records
    <3>4. QED BY <2>1, <3>3 DEF Cursors, Stands
  <2> HIDE DEF c
  <2>3. cursor' \in [Sessions -> [Range(Stores) -> Cursors]] BY <2>1, <2>2
  <2>4. ASSUME NEW t \in Sessions, NEW e \in Range(Stores), cursor'[t][e].present
        PROVE  Stands(cursor'[t][e], log'[t])
    <3>1. CASE t = s /\ e = d BY <2>1, <2>2, <3>1
    <3>2. CASE ~(t = s /\ e = d)
      <4>1. cursor'[t][e] = cursor[t][e] BY <2>1, <3>2
      <4>2. QED BY <2>1, <2>4, <4>1
    <3>3. QED BY <3>1, <3>2
  <2>5. QED BY <1>1, <2>1, <2>3, <2>4
<1>8. CASE \E s \in Sessions, value \in {"unrecorded", "open", "closed"} : SetEdge(s, value)
  BY <1>1, <1>8 DEF SetEdge, rollout
<1>9. CASE \E s \in Sessions, value \in BOOLEAN : SetAlive(s, value)
  BY <1>1, <1>9 DEF SetAlive, rollout
<1>10. CASE \E value \in BOOLEAN : SetReadable(value) BY <1>1, <1>10 DEF SetReadable, rollout
<1>11. QED BY <1>2, <1>3, <1>4, <1>5, <1>6, <1>7, <1>8, <1>9, <1>10 DEF HomeTurn

LEMMA ParityInitially == ParityBegin => ParityInv
<1> SUFFICES ASSUME ParityBegin PROVE ParityInv OBVIOUS
<1> USE DEF ParityBegin, HomeInit, ParityInit
<1>1. Meta \in Records BY DEF Meta, Record, Records, Kinds
<1>2. ParityHome
  <2> PICK projected \in SUBSET Range(Stores) :
           cursor = [s \in Sessions |-> [d \in Range(Stores) |->
                        IF d \in projected THEN CursorAfter(1, Meta) ELSE NoCursor]]
    OBVIOUS
  <2>1. Meta.ordinal = 0 BY DEF Meta, Record
  <2>2. /\ NoCursor \in Cursors /\ ~NoCursor.present
        /\ CursorAfter(1, Meta) \in Cursors /\ Stands(CursorAfter(1, Meta), <<Meta>>)
    BY <1>1, <2>1 DEF NoCursor, Cursors, CursorAfter, Stands
  <2>3. \A s \in Sessions, d \in Range(Stores) :
           cursor[s][d] \in {NoCursor, CursorAfter(1, Meta)}
    OBVIOUS
  <2>4. cursor \in [Sessions -> [Range(Stores) -> Cursors]] BY <2>2
  <2>5. \A s \in Sessions, d \in Range(Stores) :
           cursor[s][d].present => Stands(cursor[s][d], log[s])
    BY <2>2, <2>3
  <2>6. QED BY <1>1, <2>4, <2>5 DEF ParityHome
<1>3. ParityIsRecord BY DEF ParityIsRecord, NoParity
<1>4. QED BY <1>2, <1>3 DEF ParityInv, Checking, Comparing, Closing, ParityIsTrue

LEMMA ParityUnderCodex ==
    ASSUME ParityInv, HomeTurn, UNCHANGED parityVars
    PROVE  ParityInv'
<1>1. /\ ParityHome' /\ pc' = pc /\ result' = result
      /\ \A s \in Sessions : Extends(log'[s], log[s])
  BY TurnKeepsParityHome DEF ParityInv
<1>2. parity' = parity /\ sized' = sized /\ at' = at BY DEF parityVars
<1>3. ASSUME Checking PROVE RowsStand'
  <2>1. parity.session \in Sessions /\ RowsStand BY <1>3 DEF ParityInv
  <2>2. QED BY <1>1, <1>2, <2>1, StandsOn DEF ParityInv, RowsStand, ParityHome
<1>4. SizedIsSize' <=> SizedIsSize BY <1>2 DEF SizedIsSize
<1>5. OneRow' <=> OneRow BY <1>2 DEF OneRow
<1>6. Row' = Row BY <1>2 DEF Row
<1>7. (AtEndOfRead' <=> AtEndOfRead) /\ (AtCursor' <=> AtCursor)
  BY <1>2, <1>6 DEF AtEndOfRead, AtCursor
<1>8. ParityIsTrue' <=> ParityIsTrue BY <1>1, <1>2, <1>6 DEF ParityIsTrue
<1>9. ParityIsRecord' <=> ParityIsRecord BY <1>2 DEF ParityIsRecord
<1>10. QED
  BY <1>1, <1>2, <1>3, <1>4, <1>5, <1>6, <1>7, <1>8, <1>9
     DEF ParityInv, Checking, Comparing, Closing

LEMMA RowIsOne ==
    ASSUME NEW c, parity.rows = {c}
    PROVE  Row = c
BY DEF Row

LEMMA HalfOfTwice == \A n \in Nat : (2 * n) \div 2 = n
OBVIOUS

LEMMA OrdinalAtIs ==
    ASSUME NEW s, NEW m \in Nat, NEW n \in Nat
    PROVE  OrdinalAt(s, 2 * m, n) = OrdinalIn(log[s], m + n)
BY HalfOfTwice DEF OrdinalAt, OrdinalIn

LEMMA ParityUnderCheck ==
    ASSUME ParityInv, ParityStep
    PROVE  ParityInv'
<1>1. UNCHANGED <<log, torn, cursor>> BY DEF ParityStep, home
<1>2. ParityHome' /\ ParityHome /\ ParityIsRecord BY <1>1 DEF ParityInv, ParityHome
<1>3. ASSUME Checking
      PROVE  /\ parity.session \in Sessions /\ parity.todo \in Seq(Range(Stores))
             /\ IsFiniteSet(parity.rows) /\ RowsStand /\ SizedIsSize
  BY <1>3 DEF ParityInv
<1>4. CASE \E s \in Sessions : ParityStart(s)
  <2> PICK s \in Sessions : ParityStart(s) BY <1>4
  <2>1. /\ parity' = [session |-> s, size |-> Size(s), todo |-> Stores, rows |-> {},
                      errors |-> FALSE, before |-> NoStat, first |-> NoOrdinal,
                      second |-> NoOrdinal]
        /\ sized' = [lines |-> Len(log[s]), torn |-> torn[s]]
        /\ pc' = "parityRows" /\ result' = "none"
    BY DEF ParityStart, NoParity
  <2>2. ParityIsRecord' BY <2>1 DEF ParityIsRecord
  <2>3. RowsStand' BY <2>1 DEF RowsStand
  <2>4. IsFiniteSet(parity'.rows) BY <2>1, FS_EmptySet
  <2>5. SizedIsSize'
    <3>1. log[s] \in Seq(Records) /\ torn[s] \in BOOLEAN BY <1>2 DEF ParityHome
    <3>2. QED BY <2>1, <3>1 DEF SizedIsSize, Size
  <2>6. QED
    BY <1>2, <2>1, <2>2, <2>3, <2>4, <2>5, StoresAreStores
       DEF ParityInv, Checking, Comparing, Closing, ParityIsTrue
<1>5. CASE ParityRows
  <2> DEFINE d == Head(parity.todo)
             c == cursor[parity.session][d]
  <2>1. /\ parity' = [parity EXCEPT !.todo = Tail(parity.todo),
                         !.rows = parity.rows \cup (IF readable /\ c.present THEN {c} ELSE {}),
                         !.errors = parity.errors \/ ~readable]
        /\ pc = "parityRows" /\ pc' = "parityRows" /\ result' = result
        /\ parity.todo # <<>> /\ UNCHANGED <<sized, at>>
    BY <1>5 DEF ParityRows, Goto
  <2>2. /\ parity.session \in Sessions /\ parity.todo \in Seq(Range(Stores))
        /\ IsFiniteSet(parity.rows) /\ RowsStand /\ SizedIsSize
    BY <1>3, <2>1 DEF Checking
  <2>3. d \in Range(Stores) /\ Tail(parity.todo) \in Seq(Range(Stores)) BY <2>1, <2>2
  <2>4. c.present => Stands(c, log[parity.session]) BY <1>2, <2>2, <2>3 DEF ParityHome
  <2> HIDE DEF c, d
  <2>5. /\ parity'.session = parity.session /\ parity'.size = parity.size
        /\ parity'.todo = Tail(parity.todo) /\ ParityIsRecord'
        /\ parity'.rows = IF readable /\ c.present THEN parity.rows \cup {c} ELSE parity.rows
    BY <1>2, <2>1 DEF ParityIsRecord
  <2>6. RowsStand' /\ IsFiniteSet(parity'.rows)
    <3>1. CASE readable /\ c.present
      <4>1. parity'.rows = parity.rows \cup {c} BY <2>5, <3>1
      <4>2. IsFiniteSet(parity.rows \cup {c}) BY <2>2, FS_AddElement
      <4>3. QED BY <1>1, <2>2, <2>4, <2>5, <3>1, <4>1, <4>2 DEF RowsStand
    <3>2. CASE ~(readable /\ c.present) BY <1>1, <2>2, <2>5, <3>2 DEF RowsStand
    <3>3. QED BY <3>1, <3>2
  <2>7. SizedIsSize' BY <2>1, <2>2, <2>5 DEF SizedIsSize
  <2>8. ParityIsTrue'
    <3>1. result # "exact" /\ result # "wedged"
      BY <2>1 DEF ParityInv, Checking
    <3>2. QED BY <2>1, <3>1 DEF ParityIsTrue
  <2>9. QED
    BY <1>2, <2>1, <2>2, <2>3, <2>5, <2>6, <2>7, <2>8
       DEF ParityInv, Checking, Comparing, Closing
<1>6. CASE ParityCompare
  <2>1. pc = "parityRows" /\ UNCHANGED <<parity, sized, at>>
    BY <1>6 DEF ParityCompare, parityVars
  <2>2. /\ parity.session \in Sessions /\ parity.todo \in Seq(Range(Stores))
        /\ IsFiniteSet(parity.rows) /\ RowsStand /\ SizedIsSize /\ result = "none"
    BY <1>3, <2>1 DEF Checking, ParityInv
  <2>3. RowsStand' /\ SizedIsSize' /\ ParityIsRecord' /\ Row' = Row
    BY <1>1, <1>2, <2>1, <2>2 DEF RowsStand, SizedIsSize, ParityIsRecord, Row
  <2>4. CASE pc' = "idle" /\ result' \in {"not_applicable", "unknown"}
    BY <1>2, <2>3, <2>4 DEF ParityInv, Checking, Comparing, Closing, ParityIsTrue
  <2>5. CASE ~ParityUndecided /\ result' = result
             /\ ((pc' = "suffixStat" /\ Row.offset < parity.size) \/ pc' = "exactStat")
    <3>1. \E c : parity.rows = {c}
      <4>1. Cardinality(parity.rows) = 1 BY <2>5 DEF ParityUndecided
      <4>2. QED BY <2>2, <4>1, FS_Singleton
    <3>2. ParityIsTrue' BY <2>2, <2>5 DEF ParityIsTrue
    <3>3. QED
      BY <1>2, <2>1, <2>2, <2>3, <2>5, <3>1, <3>2 DEF ParityInv, Checking, Comparing, Closing
  <2>6. QED BY <1>6, <2>4, <2>5 DEF ParityCompare, Answer, Goto
<1> DEFINE s == parity.session
\* What the two comparisons keep.
<1>7. ASSUME Comparing \/ Closing, Comparing' \/ Closing', Comparing' => Comparing,
             UNCHANGED <<sized, result>>, ParityIsRecord',
             parity'.session = parity.session, parity'.size = parity.size,
             parity'.todo = parity.todo, parity'.rows = parity.rows,
             pc' = "suffixVerdict" => OneRow' /\ AtCursor' /\ at' \in Seq(Records),
             pc' = "exactVerdict" => OneRow' /\ AtEndOfRead' /\ at' \in Seq(Records)
      PROVE  ParityInv'
  <2>1. /\ parity.session \in Sessions /\ parity.todo \in Seq(Range(Stores))
        /\ IsFiniteSet(parity.rows) /\ RowsStand /\ SizedIsSize /\ result = "none"
        /\ \E c : parity.rows = {c}
    BY <1>3, <1>7 DEF Checking, ParityInv
  <2>2. RowsStand' /\ SizedIsSize' /\ Row' = Row
    BY <1>1, <1>7, <2>1 DEF RowsStand, SizedIsSize, Row
  <2>3. ParityIsTrue' BY <1>7, <2>1 DEF ParityIsTrue
  <2>4. Comparing => Row.offset < parity.size BY DEF ParityInv
  <2>5. Comparing' => Row'.offset < parity'.size BY <1>7, <2>2, <2>4
  <2>6. Checking' => /\ parity'.session \in Sessions /\ parity'.todo \in Seq(Range(Stores))
                     /\ IsFiniteSet(parity'.rows) /\ RowsStand' /\ SizedIsSize'
    BY <1>7, <2>1, <2>2
  <2>7. QED BY <1>2, <1>7, <2>1, <2>3, <2>5, <2>6 DEF ParityInv
<1>8. ASSUME Comparing \/ Closing
      PROVE  \E c : /\ parity.rows = {c} /\ Row = c /\ Stands(c, log[s])
                    /\ s \in Sessions /\ log[s] \in Seq(Records)
  <2>1. PICK c : parity.rows = {c} BY <1>8 DEF ParityInv
  <2>2. s \in Sessions /\ RowsStand BY <1>3, <1>8 DEF Checking
  <2>3. QED BY <1>2, <2>1, <2>2, RowIsOne DEF RowsStand, ParityHome
<1>9. ASSUME NEW here, NEW next, ParityStat(here, next),
             \/ here = "suffixStat" /\ next = "suffixRead"
             \/ here = "exactStat" /\ next = "exactRead"
      PROVE  ParityInv'
  <2>1. /\ parity' = [parity EXCEPT !.before = Stat(s)] /\ pc = here /\ pc' = next
        /\ UNCHANGED <<sized, at, result>>
    BY <1>9 DEF ParityStat, Goto
  <2>2. /\ ParityIsRecord' /\ parity'.session = parity.session /\ parity'.size = parity.size
        /\ parity'.todo = parity.todo /\ parity'.rows = parity.rows
    BY <1>2, <2>1 DEF ParityIsRecord
  <2>3. QED BY <1>9, <1>7, <2>1, <2>2 DEF Comparing, Closing
<1>10. CASE SuffixRead
  <2> DEFINE first == OrdinalAt(s, Row.offset, 1)
             second == IF first + 1 = Row.ordinal THEN OrdinalAt(s, Row.offset, 2) ELSE NoOrdinal
  <2>1. /\ parity' = [parity EXCEPT !.first = first, !.second = second]
        /\ at' = log[s] /\ pc = "suffixRead" /\ sized' = sized
        /\ IF parity'.first = NoOrdinal THEN Answer("unknown") ELSE Goto("suffixVerdict")
    BY <1>10 DEF SuffixRead
  <2>2. /\ ParityIsRecord' /\ parity'.session = parity.session /\ parity'.size = parity.size
        /\ parity'.todo = parity.todo /\ parity'.rows = parity.rows
        /\ parity'.first = first /\ parity'.second = second
    BY <1>2, <2>1 DEF ParityIsRecord
  <2>3. PICK c : /\ parity.rows = {c} /\ Row = c /\ Stands(c, log[s])
                 /\ s \in Sessions /\ log[s] \in Seq(Records)
    BY <1>8, <2>1 DEF Comparing
  <2>4. Row' = Row /\ OneRow' BY <2>1, <2>2, <2>3 DEF Row, OneRow
  <2>5. PICK n \in 1..Len(log[s]) : Row.offset = 2 * n BY <2>3 DEF Stands
  <2>6. n \in Nat /\ Row.offset \div 2 = n BY <2>3, <2>5, HalfOfTwice
  <2>7. /\ first = OrdinalIn(at', n + 1)
        /\ OrdinalAt(s, Row.offset, 2) = OrdinalIn(at', n + 2)
    <3>1. /\ OrdinalAt(s, 2 * n, 1) = OrdinalIn(log[s], n + 1)
          /\ OrdinalAt(s, 2 * n, 2) = OrdinalIn(log[s], n + 2)
      <4>1. 1 \in Nat /\ 2 \in Nat /\ n \in Nat BY <2>6
      <4>2. QED BY <4>1, OrdinalAtIs, Zenon
    <3>2. QED BY <2>1, <2>5, <3>1
  <2> HIDE DEF first
  <2>8. parity'.first # NoOrdinal => AtCursor' BY <2>2, <2>4, <2>6, <2>7 DEF AtCursor
  <2>9. CASE Goto("suffixVerdict") /\ parity'.first # NoOrdinal
    <3>1. pc' = "suffixVerdict" /\ result' = result BY <2>9 DEF Goto
    <3>2. QED BY <1>7, <2>1, <2>2, <2>3, <2>4, <2>8, <2>9, <3>1 DEF Comparing, Closing
  <2>10. CASE Answer("unknown")
    <3>1. pc' = "idle" /\ result' = "unknown" BY <2>10 DEF Answer
    <3>2. QED BY <1>2, <2>2, <3>1 DEF ParityInv, Checking, Comparing, Closing, ParityIsTrue
  <2>11. QED BY <2>1, <2>9, <2>10
<1>11. CASE ExactRead
  <2>1. /\ parity' = [parity EXCEPT !.first = LastOrdinal(s)] /\ at' = log[s]
        /\ pc = "exactRead" /\ pc' = "exactVerdict" /\ UNCHANGED <<sized, result>>
    BY <1>11 DEF ExactRead, Goto
  <2>2. /\ ParityIsRecord' /\ parity'.session = parity.session /\ parity'.size = parity.size
        /\ parity'.todo = parity.todo /\ parity'.rows = parity.rows
        /\ parity'.first = LastOrdinal(s)
    BY <1>2, <2>1 DEF ParityIsRecord
  <2>3. PICK c : /\ parity.rows = {c} /\ Row = c /\ Stands(c, log[s])
                 /\ s \in Sessions /\ log[s] \in Seq(Records)
    BY <1>8, <2>1 DEF Closing
  <2>4. OneRow' BY <2>1, <2>2, <2>3 DEF OneRow
  <2>5. Len(log[s]) \in Nat \ {0} BY <2>3 DEF Stands
  <2>6. LastOrdinal(s) # NoOrdinal => LastOrdinal(s) = log[s][Len(log[s])].ordinal
    <3>1. OrdinalAt(s, 2 * (Len(log[s]) - 1), 1) = OrdinalIn(log[s], (Len(log[s]) - 1) + 1)
      <4>1. Len(log[s]) - 1 \in Nat /\ 1 \in Nat BY <2>5
      <4>2. QED BY <4>1, OrdinalAtIs, Zenon
    <3>2. (Len(log[s]) - 1) + 1 = Len(log[s]) BY <2>5
    <3>3. QED BY <3>1, <3>2 DEF LastOrdinal, OrdinalIn
  <2>7. AtEndOfRead' BY <2>1, <2>2, <2>3, <2>5, <2>6 DEF AtEndOfRead
  <2>8. QED BY <1>7, <2>1, <2>2, <2>3, <2>4, <2>7 DEF Comparing, Closing
<1>12. ASSUME pc' = "idle", UNCHANGED parityVars, ParityIsTrue'
      PROVE  ParityInv'
  <2>1. ParityIsRecord' BY <1>2, <1>12 DEF ParityIsRecord, parityVars
  <2>2. QED BY <1>2, <1>12, <2>1 DEF ParityInv, Checking, Comparing, Closing
<1>13. CASE SuffixVerdict
  <2>1. /\ pc = "suffixVerdict" /\ pc' = "idle" /\ UNCHANGED parityVars
        /\ result' = IF Changed THEN "active_write" ELSE IF Wedged THEN "wedged" ELSE "unknown"
    BY <1>13 DEF SuffixVerdict, Answer
  <2>2. OneRow /\ AtCursor /\ at \in Seq(Records) /\ SizedIsSize /\ Row.offset < parity.size
    BY <1>3, <2>1 DEF ParityInv, Checking, Comparing
  <2>3. PICK c : parity.rows = {c} /\ Stands(c, at) BY <2>2 DEF OneRow
  <2>4. Row = c BY <2>3, RowIsOne
  <2>5. PICK n \in 1..Len(at) : c.offset = 2 * n /\ c.ordinal = at[n].ordinal + 1
    BY <2>3 DEF Stands
  <2>6. n \in Nat /\ Row.offset \div 2 = n BY <2>2, <2>4, <2>5, HalfOfTwice
  <2>7. n + 1 <= sized.lines \/ (sized.torn /\ n + 1 = sized.lines + 1)
    BY <2>2, <2>4, <2>5, <2>6 DEF SizedIsSize
  <2>8. ASSUME Wedged, Increasing(at)
        PROVE  at[n + 1].ordinal \in {Row.ordinal, Row.ordinal + 1}
    <3>1. /\ parity.first = OrdinalIn(at, n + 1) /\ parity.first # NoOrdinal
      BY <2>2, <2>6 DEF AtCursor
    <3>2. n + 1 \in 1..Len(at) /\ parity.first = at[n + 1].ordinal
      BY <2>2, <2>6, <3>1 DEF OrdinalIn
    <3>3. at[n] \in Records /\ at[n + 1] \in Records BY <2>2, <2>5, <3>2
    <3>4. at[n].ordinal \in Nat /\ at[n + 1].ordinal \in Nat BY <3>3 DEF Records
    <3>5. at[n].ordinal < at[n + 1].ordinal
      BY <2>2, <2>5, <2>6, <2>8, <3>2 DEF Increasing
    <3>6. parity.first + 1 # Row.ordinal BY <2>4, <2>5, <3>2, <3>4, <3>5
    <3>7. QED BY <2>8, <3>2, <3>6 DEF Wedged
  <2>9. ParityIsTrue'
    <3>1. UNCHANGED <<parity, sized, at>> /\ Row' = Row BY <2>1 DEF parityVars, Row
    <3>2. result' # "exact" /\ (result' = "wedged" => Wedged) BY <2>1
    <3>3. QED BY <2>6, <2>7, <2>8, <3>1, <3>2 DEF ParityIsTrue, Increasing
  <2>10. QED BY <1>12, <2>1, <2>9
<1>14. CASE ExactVerdict
  <2>1. /\ pc = "exactVerdict" /\ pc' = "idle" /\ UNCHANGED parityVars
        /\ result' = IF Changed THEN "active_write" ELSE IF AtEnd THEN "exact" ELSE "unknown"
    BY <1>14 DEF ExactVerdict, Answer
  <2>2. OneRow /\ AtEndOfRead /\ at \in Seq(Records) BY <2>1 DEF ParityInv
  <2>3. PICK c : parity.rows = {c} /\ Stands(c, at) BY <2>2 DEF OneRow
  <2>4. Row = c BY <2>3, RowIsOne
  <2>5. PICK n \in 1..Len(at) : c.offset = 2 * n /\ c.ordinal = at[n].ordinal + 1
    BY <2>3 DEF Stands
  <2>6. ASSUME AtEnd, Increasing(at) PROVE Row.offset = 2 * Len(at)
    <3>1. parity.first = at[Len(at)].ordinal /\ parity.first + 1 = Row.ordinal
      BY <2>2, <2>6 DEF AtEnd, AtEndOfRead
    <3>2. Len(at) \in 1..Len(at) /\ DOMAIN at = 1..Len(at) BY <2>2, <2>5
    <3>3. at[n] \in Records /\ at[Len(at)] \in Records BY <2>2, <2>5, <3>2
    <3>4. at[n].ordinal \in Nat /\ at[Len(at)].ordinal \in Nat BY <3>3 DEF Records
    <3>5. ~(n < Len(at)) BY <2>4, <2>5, <2>6, <3>1, <3>2, <3>4 DEF Increasing
    <3>6. n = Len(at) BY <2>2, <2>5, <3>5
    <3>7. QED BY <2>4, <2>5, <3>6
  <2>7. ParityIsTrue'
    <3>1. UNCHANGED <<parity, sized, at>> /\ Row' = Row BY <2>1 DEF parityVars, Row
    <3>2. result' # "wedged" /\ (result' = "exact" => AtEnd) BY <2>1
    <3>3. QED BY <2>6, <3>1, <3>2 DEF ParityIsTrue, Increasing
  <2>8. QED BY <1>12, <2>1, <2>7
<1>15. QED BY <1>4, <1>5, <1>6, <1>9, <1>10, <1>11, <1>13, <1>14 DEF ParityStep

LEMMA ParityKept == ParityInv /\ [ParityNext]_parityAll => ParityInv'
<1> SUFFICES ASSUME ParityInv, [ParityNext]_parityAll PROVE ParityInv' OBVIOUS
<1>1. CASE ParityStep BY <1>1, ParityUnderCheck
<1>2. CASE HomeTurn /\ UNCHANGED parityVars BY <1>2, ParityUnderCodex
<1>3. CASE UNCHANGED parityAll
  <2>1. UNCHANGED <<parity, sized, at, pc, result, log, torn, cursor>>
    BY <1>3 DEF parityAll, parityVars, home
  <2>2. /\ ParityHome' <=> ParityHome
        /\ ParityIsRecord' <=> ParityIsRecord
        /\ RowsStand' <=> RowsStand
        /\ SizedIsSize' <=> SizedIsSize
        /\ OneRow' <=> OneRow
        /\ AtEndOfRead' <=> AtEndOfRead
        /\ Row' = Row
    BY <2>1 DEF ParityHome, ParityIsRecord, RowsStand, SizedIsSize, OneRow, AtEndOfRead, Row
  <2>3. /\ AtCursor' <=> AtCursor
        /\ ParityIsTrue' <=> ParityIsTrue
    BY <2>1, <2>2 DEF AtCursor, ParityIsTrue
  <2>4. QED BY <2>1, <2>2, <2>3 DEF ParityInv, Checking, Comparing, Closing
<1>4. QED BY <1>1, <1>2, <1>3 DEF ParityNext

\* For any rollout, stores and turns of Codex between the reads: an exact cursor stood at
\* the end of the rollout read last, and a wedged one had its next record in the rollout
\* before it was read, unless Codex repeats ordinals (projection.py, alpha5.py).
THEOREM ParityIsTrueHolds == ParitySpec => []ParityIsTrue
<1>1. ParityInv => ParityIsTrue BY DEF ParityInv
<1>2. QED BY ParityKept, <1>1, ParityInitially, PTL
          DEF ParitySpec, ParityBegin, ParityNext, parityAll

-----------------------------------------------------------------------------
(* The family of a session.                                                *)

lifeAll == <<home, pc, result, lifeVars>>
LifeNext == LifeStep \/ (HomeTurn /\ LifeWatch)
LifeStart == HomeInit /\ pc = "idle" /\ result = "none" /\ LifeInit

Edges == {"unrecorded", "open", "closed"}
LifeHome ==
    /\ place \in [Sessions -> Places]
    /\ alive \in [Sessions -> BOOLEAN]
    /\ edge \in [Sessions -> Edges]

\* The sessions still to look for are no deeper than the graph may be.
Todos == [session : Sessions, parent : Ids, depth : 0..MaxDepth, folder : Places]
LifeTyped ==
    /\ LifeHome
    /\ visit \in Visits /\ todo \in Seq(Todos) /\ during \subseteq Truths
    /\ \A n \in nodes : n \in Nodes

\* What is the case now is part of what was the case since the visit began.
Visited == pc \in {"lifeEvidence", "lifeScan", "lifeEdge", "lifeNext"}
Present ==
    /\ Visited => visit.session \in Sessions
    /\ visit.session # "none" => Truth(visit.session) \in during

\* What lock and rollout said was the case at some time of the visit.
ReadWasTrue ==
    /\ visit.alive => \E t \in during : t.alive
    /\ pc \in {"lifeScan", "lifeEdge"} /\ ~visit.alive => \E t \in during : ~t.alive
    /\ visit.turn # "UNKNOWN" => \E t \in during : t.turn = visit.turn

Reading == pc \in {"lifeEvidence", "lifeScan", "lifeEdge"}
Judged ==
    /\ visit.class = "WORKING" =>
          (\E t \in during : t.alive) /\ (\E t \in during : t.turn = "NON_TERMINAL")
    /\ visit.class = "DONE" => \E t \in during : t.turn = "TERMINAL"
    /\ visit.class = "INACTIVE" => \E t \in during : IsClosed(t)
    /\ visit.edgeRead /\ (\A t \in during : IsClosed(t)) =>
          visit.class \in {"INACTIVE", "UNKNOWN"}
    /\ (\A t \in during : IsWorking(t)) => visit.class \in {"none", "WORKING", "UNKNOWN"}
ClassIsTrue ==
    /\ Reading => visit.class = "none" /\ ~visit.edgeRead
    /\ pc = "lifeNext" => Judged

\* A session is looked at before it is a member, and never after.
NodesAreNew ==
    /\ \A m, n \in nodes : m.session = n.session => m = n
    /\ \A n \in nodes : n.depth <= MaxDepth
    /\ Reading =>
          visit.depth <= MaxDepth /\ \A n \in nodes : n.session # visit.session

LifeInv == LifeTyped /\ Present /\ ReadWasTrue /\ ClassIsTrue /\ NodesAreNew

LEMMA ClassTable ==
    ASSUME NEW turn, NEW live \in BOOLEAN, NEW status
    PROVE  Class(turn, live, status) =
             IF status = "closed" THEN IF live THEN "UNKNOWN" ELSE "INACTIVE"
             ELSE IF live THEN IF turn = "NON_TERMINAL" THEN "WORKING" ELSE "UNKNOWN"
             ELSE IF turn = "TERMINAL" THEN "DONE" ELSE "UNKNOWN"
<1>1. CASE status = "closed" BY <1>1, Zenon DEF Class
<1>2. CASE status # "closed" /\ live BY <1>2, Zenon DEF Class
<1>3. CASE status # "closed" /\ ~live BY <1>3, Zenon DEF Class
<1>4. QED BY <1>1, <1>2, <1>3

LEMMA ThreadIsId ==
    ASSUME NEW s \in Sessions, NEW read
    PROVE  ResolveThread(s, read).thread \in Ids
<1> DEFINE id == IF read THEN claim[s] ELSE "absent"
           answer == ResolveThread(s, read)
<1>1. answer \in {Thread(s), NoThread, Thread("other"), [NoThread EXCEPT !.conflict = TRUE]}
  <2>1. CASE id = "own" BY <2>1, Zenon DEF ResolveThread
  <2>2. CASE id = "other" /\ s \in named BY <2>2, Zenon DEF ResolveThread
  <2>3. CASE id = "other" /\ s \notin named BY <2>3, Zenon DEF ResolveThread
  <2>4. CASE id \in {"absent", "session"} /\ s \in named BY <2>4, Zenon DEF ResolveThread
  <2>5. CASE id = "session" /\ s \notin named BY <2>5, Zenon DEF ResolveThread
  <2>6. CASE id \notin {"own", "other", "session"} /\ s \notin named
    BY <2>6, Zenon DEF ResolveThread
  <2>7. CASE id \notin {"own", "other", "absent", "session"} BY <2>7, Zenon DEF ResolveThread
  <2>8. QED BY <2>1, <2>2, <2>3, <2>4, <2>5, <2>6, <2>7
<1> HIDE DEF answer
<1>2. answer.thread \in {s, "none", "other"} BY <1>1 DEF Thread, NoThread
<1>3. QED BY <1>2 DEF answer, Ids

LEMMA TruthIsTruth ==
    ASSUME LifeHome, NEW s \in Sessions
    PROVE  Truth(s) \in Truths
<1>1. LastTurn(s) \in {"NON_TERMINAL", "TERMINAL", "UNKNOWN"} BY DEF LastTurn
<1>2. QED BY <1>1 DEF Truth, Truths, LifeHome, Edges

LEMMA TurnKeepsLifeHome ==
    ASSUME LifeHome, HomeTurn
    PROVE  LifeHome' /\ pc' = pc /\ result' = result
<1> USE DEF LifeHome, Turn
<1>1. "sessions" \in Places BY DEF Places, Folders, Range
<1>2. CASE \E s \in Sessions, r \in Records : WriteLine(s, r) BY <1>2 DEF WriteLine
<1>3. CASE \E s \in Sessions : Tear(s) BY <1>3 DEF Tear
<1>4. CASE \E s \in Sessions : Create(s) BY <1>1, <1>4 DEF Create
<1>5. CASE \E s \in Sessions, to \in Places : Move(s, to) BY <1>5 DEF Move
<1>6. CASE \E s \in Sessions, value \in Rows : WriteRow(s, value) BY <1>6 DEF WriteRow
<1>7. CASE \E s \in Sessions, d \in Range(Stores), n \in 1..Lines : Project(s, d, n)
  BY <1>7 DEF Project
<1>8. CASE \E s \in Sessions, value \in Edges : SetEdge(s, value) BY <1>8 DEF SetEdge
<1>9. CASE \E s \in Sessions, value \in BOOLEAN : SetAlive(s, value) BY <1>9 DEF SetAlive
<1>10. CASE \E value \in BOOLEAN : SetReadable(value) BY <1>10 DEF SetReadable
<1>11. QED
  BY <1>2, <1>3, <1>4, <1>5, <1>6, <1>7, <1>8, <1>9, <1>10 DEF HomeTurn, Edges

LEMMA LifeInitially == LifeStart => LifeInv
<1> SUFFICES ASSUME LifeStart PROVE LifeInv OBVIOUS
<1> USE DEF LifeStart, HomeInit, LifeInit
<1>1. LifeHome BY DEF LifeHome, Edges
<1>2. visit \in Visits /\ todo \in Seq(Todos) BY DEF NoVisit, Visits, Ids, Places
<1>3. QED BY <1>1, <1>2 DEF LifeInv, LifeTyped, Present, Visited, ReadWasTrue, ClassIsTrue,
             NodesAreNew, Reading, NoVisit

\* A turn adds to what was the case, and changes nothing that was read.
LEMMA LifeUnderCodex ==
    ASSUME LifeInv, HomeTurn, LifeWatch
    PROVE  LifeInv'
<1>1. LifeHome' /\ pc' = pc /\ result' = result
  BY TurnKeepsLifeHome DEF LifeInv, LifeTyped
<1>2. visit' = visit /\ todo' = todo /\ nodes' = nodes BY DEF LifeWatch
<1>3. during \subseteq during' /\ (visit.session # "none" => Truth(visit.session)' \in during')
  BY DEF LifeWatch
<1>4. LifeTyped'
  <2>1. CASE visit.session = "none"
    BY <1>1, <1>2, <2>1 DEF LifeInv, LifeTyped, LifeWatch
  <2>2. CASE visit.session # "none"
    <3>1. visit.session \in Sessions BY <2>2 DEF LifeInv, LifeTyped, Visits
    <3>2. ASSUME NEW s \in Sessions PROVE Truth(s)' \in Truths
      <4>1. (LastTurn(s) \in {"NON_TERMINAL", "TERMINAL", "UNKNOWN"})' BY DEF LastTurn
      <4>2. QED BY <1>1, <4>1 DEF Truth, Truths, LifeHome, Edges
    <3>3. Truth(visit.session)' \in Truths BY <1>2, <3>1, <3>2
    <3>4. QED BY <1>1, <1>2, <2>2, <3>3 DEF LifeInv, LifeTyped, LifeWatch
  <2>3. QED BY <2>1, <2>2
<1>5. Present' BY <1>1, <1>2, <1>3 DEF LifeInv, Present, Visited
<1>6. ReadWasTrue' BY <1>1, <1>2, <1>3 DEF LifeInv, ReadWasTrue
<1>7. ClassIsTrue' BY <1>1, <1>2, <1>3 DEF LifeInv, ClassIsTrue, Reading, Judged
<1>8. NodesAreNew' BY <1>1, <1>2 DEF LifeInv, NodesAreNew, Reading
<1>9. QED BY <1>4, <1>5, <1>6, <1>7, <1>8 DEF LifeInv

LEMMA LifeHomeStill ==
    ASSUME UNCHANGED home
    PROVE  /\ LifeHome => LifeHome'
           /\ \A s : Truth(s)' = Truth(s)
<1>1. UNCHANGED <<place, alive, edge, log>> BY DEF home
<1>2. ASSUME NEW s PROVE Truth(s)' = Truth(s)
  BY <1>1 DEF Truth, LastTurn
<1>3. QED BY <1>1, <1>2 DEF LifeHome

\* A visit begins.
LEMMA VisitBegins ==
    ASSUME LifeInv, UNCHANGED home, NEW s \in Sessions, NEW parent \in Ids,
           NEW depth \in 0..MaxDepth, NEW folder \in Places, Visit(s, parent, depth, folder),
           pc' = "lifeEvidence", todo' \in Seq(Todos), nodes' \in {nodes, {}},
           \A n \in nodes' : n.session # s
    PROVE  LifeInv'
<1>1. /\ visit' = [NoVisit EXCEPT !.session = s, !.parent = parent, !.depth = depth,
                                  !.folder = folder]
      /\ during' = {Truth(s)}
  BY DEF Visit
<1>2. MaxDepth \in Nat BY LifecycleAssumption
<1>3. /\ visit' \in Visits /\ visit'.session = s /\ visit'.depth = depth /\ ~visit'.alive
      /\ visit'.turn = "UNKNOWN" /\ visit'.class = "none" /\ ~visit'.edgeRead
  <2>1. visit' = [session |-> s, id |-> "none", parent |-> parent, depth |-> depth,
                  folder |-> folder, there |-> FALSE, alive |-> FALSE, turn |-> "UNKNOWN",
                  stores |-> <<>>, edgeRead |-> FALSE, class |-> "none"]
    BY <1>1 DEF NoVisit
  <2>2. "none" \in Ids /\ depth \in Nat /\ <<>> \in Seq(Range(Stores)) BY <1>2 DEF Ids
  <2>3. QED BY <2>1, <2>2 DEF Visits
<1>4. LifeTyped'
  BY <1>1, <1>3, LifeHomeStill, TruthIsTruth DEF LifeInv, LifeTyped
<1>5. Present'
  <2>1. Truth(s)' = Truth(s) BY LifeHomeStill
  <2>2. visit'.session \in Sessions /\ Truth(s)' \in during' BY <1>1, <1>3, <2>1
  <2>3. Truth(visit.session)' = Truth(s)' BY <1>3 DEF Truth, LastTurn
  <2>4. QED BY <2>2, <2>3 DEF Present
<1>6. ReadWasTrue' /\ ClassIsTrue' BY <1>3 DEF ReadWasTrue, ClassIsTrue
<1>7. NodesAreNew' BY <1>2, <1>3 DEF LifeInv, NodesAreNew, Reading
<1>8. QED BY <1>4, <1>5, <1>6, <1>7 DEF LifeInv

\* A step of the visit itself: it stays with its session, and what was the case does too.
LEMMA VisitGoesOn ==
    ASSUME LifeInv, UNCHANGED <<home, during>>, visit' \in Visits,
           visit'.session = visit.session, visit'.depth = visit.depth,
           todo' \in Seq(Todos), \A n \in nodes' : n \in Nodes,
           Visited, Visited' \/ pc' = "idle",
           ReadWasTrue', ClassIsTrue', NodesAreNew'
    PROVE  LifeInv'
<1>1. LifeTyped' BY LifeHomeStill DEF LifeInv, LifeTyped
<1>2. Present'
  <2>1. visit.session \in Sessions /\ Truth(visit.session) \in during
    <3>1. visit.session \in Sessions BY DEF LifeInv, Present
    <3>2. QED BY <3>1, HomeAssumption DEF LifeInv, Present
  <2>2. \A s : Truth(s)' = Truth(s) BY LifeHomeStill
  <2>3. Truth(visit.session)' = Truth(visit.session)
    <3>1. UNCHANGED <<alive, edge, log>> BY DEF home
    <3>2. QED BY <3>1 DEF Truth, LastTurn
  <2>4. QED BY <2>1, <2>3 DEF Present, Visited
<1>3. QED BY <1>1, <1>2 DEF LifeInv

LEMMA LifeUnderGraph ==
    ASSUME LifeInv, LifeStep
    PROVE  LifeInv'
<1>1. UNCHANGED home /\ MaxDepth \in Nat BY LifecycleAssumption DEF LifeStep
<1> USE <1>1
<1>2. CASE \E s \in Sessions : GraphStart(s)
  <2> PICK s \in Sessions : GraphStart(s) BY <1>2
  <2>1. place[s] \in Places BY DEF LifeInv, LifeTyped, LifeHome
  <2>2. "none" \in Ids /\ 0 \in 0..MaxDepth BY DEF Ids
  <2>3. Visit(s, "none", 0, place[s]) /\ todo' = <<>> /\ nodes' = {} /\ pc' = "lifeEvidence"
    BY DEF GraphStart
  <2>4. QED BY <2>1, <2>2, <2>3, VisitBegins
<1>3. CASE NextChild
  <2> DEFINE t == Head(todo)
             found == Unseen(t) /\ t.session \in named /\ place[t.session] = t.folder
  <2>1. t \in Todos /\ Tail(todo) \in Seq(Todos)
    BY <1>3 DEF NextChild, LifeInv, LifeTyped
  <2>2. todo' = Tail(todo) /\ nodes' = nodes BY <1>3 DEF NextChild
  <2>3. CASE found
    <3>1. Visit(t.session, t.parent, t.depth, t.folder) /\ pc' = "lifeEvidence"
      BY <1>3, <2>3 DEF NextChild, Goto
    <3>2. \A n \in nodes : n.session # t.session BY <2>3 DEF Unseen
    <3>3. t.session \in Sessions /\ t.parent \in Ids /\ t.depth \in 0..MaxDepth
          /\ t.folder \in Places
      BY <2>1 DEF Todos
    <3> HIDE DEF t
    <3>4. QED BY <2>1, <2>2, <3>1, <3>2, <3>3, VisitBegins
  <2>4. CASE ~found
    <3>1. visit' = visit /\ during' = during /\ pc = "lifeNext" /\ pc' = "lifeNext"
      BY <1>3, <2>4 DEF NextChild, Goto
    <3>2. ReadWasTrue' /\ ClassIsTrue' /\ NodesAreNew'
      BY <2>2, <3>1 DEF LifeInv, ReadWasTrue, ClassIsTrue, NodesAreNew, Reading, Judged
    <3>3. visit \in Visits /\ \A n \in nodes : n \in Nodes BY DEF LifeInv, LifeTyped
    <3>4. Visited /\ Visited' BY <3>1 DEF Visited
    <3>5. QED BY <2>1, <2>2, <3>1, <3>2, <3>3, <3>4, VisitGoesOn
  <2>5. QED BY <2>3, <2>4
<1> DEFINE s == visit.session
<1>4. ASSUME Visited PROVE s \in Sessions /\ visit \in Visits /\ Truth(s) \in during
  <2>1. s \in Sessions /\ visit \in Visits BY <1>4 DEF LifeInv, Present, LifeTyped
  <2>2. QED BY <2>1, HomeAssumption DEF LifeInv, Present
<1>5. todo \in Seq(Todos) /\ (\A n \in nodes : n \in Nodes) /\ LifeHome
  BY DEF LifeInv, LifeTyped
<1>6. CASE LifeEvidence
  <2> DEFINE there == place[s] = visit.folder
             id == ResolveThread(s, there).thread
  <2> PICK parent \in IF visit.depth = 0 /\ there THEN {"none", Spawned[s], "other"}
                                                   ELSE {visit.parent} :
           visit' = [visit EXCEPT !.id = id, !.parent = parent, !.there = there,
                                  !.alive = alive[s]]
    BY <1>6 DEF LifeEvidence
  <2>1. /\ pc = "lifeEvidence" /\ pc' \in {"lifeScan", "lifeNext"}
        /\ UNCHANGED <<todo, nodes, during>>
    BY <1>6 DEF LifeEvidence, Goto
  <2>2. Visited /\ Visited' BY <2>1 DEF Visited
  <2>3. s \in Sessions /\ visit \in Visits /\ Truth(s) \in during BY <1>4, <2>2
  <2>4. id \in Ids /\ alive[s] \in BOOLEAN /\ there \in BOOLEAN
    BY <1>5, <2>3, ThreadIsId DEF LifeHome
  <2>5. parent \in Ids
    <3>1. Spawned[s] \in Ids /\ visit.parent \in Ids
      BY <2>3, LifecycleAssumption DEF Visits, Ids
    <3>2. QED BY <3>1 DEF Ids
  <2> HIDE DEF id, there
  <2>6. /\ visit' \in Visits /\ visit'.session = s /\ visit'.depth = visit.depth
        /\ visit'.alive = alive[s] /\ visit'.turn = visit.turn /\ visit'.class = visit.class
        /\ visit'.edgeRead = visit.edgeRead
    BY <2>3, <2>4, <2>5 DEF Visits
  <2>7. ReadWasTrue'
    <3>1. Truth(s).alive = alive[s] BY DEF Truth
    <3>2. QED BY <2>1, <2>3, <2>6, <3>1 DEF LifeInv, ReadWasTrue
  <2>8. ClassIsTrue' /\ NodesAreNew'
    <3>1. Judged' BY <2>1, <2>6 DEF LifeInv, ClassIsTrue, Reading, Judged
    <3>2. ClassIsTrue' BY <2>1, <2>6, <3>1 DEF LifeInv, ClassIsTrue, Reading
    <3>3. NodesAreNew' BY <2>1, <2>6 DEF LifeInv, NodesAreNew, Reading
    <3>4. QED BY <3>2, <3>3
  <2>9. QED BY <1>5, <2>1, <2>2, <2>6, <2>7, <2>8, VisitGoesOn
<1>7. CASE LifeScan
  <2> DEFINE turn == IF place[s] = visit.folder THEN DurableState(s) ELSE "UNKNOWN"
  <2>1. /\ visit' = [visit EXCEPT !.turn = turn, !.stores = Stores]
        /\ pc = "lifeScan" /\ pc' = "lifeEdge" /\ UNCHANGED <<todo, nodes, during>>
    BY <1>7 DEF LifeScan, Goto
  <2>2. Visited /\ Visited' BY <2>1 DEF Visited
  <2>3. s \in Sessions /\ visit \in Visits /\ Truth(s) \in during BY <1>4, <2>2
  <2>4. turn \in {"NON_TERMINAL", "TERMINAL", "UNKNOWN"} /\ turn \in {"UNKNOWN", Truth(s).turn}
    <3>1. LastTurn(s) \in {"NON_TERMINAL", "TERMINAL", "UNKNOWN"} BY DEF LastTurn
    <3>2. DurableState(s) \in {"UNKNOWN", LastTurn(s)} BY DEF DurableState
    <3>3. Truth(s).turn = LastTurn(s) BY DEF Truth
    <3>4. QED BY <3>1, <3>2, <3>3
  <2> HIDE DEF turn
  <2>5. /\ visit' \in Visits /\ visit'.session = s /\ visit'.depth = visit.depth
        /\ visit'.alive = visit.alive /\ visit'.turn = turn /\ visit'.class = visit.class
        /\ visit'.edgeRead = visit.edgeRead
    BY <2>1, <2>3, <2>4, StoresAreStores DEF Visits
  <2>6. ReadWasTrue' BY <2>1, <2>3, <2>4, <2>5 DEF LifeInv, ReadWasTrue
  <2>7. ClassIsTrue' BY <2>1, <2>5 DEF LifeInv, ClassIsTrue, Reading
  <2>8. NodesAreNew' BY <2>1, <2>5 DEF LifeInv, NodesAreNew, Reading
  <2>9. QED BY <1>5, <2>1, <2>2, <2>5, <2>6, <2>7, <2>8, VisitGoesOn
<1>8. CASE LifeEdge
  <2>1. pc = "lifeEdge" /\ Visited /\ during' = during BY <1>8 DEF LifeEdge, Visited
  <2>2. s \in Sessions /\ visit \in Visits /\ Truth(s) \in during BY <1>4, <2>1
  <2> DEFINE status == IF visit.stores = <<>> THEN "unknown" ELSE EdgeStatus(Head(visit.stores))
  <2>3. CASE status = "next"
    <3>1. /\ visit' = [visit EXCEPT !.stores = Tail(visit.stores)] /\ pc' = "lifeEdge"
          /\ UNCHANGED <<todo, nodes>>
      BY <1>8, <2>3 DEF LifeEdge, Goto
    <3>2. visit.stores # <<>> BY <2>3
    <3>3. visit.stores \in Seq(Range(Stores)) BY <2>2 DEF Visits
    <3>4. Tail(visit.stores) \in Seq(Range(Stores)) BY <3>2, <3>3
    <3>5. /\ visit' \in Visits /\ visit'.session = s /\ visit'.depth = visit.depth
          /\ visit'.alive = visit.alive /\ visit'.turn = visit.turn
          /\ visit'.class = visit.class /\ visit'.edgeRead = visit.edgeRead
      BY <2>2, <3>1, <3>4 DEF Visits
    <3>6. ReadWasTrue' BY <2>1, <3>1, <3>5 DEF LifeInv, ReadWasTrue
    <3>7. ClassIsTrue' BY <2>1, <3>1, <3>5 DEF LifeInv, ClassIsTrue, Reading
    <3>8. NodesAreNew' BY <2>1, <3>1, <3>5 DEF LifeInv, NodesAreNew, Reading
    <3>9. Visited' BY <3>1 DEF Visited
    <3>10. QED BY <1>5, <2>1, <3>1, <3>5, <3>6, <3>7, <3>8, <3>9, VisitGoesOn
  <2>4. CASE status # "next"
    <3> DEFINE read  == status # "unknown" /\ visit.id = s
               class == Class(visit.turn, visit.alive, status)
               node  == [session |-> s, parent |-> visit.parent, depth |-> visit.depth]
    <3>1. /\ visit' = [visit EXCEPT !.edgeRead = read, !.class = class]
          /\ nodes' = nodes \cup {node} /\ todo' = Children \o todo /\ pc' = "lifeNext"
      BY <1>8, <2>4 DEF LifeEdge, Goto
    <3>2. edge[s] = Truth(s).edge /\ edge[s] \in Edges BY <1>5, <2>2 DEF Truth, LifeHome
    <3>3. /\ status = "closed" => edge[s] = "closed"
          /\ read => status \in {"unrecorded", edge[s]}
          /\ read /\ status = "unrecorded" => edge[s] = "unrecorded"
      BY <2>4, <3>2 DEF EdgeStatus, Edges
    <3> HIDE DEF status
    <3>4. class = IF status = "closed" THEN IF visit.alive THEN "UNKNOWN" ELSE "INACTIVE"
                  ELSE IF visit.alive
                       THEN IF visit.turn = "NON_TERMINAL" THEN "WORKING" ELSE "UNKNOWN"
                  ELSE IF visit.turn = "TERMINAL" THEN "DONE" ELSE "UNKNOWN"
      BY <2>2, ClassTable DEF Visits
    <3> HIDE DEF class, read
    <3>5. /\ visit' \in Visits /\ visit'.session = s /\ visit'.depth = visit.depth
          /\ visit'.alive = visit.alive /\ visit'.turn = visit.turn
          /\ visit'.class = class /\ visit'.edgeRead = read
      <4>1. class \in Classes BY <3>4 DEF Classes
      <4>2. read \in BOOLEAN BY DEF read
      <4>3. QED BY <2>2, <3>1, <4>1, <4>2 DEF Visits
    <3>6. ReadWasTrue'
      BY <2>1, <3>1, <3>5 DEF LifeInv, ReadWasTrue
    <3>7. ClassIsTrue'
      <4>1. /\ visit.alive => \E t \in during : t.alive
            /\ ~visit.alive => \E t \in during : ~t.alive
            /\ visit.turn # "UNKNOWN" => \E t \in during : t.turn = visit.turn
        BY <2>1 DEF LifeInv, ReadWasTrue
      <4>2. class = "WORKING" =>
              (\E t \in during : t.alive) /\ (\E t \in during : t.turn = "NON_TERMINAL")
        BY <3>4, <4>1
      <4>3. class = "DONE" => \E t \in during : t.turn = "TERMINAL" BY <3>4, <4>1
      <4>4. class = "INACTIVE" => \E t \in during : IsClosed(t)
        BY <2>2, <3>2, <3>3, <3>4 DEF IsClosed
      <4>5. read /\ (\A t \in during : IsClosed(t)) => class \in {"INACTIVE", "UNKNOWN"}
        BY <2>2, <3>2, <3>3, <3>4 DEF IsClosed
      <4>6. (\A t \in during : IsWorking(t)) => class \in {"WORKING", "UNKNOWN"}
        BY <2>2, <3>2, <3>3, <3>4, <4>1 DEF IsWorking, IsClosed
      <4>7. Judged' BY <2>1, <3>5, <4>2, <4>3, <4>4, <4>5, <4>6 DEF Judged
      <4>8. QED BY <3>1, <4>7 DEF ClassIsTrue, Reading
    <3>8. NodesAreNew'
      <4>1. visit.depth <= MaxDepth /\ \A n \in nodes : n.session # s
        BY <2>1 DEF LifeInv, NodesAreNew, Reading
      <4>2. QED BY <3>1, <4>1 DEF LifeInv, NodesAreNew, Reading
    <3>9. node \in Nodes BY <2>2 DEF Nodes, Visits
    <3>10. todo' \in Seq(Todos)
      <4> DEFINE child(i) == [session |-> Hints[s][i], parent |-> visit.id,
                              depth |-> visit.depth + 1, folder |-> visit.folder]
      <4>1. Children \in Seq(Todos)
        <5>1. CASE visit.depth >= MaxDepth \/ ~visit.there BY <5>1 DEF Children
        <5>2. CASE ~(visit.depth >= MaxDepth \/ ~visit.there)
          <6>1. Children = [i \in DOMAIN Hints[s] |-> child(i)] BY <5>2 DEF Children
          <6>2. Hints[s] \in Seq(Sessions) BY <2>2, LifecycleAssumption
          <6>3. /\ DOMAIN Hints[s] = 1..Len(Hints[s]) /\ Len(Hints[s]) \in Nat
                /\ \A i \in 1..Len(Hints[s]) : Hints[s][i] \in Sessions
            BY <6>2
          <6>4. visit.depth + 1 \in 0..MaxDepth /\ visit.id \in Ids /\ visit.folder \in Places
            BY <2>2, <5>2 DEF Visits
          <6>5. \A i \in 1..Len(Hints[s]) : child(i) \in Todos BY <6>3, <6>4 DEF Todos
          <6> HIDE DEF child
          <6>6. Children \in [1..Len(Hints[s]) -> Todos] BY <6>1, <6>3, <6>5
          <6>7. QED BY <6>3, <6>6
        <5>3. QED BY <5>1, <5>2
      <4>2. QED BY <1>5, <3>1, <4>1
    <3>11. Visited' BY <3>1 DEF Visited
    <3>12. \A n \in nodes' : n \in Nodes BY <1>5, <3>1, <3>9
    <3>13. QED
      BY <2>1, <3>5, <3>6, <3>7, <3>8, <3>10, <3>11, <3>12, VisitGoesOn
  <2>5. QED BY <2>3, <2>4
<1>9. CASE LifeDone
  <2>1. pc = "lifeNext" /\ pc' = "idle" /\ UNCHANGED lifeVars BY <1>9 DEF LifeDone, Answer
  <2>2. UNCHANGED <<visit, todo, nodes, during>> /\ Visited BY <2>1 DEF lifeVars, Visited
  <2>3. ReadWasTrue' /\ ClassIsTrue' /\ NodesAreNew'
    BY <2>1, <2>2 DEF LifeInv, ReadWasTrue, ClassIsTrue, NodesAreNew, Reading
  <2>4. s \in Sessions /\ visit \in Visits BY <1>4, <2>2
  <2>5. QED BY <1>5, <2>1, <2>2, <2>3, <2>4, VisitGoesOn
<1>10. QED BY <1>2, <1>3, <1>6, <1>7, <1>8, <1>9 DEF LifeStep

LEMMA LifeKept == LifeInv /\ [LifeNext]_lifeAll => LifeInv'
<1> SUFFICES ASSUME LifeInv, [LifeNext]_lifeAll PROVE LifeInv' OBVIOUS
<1>1. CASE LifeStep BY <1>1, LifeUnderGraph
<1>2. CASE HomeTurn /\ LifeWatch BY <1>2, LifeUnderCodex
<1>3. CASE UNCHANGED lifeAll
  <2>1. UNCHANGED <<visit, todo, nodes, during, pc, place, alive, edge, log>>
    BY <1>3 DEF lifeAll, lifeVars, home
  <2>2. LifeTyped' BY <2>1 DEF LifeInv, LifeTyped, LifeHome
  <2>3. Present'
    <3>1. Truth(visit.session)' = Truth(visit.session) BY <2>1 DEF Truth, LastTurn
    <3>2. QED BY <2>1, <3>1 DEF LifeInv, Present, Visited
  <2>4. ReadWasTrue' /\ NodesAreNew'
    BY <2>1 DEF LifeInv, ReadWasTrue, NodesAreNew, Reading
  <2>5. ClassIsTrue' BY <2>1 DEF LifeInv, ClassIsTrue, Reading, Judged
  <2>6. QED BY <2>2, <2>3, <2>4, <2>5 DEF LifeInv
<1>4. QED BY <1>1, <1>2, <1>3 DEF LifeNext

\* For any families, databases and turns of Codex: what build_session_graph makes of a
\* member's lock, rollout and edge was the case while it looked at the member, and no
\* member is shown twice or too deep (graph.py, lifecycle_truth.py).
THEOREM GraphIsTrueHolds == GraphSpec => []GraphIsTrue
<1>1. LifeInv => GraphIsTrue
  BY DEF LifeInv, ClassIsTrue, Judged, NodesAreNew, GraphIsTrue, Always, Once
<1>2. QED BY LifeKept, <1>1, LifeInitially, PTL
          DEF GraphSpec, LifeStart, LifeNext, lifeAll

-----------------------------------------------------------------------------
(* The cache of the batch doctor.  A write gives a rollout a later mtime    *)
(* than it had; so as long as the mtime is that of the fingerprint, what    *)
(* was read since is what is there.                                         *)

Exception == "SCAN_EXCEPTION"

\* The state of the home the proof speaks of: no mtime is later than now.
Clocks ==
    /\ turns \in Nat
    /\ place \in [Sessions -> Places]
    /\ log \in [Sessions -> Seq(Records)]
    /\ torn \in [Sessions -> BOOLEAN]
    /\ mtime \in [Sessions -> Nat]
    /\ \A s \in Sessions : mtime[s] <= turns

\* A verdict kept under an mtime is the one on the rollout that still has it.
Dated(path, time, status) ==
    /\ path \in Paths /\ time \in Nat
    /\ time <= mtime[path.session]
    /\ time = mtime[path.session] => status \in {Verdict(path.session), Exception}
EntriesAreDated ==
    \A e \in cache \cup newCache : Dated(e.path, e.print.mtime, e.status)

Examining == {"doctorSample", "doctorLookup", "doctorParse", "doctorBefore", "doctorScan",
              "doctorAfter"}
NowIsPath == pc \in Examining => Now \in Paths

\* Whether the fingerprint of the rollout examined now has been taken.
Fingerprinted == pc = "doctorSample" \/ (pc \in Examining /\ batch.print # NoPrint)

\* The entries of this rollout and this mtime say what is there.
EntriesAreOfNow ==
    Fingerprinted /\ pc \in {"doctorSample", "doctorLookup"} =>
       \A e \in cache : e.path = Now /\ e.print.mtime = batch.print.mtime =>
          e.status \in {printed, Exception}

\* What the examination has read so far.
ReadIsOfNow ==
    Fingerprinted =>
       /\ batch.print.mtime \in Nat
       /\ batch.print.mtime <= mtime[S]
       /\ batch.print.mtime = mtime[S] =>
             /\ pc \in {"doctorBefore", "doctorScan", "doctorAfter"} => batch.parsed = Parsed(S)
             /\ pc \in {"doctorScan", "doctorAfter"} => batch.before = Stat(S)
             /\ pc = "doctorAfter" => batch.header = HeaderOnly(S)

BatchIsRecord ==
    /\ batch = [todo |-> batch.todo, now |-> batch.now, print |-> batch.print,
                parsed |-> batch.parsed, before |-> batch.before, header |-> batch.header]
    /\ batch.todo \subseteq Paths
PrintIsRecord ==
    pc = "doctorSample" =>
       batch.print = [size |-> batch.print.size, mtime |-> batch.print.mtime,
                      sample |-> batch.print.sample]

CacheInv ==
    /\ Clocks /\ EntriesAreDated /\ NowIsPath /\ EntriesAreOfNow /\ ReadIsOfNow
    /\ BatchIsRecord /\ PrintIsRecord /\ CacheIsFaithful

doctorAll == <<home, pc, result, doctorVars>>
DoctorNext == DoctorStep \/ (HomeTurn /\ UNCHANGED doctorVars)

-----------------------------------------------------------------------------
\* A rollout that has its lines and its time has its verdict.
Same(s) == log'[s] = log[s] /\ torn'[s] = torn[s] /\ mtime'[s] = mtime[s]
Known(s) ==
    /\ mtime'[s] = mtime[s] /\ Verdict(s)' = Verdict(s) /\ Parsed(s)' = Parsed(s)
    /\ HeaderOnly(s)' = HeaderOnly(s) /\ Stat(s)' = Stat(s)

LEMMA SameIsKnown ==
    ASSUME NEW s \in Sessions, Same(s)
    PROVE  Known(s)
<1> DEFINE Bad(l)    == \E i \in DOMAIN l : l[i].kind = "bad"
           Header(l) == Cardinality({i \in DOMAIN l : l[i].kind # "bad"}) = 1
<1>1. HeaderOnly(s)' = HeaderOnly(s)
  <2>1. HeaderOnly(s) = Header(log[s]) /\ HeaderOnly(s)' = Header(log'[s])
    BY DEF HeaderOnly
  <2>2. QED BY <2>1 DEF Same
<1>2. Parsed(s)' = Parsed(s)
  <2>1. /\ Parsed(s) = IF Bad(log[s]) THEN "MALFORMED_RECORD"
                       ELSE IF torn[s] THEN "TRUNCATED_TRANSCRIPT" ELSE "HEALTHY"
        /\ Parsed(s)' = IF Bad(log'[s]) THEN "MALFORMED_RECORD"
                        ELSE IF torn'[s] THEN "TRUNCATED_TRANSCRIPT" ELSE "HEALTHY"
    BY DEF Parsed
  <2>2. QED BY <2>1 DEF Same
<1>3. Stat(s)' = Stat(s)
  BY DEF Stat, Size, Same
<1>4. Verdict(s)' = Verdict(s)
  BY <1>1, <1>2 DEF Verdict, Worst
<1>5. QED BY <1>1, <1>2, <1>3, <1>4 DEF Known, Same

\* No step of anybody changes a rollout under its mtime.
LEMMA TurnIsDated ==
    ASSUME Clocks, HomeTurn
    PROVE  /\ Clocks' /\ pc' = pc
           /\ \A s \in Sessions : Known(s) \/ mtime[s] < mtime'[s]
<1> USE DEF Clocks, Turn
<1>1. CASE \E s \in Sessions, r \in Records : WriteLine(s, r)
  <2> PICK s \in Sessions, r \in Records : WriteLine(s, r) BY <1>1
  <2>1. /\ mtime' = [mtime EXCEPT ![s] = turns + 1] /\ turns' = turns + 1
        /\ log' = [log EXCEPT ![s] = log[s] \o <<r>>] /\ torn' = [torn EXCEPT ![s] = FALSE]
        /\ place' = place /\ pc' = pc
    BY DEF WriteLine, Touch
  <2>2. log[s] \o <<r>> \in Seq(Records) OBVIOUS
  <2>3. log' \in [Sessions -> Seq(Records)]
    <3> HIDE DEF Clocks
    <3>1. log \in [Sessions -> Seq(Records)] BY DEF Clocks
    <3>2. QED BY <3>1, <2>1, <2>2, Zenon
  <2>4. \A t \in Sessions : t # s => Same(t)
    <3> TAKE t \in Sessions
    <3> HAVE t # s
    <3>1. QED BY <2>1 DEF Same
  <2>5. mtime[s] < mtime'[s] BY <2>1
  <2>6. Clocks' BY <2>1, <2>3
  <2>7. QED BY <2>1, <2>4, <2>5, <2>6, SameIsKnown
<1>2. CASE \E s \in Sessions : Tear(s)
  <2> PICK s \in Sessions : Tear(s) BY <1>2
  <2>1. /\ mtime' = [mtime EXCEPT ![s] = turns + 1] /\ turns' = turns + 1
        /\ log' = log /\ torn' = [torn EXCEPT ![s] = TRUE] /\ place' = place /\ pc' = pc
    BY DEF Tear, Touch
  <2>2. \A t \in Sessions : t # s => Same(t) BY <2>1 DEF Same
  <2>3. mtime[s] < mtime'[s] BY <2>1
  <2>4. QED BY <2>1, <2>2, <2>3, SameIsKnown
<1>3. CASE \E s \in Sessions : Create(s)
  <2> PICK s \in Sessions : Create(s) BY <1>3
  <2>1. /\ mtime' = [mtime EXCEPT ![s] = turns + 1] /\ turns' = turns + 1
        /\ log' = log /\ torn' = torn /\ place' = [place EXCEPT ![s] = "sessions"] /\ pc' = pc
    BY DEF Create, Touch
  <2>2. place' \in [Sessions -> Places]
    <3>1. "sessions" \in Places BY DEF Places, Folders, Range
    <3>2. QED BY <2>1, <3>1
  <2>3. \A t \in Sessions : t # s => Same(t) BY <2>1 DEF Same
  <2>4. mtime[s] < mtime'[s] BY <2>1
  <2>5. QED BY <2>1, <2>2, <2>3, <2>4, SameIsKnown
<1>4. CASE \E s \in Sessions, to \in Places : Move(s, to)
  <2> PICK s \in Sessions, to \in Places : Move(s, to) BY <1>4
  <2>1. /\ place' = [place EXCEPT ![s] = to] /\ turns' = turns + 1 /\ pc' = pc
        /\ mtime' = mtime /\ log' = log /\ torn' = torn
    BY DEF Move, rollout
  <2>2. Clocks' BY <2>1
  <2>3. QED BY <2>1, <2>2, SameIsKnown DEF Same
<1>5. CASE turns' = turns + 1 /\ pc' = pc /\ UNCHANGED <<place, rollout>>
  BY <1>5, SameIsKnown DEF Same, rollout
<1>6. HomeTurn =>
         \/ \E s \in Sessions, r \in Records : WriteLine(s, r)
         \/ \E s \in Sessions : Tear(s)
         \/ \E s \in Sessions : Create(s)
         \/ \E s \in Sessions, to \in Places : Move(s, to)
         \/ turns' = turns + 1 /\ pc' = pc /\ UNCHANGED <<place, rollout>>
  BY DEF HomeTurn, WriteRow, Project, SetEdge, SetAlive, SetReadable
<1>7. QED BY <1>1, <1>2, <1>3, <1>4, <1>5, <1>6

-----------------------------------------------------------------------------
LEMMA CacheInitial ==
    ASSUME HomeInit, pc = "idle", DoctorInit
    PROVE  CacheInv
<1>1. Clocks
  <2>1. /\ \A s \in Sessions : mtime[s] = 0
        /\ mtime = [s \in Sessions |-> 0] /\ torn = [s \in Sessions |-> FALSE]
        /\ turns = 0 /\ log = [s \in Sessions |-> <<Meta>>] /\ place \in [Sessions -> Places]
    BY DEF HomeInit
  <2>2. <<Meta>> \in Seq(Records)
    <3>1. Meta \in Records BY DEF Meta, Record, Records, Kinds
    <3>2. QED BY <3>1
  <2>3. QED BY <2>1, <2>2 DEF Clocks
<1>2. QED
  BY <1>1 DEF CacheInv, DoctorInit, NoBatch, NoServed, EntriesAreDated, NowIsPath, EntriesAreOfNow,
     ReadIsOfNow, Fingerprinted, Examining, BatchIsRecord, PrintIsRecord, CacheIsFaithful

\* Codex takes a turn.
LEMMA CacheUnderCodex ==
    ASSUME CacheInv, HomeTurn, UNCHANGED doctorVars
    PROVE  CacheInv'
<1>1. /\ Clocks' /\ pc' = pc /\ \A s \in Sessions : Known(s) \/ mtime[s] < mtime'[s]
  BY TurnIsDated DEF CacheInv
<1>2. mtime \in [Sessions -> Nat] /\ mtime' \in [Sessions -> Nat]
  BY <1>1 DEF CacheInv, Clocks
<1>3. EntriesAreDated'
  <2> SUFFICES ASSUME NEW e \in cache \cup newCache
               PROVE  Dated(e.path, e.print.mtime, e.status)'
    BY DEF EntriesAreDated, doctorVars
  <2>1. Dated(e.path, e.print.mtime, e.status) BY DEF CacheInv, EntriesAreDated
  <2>2. e.path.session \in Sessions BY <2>1 DEF Dated, Paths
  <2>3. Known(e.path.session) \/ mtime[e.path.session] < mtime'[e.path.session] BY <1>1, <2>2
  <2>4. mtime[e.path.session] \in Nat /\ mtime'[e.path.session] \in Nat BY <1>2, <2>2
  <2>5. QED BY <2>1, <2>3, <2>4 DEF Dated, Known
<1>4. NowIsPath' /\ EntriesAreOfNow' /\ BatchIsRecord' /\ PrintIsRecord' /\ CacheIsFaithful'
  BY <1>1 DEF CacheInv, doctorVars, NowIsPath, EntriesAreOfNow, BatchIsRecord, PrintIsRecord,
     CacheIsFaithful, Fingerprinted, Examining, Now
<1>5. ReadIsOfNow'
  <2> SUFFICES ASSUME Fingerprinted
               PROVE  ReadIsOfNow'
    BY <1>1 DEF ReadIsOfNow, Fingerprinted, Examining, doctorVars
  <2>1. S \in Sessions BY DEF CacheInv, NowIsPath, Fingerprinted, Examining, S, Paths
  <2>2. Known(S) \/ mtime[S] < mtime'[S] BY <1>1, <2>1
  <2>3. mtime[S] \in Nat /\ mtime'[S] \in Nat BY <1>2, <2>1
  <2>4. S' = S /\ batch' = batch /\ pc' = pc BY <1>1 DEF S, Now, doctorVars
  <2>5. ReadIsOfNow BY DEF CacheInv
  <2>6. CASE mtime[S] < mtime'[S] BY <2>3, <2>4, <2>5, <2>6 DEF ReadIsOfNow
  <2>7. CASE Known(S)
    <3>1. Parsed(S)' = Parsed(S) /\ HeaderOnly(S)' = HeaderOnly(S) /\ Stat(S)' = Stat(S)
      BY <2>7, <2>4 DEF Known, Parsed, HeaderOnly, Stat, Size
    <3>2. QED BY <2>4, <2>5, <2>7, <3>1 DEF ReadIsOfNow, Known
  <2>8. QED BY <2>2, <2>6, <2>7
<1>6. QED BY <1>1, <1>3, <1>4, <1>5 DEF CacheInv

\* While the command takes a step, Codex takes none.
LEMMA HomeIsStill ==
    ASSUME CacheInv, UNCHANGED home
    PROVE  /\ Clocks'
           /\ \A s \in Sessions : Known(s)
           /\ \A path, time, status : Dated(path, time, status) => Dated(path, time, status)'
<1>1. /\ turns' = turns /\ place' = place /\ log' = log /\ torn' = torn /\ mtime' = mtime
  BY DEF home
<1>2. Clocks' BY <1>1 DEF CacheInv, Clocks
<1>3. \A s \in Sessions : Known(s) BY <1>1, SameIsKnown DEF Same
<1>4. ASSUME NEW path, NEW time, NEW status, Dated(path, time, status)
      PROVE  Dated(path, time, status)'
  <2>1. path.session \in Sessions BY <1>4 DEF Dated, Paths
  <2>2. Known(path.session) BY <1>3, <2>1
  <2>3. QED BY <1>4, <2>2 DEF Dated, Known
<1>5. QED BY <1>2, <1>3, <1>4

\* A report keeps its verdict under the fingerprint of the rollout examined now.
LEMMA ReportKeeps ==
    ASSUME CacheInv, UNCHANGED home, NEW status, Report(status),
           UNCHANGED <<cache, served, printed>>,
           pc \in {"doctorParse", "doctorBefore", "doctorScan", "doctorAfter"},
           \/ status = Exception
           \/ /\ pc = "doctorAfter"
              /\ status = Worst(batch.parsed, Stat(S) # batch.before, batch.header)
    PROVE  CacheInv'
<1>1. /\ batch' = [NoBatch EXCEPT !.todo = batch.todo] /\ pc' = "doctorPrint"
      /\ newCache' = newCache \cup
            {e \in {[path |-> Now, print |-> Kept, status |-> status]} : e.print # NoPrint}
  BY DEF Report, Goto
<1>2. Clocks' BY HomeIsStill
<1>3. EntriesAreDated'
  <2>1. ASSUME batch.print # NoPrint
        PROVE  Dated(Now, batch.print.mtime, status)
    <3>1. Fingerprinted /\ Now \in Paths
      BY <2>1 DEF CacheInv, NowIsPath, Fingerprinted, Examining
    <3>2. ReadIsOfNow BY DEF CacheInv
    <3>3. ASSUME batch.print.mtime = mtime[S]
          PROVE  status \in {Verdict(S), Exception}
      <4>1. CASE status = Exception BY <4>1
      <4>2. CASE /\ pc = "doctorAfter"
                 /\ status = Worst(batch.parsed, Stat(S) # batch.before, batch.header)
        <5>1. batch.parsed = Parsed(S) /\ batch.before = Stat(S) /\ batch.header = HeaderOnly(S)
          BY <3>1, <3>2, <3>3, <4>2 DEF ReadIsOfNow
        <5>2. QED BY <4>2, <5>1 DEF Verdict
      <4>3. QED BY <4>1, <4>2
    <3>4. QED BY <3>1, <3>2, <3>3 DEF Dated, ReadIsOfNow, S
  <2>2. SUFFICES ASSUME NEW e \in cache' \cup newCache'
                 PROVE  Dated(e.path, e.print.mtime, e.status)
    BY HomeIsStill DEF EntriesAreDated
  <2>3. CASE e \in cache \cup newCache BY <2>3 DEF CacheInv, EntriesAreDated
  <2>4. CASE e = [path |-> Now, print |-> Kept, status |-> status] /\ Kept # NoPrint
    BY <2>1, <2>4 DEF Kept
  <2>5. QED BY <1>1, <2>3, <2>4
<1>4. NowIsPath' /\ EntriesAreOfNow' /\ ReadIsOfNow' /\ PrintIsRecord'
  BY <1>1 DEF NowIsPath, EntriesAreOfNow, ReadIsOfNow, PrintIsRecord, Fingerprinted, Examining
<1>5. BatchIsRecord' BY <1>1 DEF CacheInv, BatchIsRecord, NoBatch
<1>6. CacheIsFaithful' BY DEF CacheInv, CacheIsFaithful
<1>7. QED BY <1>2, <1>3, <1>4, <1>5, <1>6 DEF CacheInv

\* The command takes a step.
LEMMA CacheUnderDoctor ==
    ASSUME CacheInv, DoctorStep
    PROVE  CacheInv'
<1>1. UNCHANGED home BY DEF DoctorStep
<1>2. Clocks' /\ EntriesAreDated /\ BatchIsRecord BY <1>1, HomeIsStill DEF CacheInv
<1>3. ASSUME cache' \cup newCache' \subseteq cache \cup newCache
      PROVE  EntriesAreDated'
  BY <1>1, <1>2, <1>3, HomeIsStill DEF EntriesAreDated
<1>4. \A s \in Sessions : Known(s) /\ s \in DOMAIN mtime /\ mtime[s] \in Nat
  BY <1>1, HomeIsStill DEF CacheInv, Clocks
<1>5. CASE \E whole \in BOOLEAN : BatchStart(whole)
  <2>1. /\ cache' \subseteq cache /\ newCache' = {} /\ served' = NoServed /\ pc' = "doctorPrint"
        /\ batch' = [NoBatch EXCEPT !.todo = {p \in Paths : There(p)}]
    BY <1>5 DEF BatchStart
  <2>2. QED
    BY <2>1, <1>2, <1>3 DEF CacheInv, NowIsPath, EntriesAreOfNow, ReadIsOfNow, Fingerprinted,
       Examining, BatchIsRecord, PrintIsRecord, CacheIsFaithful, NoBatch, NoServed
<1>6. CASE \E p \in batch.todo : DoctorPrint(p)
  <2> PICK p \in batch.todo : DoctorPrint(p) BY <1>6
  <2> DEFINE next == [NoBatch EXCEPT !.todo = batch.todo \ {p}, !.now = p]
             print == [size |-> Size(p.session), mtime |-> mtime[p.session], sample |-> 0]
  <2>1. /\ p \in Paths /\ p.session \in Sessions
        /\ cache' = cache /\ newCache' = newCache /\ served' = NoServed
    BY <1>2 DEF DoctorPrint, BatchIsRecord, Paths
  <2>2. EntriesAreDated' /\ CacheIsFaithful'
    BY <2>1, <1>3 DEF CacheIsFaithful, NoServed
  <2>3. CASE /\ batch' = [next EXCEPT !.print = [NoPrint EXCEPT !.size = Size(p.session),
                                                               !.mtime = mtime[p.session]]]
             /\ printed' = Verdict(p.session) /\ pc' = "doctorSample"
    <3>1. batch' = [todo |-> batch.todo \ {p}, now |-> p, print |-> print,
                    parsed |-> "HEALTHY", before |-> NoStat, header |-> FALSE]
      BY <2>3 DEF NoBatch, NoPrint
    <3>2. /\ batch'.now = p /\ batch'.print.mtime = mtime[p.session] /\ S' = p.session
          /\ Now' = p /\ batch'.todo \subseteq batch.todo
      BY <3>1 DEF S, Now
    <3>3. mtime'[p.session] = mtime[p.session] /\ mtime[p.session] \in Nat
      BY <2>1, <1>4 DEF Known
    <3>4. mtime'[p.session] = mtime'[S'] BY <3>2
    <3>5. ReadIsOfNow'
      BY <2>3, <3>2, <3>4, <3>3 DEF ReadIsOfNow
    <3>6. EntriesAreOfNow'
      <4> SUFFICES ASSUME NEW e \in cache, e.path = p, e.print.mtime = mtime[p.session]
                   PROVE  e.status \in {Verdict(p.session), Exception}
        BY <2>1, <2>3, <3>2 DEF EntriesAreOfNow
      <4>1. Dated(e.path, e.print.mtime, e.status) BY <1>2 DEF EntriesAreDated
      <4>2. QED BY <4>1 DEF Dated
    <3>7. NowIsPath' /\ BatchIsRecord' /\ PrintIsRecord'
      <4>1. NowIsPath' BY <2>1, <3>2 DEF NowIsPath
      <4>2. BatchIsRecord' BY <1>2, <3>1, <3>2 DEF BatchIsRecord
      <4>3. PrintIsRecord' BY <3>1 DEF PrintIsRecord
      <4>4. QED BY <4>1, <4>2, <4>3
    <3>8. QED BY <1>2, <2>2, <3>5, <3>6, <3>7 DEF CacheInv
  <2>4. CASE batch' = next /\ pc' = "doctorLookup" /\ printed' = printed
    <3>1. batch' = [todo |-> batch.todo \ {p}, now |-> p, print |-> NoPrint,
                    parsed |-> "HEALTHY", before |-> NoStat, header |-> FALSE]
      BY <2>4 DEF NoBatch
    <3>2. batch'.now = p /\ batch'.print = NoPrint /\ batch'.todo \subseteq batch.todo
      BY <3>1
    <3>3. NowIsPath' /\ BatchIsRecord' /\ PrintIsRecord' /\ ~Fingerprinted'
      <4>1. NowIsPath' BY <2>1, <3>2 DEF NowIsPath, Now
      <4>2. BatchIsRecord' BY <1>2, <3>1, <3>2 DEF BatchIsRecord
      <4>3. PrintIsRecord' /\ ~Fingerprinted'
        BY <2>4, <3>2 DEF PrintIsRecord, Fingerprinted, Examining
      <4>4. QED BY <4>1, <4>2, <4>3
    <3>4. QED
      BY <1>2, <2>2, <2>4, <3>3 DEF CacheInv, EntriesAreOfNow, ReadIsOfNow
  <2>5. QED BY <2>3, <2>4 DEF DoctorPrint, Goto
<1>7. CASE DoctorSample
  <2>1. /\ pc = "doctorSample" /\ pc' = "doctorLookup" /\ Now \in Paths
        /\ cache' = cache /\ newCache' = newCache /\ served' = served /\ printed' = printed
    BY <1>7 DEF DoctorSample, Goto, CacheInv, NowIsPath, Examining
  <2> PICK sample \in {batch.print.size, Size(S)} :
           batch' = [batch EXCEPT !.print =
                        IF There(Now) THEN [batch.print EXCEPT !.sample = sample] ELSE NoPrint]
    BY <1>7 DEF DoctorSample
  <2>2. /\ batch'.print = NoPrint \/ batch'.print.mtime = batch.print.mtime
        /\ batch'.now = batch.now /\ batch'.todo = batch.todo /\ BatchIsRecord'
    <3>1. PrintIsRecord BY DEF CacheInv
    <3>2. QED BY <1>2, <2>1, <3>1 DEF BatchIsRecord, PrintIsRecord
  <2>3. S \in Sessions BY <2>1 DEF S, Paths
  <2>4. ReadIsOfNow'
    <3>1. ReadIsOfNow /\ Fingerprinted BY <2>1 DEF CacheInv, Fingerprinted
    <3>2. mtime'[S] = mtime[S] BY <2>3, <1>4 DEF Known
    <3>3. QED BY <2>1, <2>2, <3>1, <3>2 DEF ReadIsOfNow, Fingerprinted, Examining, S, Now
  <2>5. EntriesAreOfNow'
    <3>1. EntriesAreOfNow /\ Fingerprinted BY <2>1 DEF CacheInv, Fingerprinted
    <3>2. QED BY <2>1, <2>2, <3>1 DEF EntriesAreOfNow, Fingerprinted, Now
  <2>6. EntriesAreDated' BY <1>3, <2>1
  <2>7. NowIsPath' /\ PrintIsRecord' BY <2>1, <2>2 DEF NowIsPath, PrintIsRecord, Now
  <2>8. CacheIsFaithful' BY <2>1 DEF CacheInv, CacheIsFaithful
  <2>9. QED BY <1>2, <2>2, <2>4, <2>5, <2>6, <2>7, <2>8 DEF CacheInv
<1>8. CASE DoctorLookup
  <2>1. /\ pc = "doctorLookup" /\ cache' = cache /\ batch' = batch /\ printed' = printed
        /\ Now \in Paths
    BY <1>8 DEF DoctorLookup, CacheInv, NowIsPath, Examining
  <2>2. S \in Sessions BY <2>1 DEF S, Paths
  <2>3. CASE \E e \in Hits : /\ newCache' = newCache \cup {e} /\ pc' = "doctorPrint"
                             /\ served' = [paths |-> {Now}, status |-> e.status]
    <3> PICK e \in Hits : /\ newCache' = newCache \cup {e} /\ pc' = "doctorPrint"
                          /\ served' = [paths |-> {Now}, status |-> e.status]
      BY <2>3
    <3>1. e \in cache /\ e.path = Now /\ e.print = batch.print /\ batch.print # NoPrint
      BY DEF Hits
    <3>2. e.status \in {printed, Exception}
      <4>1. EntriesAreOfNow BY DEF CacheInv
      <4>2. QED BY <2>1, <3>1, <4>1 DEF EntriesAreOfNow, Fingerprinted, Examining
    <3>3. CacheIsFaithful'
      <4>1. served'.status = e.status /\ printed' = printed BY <2>1
      <4>2. QED BY <3>2, <4>1 DEF CacheIsFaithful, Exception
    <3>4. EntriesAreDated' BY <1>3, <2>1, <3>1
    <3>5. QED
      BY <1>2, <2>1, <3>3, <3>4 DEF CacheInv, NowIsPath, EntriesAreOfNow, ReadIsOfNow,
         Fingerprinted, Examining, BatchIsRecord, PrintIsRecord
  <2>4. CASE pc' = "doctorParse" /\ newCache' = newCache /\ served' = served
    <3>1. ReadIsOfNow'
      <4>1. ReadIsOfNow BY DEF CacheInv
      <4>2. mtime'[S] = mtime[S] BY <2>2, <1>4 DEF Known
      <4>3. QED BY <2>1, <2>4, <4>1, <4>2 DEF ReadIsOfNow, Fingerprinted, Examining, S, Now
    <3>2. EntriesAreDated' BY <1>3, <2>1, <2>4
    <3>3. QED
      BY <1>2, <2>1, <2>4, <3>1, <3>2 DEF CacheInv, NowIsPath, EntriesAreOfNow, BatchIsRecord,
         PrintIsRecord, CacheIsFaithful, Now
  <2>5. QED BY <1>8, <2>3, <2>4 DEF DoctorLookup, Goto
<1>9. ASSUME UNCHANGED <<cache, newCache, served, printed>>, BatchIsRecord',
             batch'.print = batch.print, batch'.now = batch.now,
             pc \in {"doctorParse", "doctorBefore", "doctorScan"},
             pc' \in {"doctorBefore", "doctorScan", "doctorAfter"}, ReadIsOfNow'
      PROVE  CacheInv'
  <2>1. Now \in Paths BY <1>9 DEF CacheInv, NowIsPath, Examining
  <2>2. EntriesAreDated' BY <1>3, <1>9
  <2>3. QED
    BY <1>2, <1>9, <2>1, <2>2 DEF CacheInv, NowIsPath, EntriesAreOfNow, PrintIsRecord,
       CacheIsFaithful, Now
<1>10. ASSUME pc \in Examining
      PROVE  /\ ReadIsOfNow /\ S \in Sessions /\ mtime'[S] = mtime[S] /\ Parsed(S)' = Parsed(S)
             /\ Stat(S)' = Stat(S) /\ HeaderOnly(S)' = HeaderOnly(S)
  <2>1. Now \in Paths /\ S \in Sessions BY <1>10 DEF CacheInv, NowIsPath, S, Paths
  <2>2. Known(S) BY <2>1, <1>4
  <2>3. QED BY <2>1, <2>2 DEF CacheInv, Known
<1>11. ASSUME S' = S, pc \in Examining
      PROVE  /\ mtime[S]' = mtime[S] /\ Parsed(S)' = Parsed(S) /\ Stat(S)' = Stat(S)
             /\ HeaderOnly(S)' = HeaderOnly(S)
  <2>1. mtime' = mtime /\ log' = log /\ torn' = torn BY <1>1 DEF home
  <2>2. mtime[S]' = mtime[S] BY <2>1, <1>11
  <2>3. Stat(S)' = Stat(S) BY <2>1, <1>11 DEF Stat, Size
  <2>4. Parsed(S)' = Parsed(S) BY <2>1, <1>11 DEF Parsed
  <2>5. HeaderOnly(S)' = HeaderOnly(S) BY <2>1, <1>11 DEF HeaderOnly
  <2>6. QED BY <2>2, <2>3, <2>4, <2>5
<1>12. CASE DoctorParse
  <2>1. pc = "doctorParse" /\ UNCHANGED <<cache, served, printed>> BY <1>12 DEF DoctorParse
  <2>2. CASE /\ batch' = [batch EXCEPT !.parsed = Parsed(S)]
             /\ pc' = "doctorBefore" /\ newCache' = newCache
    <3>1. /\ batch'.print = batch.print /\ batch'.now = batch.now /\ batch'.parsed = Parsed(S)
          /\ BatchIsRecord' /\ S' = S
      BY <1>2, <2>2 DEF BatchIsRecord, S, Now
    <3>2. ReadIsOfNow'
      BY <1>10, <2>1, <2>2, <3>1, <1>11 DEF ReadIsOfNow, Fingerprinted, Examining
    <3>3. QED BY <1>9, <2>1, <2>2, <3>1, <3>2
  <2>3. QED BY <1>1, <1>12, <2>1, <2>2, ReportKeeps DEF DoctorParse, Goto, Exception
<1>13. CASE DoctorBefore
  <2>1. pc = "doctorBefore" /\ UNCHANGED <<cache, served, printed>> BY <1>13 DEF DoctorBefore
  <2>2. CASE /\ batch' = [batch EXCEPT !.before = Stat(S)]
             /\ pc' = "doctorScan" /\ newCache' = newCache
    <3>1. /\ batch'.print = batch.print /\ batch'.now = batch.now /\ batch'.before = Stat(S)
          /\ batch'.parsed = batch.parsed /\ BatchIsRecord' /\ S' = S
      BY <1>2, <2>2 DEF BatchIsRecord, S, Now
    <3>2. ReadIsOfNow'
      BY <1>10, <1>11, <2>1, <2>2, <3>1 DEF ReadIsOfNow, Fingerprinted, Examining
    <3>3. QED BY <1>9, <2>1, <2>2, <3>1, <3>2
  <2>3. QED BY <1>1, <1>13, <2>1, <2>2, ReportKeeps DEF DoctorBefore, Goto, Exception
<1>14. CASE DoctorScan
  <2>1. pc = "doctorScan" /\ UNCHANGED <<cache, served, printed>> BY <1>14 DEF DoctorScan
  <2>2. CASE /\ batch' = [batch EXCEPT !.header = HeaderOnly(S)]
             /\ pc' = "doctorAfter" /\ newCache' = newCache
    <3>1. /\ batch'.print = batch.print /\ batch'.now = batch.now /\ batch'.before = batch.before
          /\ batch'.parsed = batch.parsed /\ batch'.header = HeaderOnly(S) /\ BatchIsRecord'
          /\ S' = S
      BY <1>2, <2>2 DEF BatchIsRecord, S, Now
    <3>2. ReadIsOfNow'
      BY <1>10, <1>11, <2>1, <2>2, <3>1 DEF ReadIsOfNow, Fingerprinted, Examining
    <3>3. QED BY <1>9, <2>1, <2>2, <3>1, <3>2
  <2>3. QED BY <1>1, <1>14, <2>1, <2>2, ReportKeeps DEF DoctorScan, Goto, Exception
<1>15. CASE DoctorAfter
  <2>1. pc = "doctorAfter" /\ UNCHANGED <<cache, served, printed>> BY <1>15 DEF DoctorAfter
  <2>2. PICK status : /\ Report(status)
                      /\ \/ status = Exception
                         \/ status = Worst(batch.parsed, Stat(S) # batch.before, batch.header)
    BY <1>15 DEF DoctorAfter, Exception
  <2>3. QED BY <1>1, <2>1, <2>2, ReportKeeps
<1>16. CASE BatchEnd
  <2>1. /\ cache' \in {newCache, cache} /\ newCache' = {} /\ served' = NoServed /\ pc' = "idle"
        /\ batch' = batch
    BY <1>16 DEF BatchEnd, Answer
  <2>2. QED
    BY <2>1, <1>2, <1>3 DEF CacheInv, NowIsPath, EntriesAreOfNow, ReadIsOfNow, Fingerprinted,
       Examining, BatchIsRecord, PrintIsRecord, CacheIsFaithful, NoServed
<1>17. QED
  BY <1>5, <1>6, <1>7, <1>8, <1>12, <1>13, <1>14, <1>15, <1>16 DEF DoctorStep

\* Nobody takes a step.
LEMMA CacheAtRest ==
    ASSUME CacheInv, UNCHANGED <<home, pc, doctorVars>>
    PROVE  CacheInv'
<1>1. Clocks' BY HomeIsStill
<1>2. EntriesAreDated' BY HomeIsStill DEF CacheInv, EntriesAreDated, doctorVars
<1>3. ReadIsOfNow'
  <2>1. S' = S /\ pc' = pc /\ batch' = batch /\ mtime' = mtime /\ log' = log /\ torn' = torn
    BY DEF S, Now, doctorVars, home
  <2>2. Fingerprinted' = Fingerprinted BY <2>1 DEF Fingerprinted
  <2>3. mtime[S]' = mtime[S] BY <2>1
  <2>4. Stat(S)' = Stat(S) BY <2>1 DEF Stat, Size
  <2>5. Parsed(S)' = Parsed(S) BY <2>1 DEF Parsed
  <2>6. HeaderOnly(S)' = HeaderOnly(S) BY <2>1 DEF HeaderOnly
  <2>7. ReadIsOfNow BY DEF CacheInv
  <2>8. QED BY <2>1, <2>2, <2>3, <2>4, <2>5, <2>6, <2>7 DEF ReadIsOfNow
<1>4. NowIsPath' /\ EntriesAreOfNow' /\ BatchIsRecord' /\ PrintIsRecord' /\ CacheIsFaithful'
  BY DEF CacheInv, doctorVars, NowIsPath, EntriesAreOfNow, BatchIsRecord, PrintIsRecord,
     CacheIsFaithful, Fingerprinted, Examining, Now
<1>5. QED BY <1>1, <1>2, <1>3, <1>4 DEF CacheInv

-----------------------------------------------------------------------------
LEMMA CacheKept == CacheInv /\ [DoctorNext]_doctorAll => CacheInv'
<1> SUFFICES ASSUME CacheInv, [DoctorNext]_doctorAll PROVE CacheInv'
  OBVIOUS
<1>1. CASE DoctorStep BY <1>1, CacheUnderDoctor
<1>2. CASE HomeTurn /\ UNCHANGED doctorVars BY <1>2, CacheUnderCodex
<1>3. CASE UNCHANGED doctorAll
  <2>1. UNCHANGED <<home, pc, doctorVars>> BY <1>3 DEF doctorAll
  <2>2. QED BY <2>1, CacheAtRest
<1>4. QED BY <1>1, <1>2, <1>3 DEF DoctorNext

\* For any rollouts, batches and turns: the verdict the batch doctor serves from its
\* cache (doctor_batch.py) is the one the rollout had when its fingerprint was taken
\* just now, or that of an examination that failed.
THEOREM CacheIsFaithfulHolds == DoctorSpec => []CacheIsFaithful
<1>1. HomeInit /\ pc = "idle" /\ result = "none" /\ DoctorInit => CacheInv
  BY CacheInitial
<1>2. CacheInv => CacheIsFaithful BY DEF CacheInv
<1>3. QED BY <1>1, CacheKept, <1>2, PTL DEF DoctorSpec, DoctorNext, doctorAll

-----------------------------------------------------------------------------
(* The copies of a rollout.                                                *)

\* A set of numbers has a least one: of the sets 1..k with k in it, which are finite,
\* there is a least.
LEMMA LeastMember ==
    ASSUME NEW T, T \subseteq Nat, T # {}
    PROVE  \E x \in T : \A y \in T : x <= y
<1> DEFINE Ups == {1..k : k \in T}
           R   == StrictSubsetOrdering(Nat)
<1>1. Ups \subseteq FiniteSubsetsOf(Nat) /\ Ups # {}
  <2>1. \A k \in T : IsFiniteSet(1..k) /\ 1..k \in SUBSET Nat
    <3> TAKE k \in T
    <3>1. k \in Int /\ 1 \in Int /\ 1..k \subseteq Nat OBVIOUS
    <3>2. QED BY <3>1, FS_Interval
  <2>2. Ups # {} OBVIOUS
  <2>3. ASSUME NEW v \in Ups PROVE v \in FiniteSubsetsOf(Nat)
    <3>1. PICK k \in T : v = 1..k OBVIOUS
    <3>2. QED BY <2>1, <3>1 DEF FiniteSubsetsOf
  <2>4. QED BY <2>2, <2>3
<1>2. PICK u \in Ups : \A v \in Ups : ~(<<v, u>> \in R)
  <2>1. IsWellFoundedOn(R, FiniteSubsetsOf(Nat)) BY FS_StrictSubsetOrderingWellFounded
  <2> HIDE DEF R, Ups
  <2>2. QED BY <1>1, <2>1, WFMin
<1>3. PICK x \in T : u = 1..x OBVIOUS
<1>4. ASSUME NEW y \in T, y < x PROVE FALSE
  <2>1. x \in 1..x /\ x \notin 1..y /\ 1..y \subseteq 1..x BY <1>4
  <2>2. <<1..y, u>> \in R BY <2>1, <1>3 DEF StrictSubsetOrdering
  <2>3. QED BY <1>2, <2>2
<1>5. \A y \in T : x <= y BY <1>4
<1>6. QED BY <1>5

-----------------------------------------------------------------------------
\* What the scan of a rollout is trusted for.
LEMMA HealthyIsClean ==
    ASSUME NEW c, MigrationSafe(ScanStatus(c))
    PROVE  Clean(c)
BY DEF MigrationSafe, ScanStatus, Holds, Clean

\* The clean prefix of a rollout ends with it or before its first bad line.
Ends(n, c) ==
    /\ n \in 0..Len(c.lines)
    /\ \A i \in 1..n : c.lines[i].kind # "bad"
    /\ n = Len(c.lines) \/ c.lines[n + 1].kind = "bad"

LEMMA CleanLinesEnd ==
    ASSUME NEW c, c.lines \in Seq(Records)
    PROVE  Ends(CleanLines(c), c)
<1> DEFINE len == Len(c.lines)
           bad == {i \in 1..len : c.lines[i].kind = "bad"}
<1>1. len \in Nat OBVIOUS
<1>2. \E n \in 0..len : /\ \A i \in 1..n : c.lines[i].kind # "bad"
                        /\ n = len \/ c.lines[n + 1].kind = "bad"
  <2>1. CASE bad = {}
    <3>1. \A i \in 1..len : c.lines[i].kind # "bad" BY <2>1
    <3>2. len \in 0..len BY <1>1
    <3>3. QED BY <3>1, <3>2
  <2>2. CASE bad # {}
    <3>1. bad \subseteq Nat OBVIOUS
    <3>2. PICK x \in bad : \A y \in bad : x <= y BY <2>2, <3>1, LeastMember
    <3>3. x \in 1..len /\ c.lines[x].kind = "bad" OBVIOUS
    <3>4. x - 1 \in 0..len /\ (x - 1) + 1 = x BY <1>1, <3>3
    <3>5. \A i \in 1..x - 1 : c.lines[i].kind # "bad"
      <4> SUFFICES ASSUME NEW i \in 1..x - 1, c.lines[i].kind = "bad" PROVE FALSE
        OBVIOUS
      <4>1. i \in bad BY <1>1, <3>3
      <4>2. QED BY <3>2, <3>3, <4>1
    <3>6. QED BY <3>3, <3>4, <3>5
  <2>3. QED BY <2>1, <2>2
<1>3. QED BY <1>2 DEF CleanLines, Ends

-----------------------------------------------------------------------------
Logs  == log \in [Sessions -> Seq(Records)]
Quiet == pc # "idle" => result = "none"

\* A manifest that calls its rollout safe has the hash of a clean one, or of one that
\* was written to after its scan.
Trusted(m) == m.safe => Clean(m.hash) \/ m.hash \in drifted
Exporting ==
    /\ export = [session |-> export.session, status |-> export.status, hash |-> export.hash,
                 safe |-> export.safe]
    /\ pc = "exportHash" => export.status = ScanStatus(scanned)
    /\ pc = "exportPack" => Trusted(export)
    /\ Trusted(package.manifest)

\* An import of the plan just made takes a package whose manifest says safe.
Importing ==
    /\ pc = "importRead" /\ plan /\ ~given => package.manifest.safe
    /\ pc \in {"importCopy", "importVerify"} =>
          Clean(manifest.hash) \/ manifest.hash \in drifted \/ given

\* The rollout still begins with what the scan read.
Begins(c, l) == Len(c.lines) <= Len(l) /\ \A i \in 1..Len(c.lines) : l[i] = c.lines[i]
Salvaging ==
    pc = "salvageCopy" =>
       /\ prefix.session \in Sessions /\ scanned.lines \in Seq(Records)
       /\ Ends(prefix.lines, scanned) /\ Begins(scanned, log[prefix.session])

PortInv == Logs /\ Quiet /\ Exporting /\ Importing /\ Salvaging /\ CopiesAreClean

portAll  == <<home, pc, result, portVars>>
PortNext == PortStep \/ (HomeTurn /\ UNCHANGED portVars)

LEMMA PortInitial ==
    ASSUME HomeInit, pc = "idle", result = "none", PortInit
    PROVE  PortInv
<1>1. Logs
  <2>1. Meta \in Records BY DEF Meta, Record, Records, Kinds
  <2>2. <<Meta>> \in Seq(Records) BY <2>1
  <2>3. log = [s \in Sessions |-> <<Meta>>] BY DEF HomeInit
  <2>4. QED BY <2>2, <2>3 DEF Logs
<1>2. QED
  BY <1>1 DEF PortInv, PortInit, Quiet, Exporting, Trusted, NoPackage, NoManifest, Importing,
     Salvaging, CopiesAreClean

\* Codex only ever adds lines to a rollout.
LEMMA LogsGrow ==
    ASSUME Logs, HomeTurn
    PROVE  /\ Logs' /\ pc' = pc /\ result' = result
           /\ \A s \in Sessions : \A c :
                 c.lines \in Seq(Records) /\ Begins(c, log[s]) => Begins(c, log'[s])
<1>1. CASE \E s \in Sessions, r \in Records : WriteLine(s, r)
  <2> PICK s \in Sessions, r \in Records : WriteLine(s, r) BY <1>1
  <2>1. log' = [log EXCEPT ![s] = log[s] \o <<r>>] /\ pc' = pc /\ result' = result
    BY DEF WriteLine, Turn
  <2>2. log[s] \in Seq(Records) /\ log[s] \o <<r>> \in Seq(Records) BY DEF Logs
  <2>3. Logs' BY <2>1, <2>2, Zenon DEF Logs
  <2>4. /\ log'[s] = log[s] \o <<r>>
        /\ \A t \in Sessions : t # s => log'[t] = log[t]
    BY <2>1 DEF Logs
  <2>5. ASSUME NEW c, c.lines \in Seq(Records), Begins(c, log[s])
        PROVE  Begins(c, log'[s])
    <3>1. Len(log'[s]) = Len(log[s]) + 1 BY <2>2, <2>4
    <3>2. \A i \in 1..Len(log[s]) : log'[s][i] = log[s][i] BY <2>2, <2>4
    <3>3. Len(c.lines) \in Nat /\ Len(log[s]) \in Nat BY <2>2, <2>5
    <3>4. QED BY <2>5, <3>1, <3>2, <3>3 DEF Begins
  <2>6. QED BY <2>1, <2>3, <2>4, <2>5
<1>2. CASE log' = log /\ pc' = pc /\ result' = result
  BY <1>2 DEF Logs
<1>3. HomeTurn =>
         \/ \E s \in Sessions, r \in Records : WriteLine(s, r)
         \/ log' = log /\ pc' = pc /\ result' = result
  BY DEF HomeTurn, Turn, Tear, Create, Move, WriteRow, Project, SetEdge, SetAlive, SetReadable,
     rollout
<1>4. QED BY <1>1, <1>2, <1>3

LEMMA PortUnderCodex ==
    ASSUME PortInv, HomeTurn, UNCHANGED portVars
    PROVE  PortInv'
<1>1. /\ Logs' /\ pc' = pc /\ result' = result
      /\ \A s \in Sessions : \A c :
            c.lines \in Seq(Records) /\ Begins(c, log[s]) => Begins(c, log'[s])
  BY LogsGrow DEF PortInv
<1>2. Salvaging'
  <2> SUFFICES ASSUME pc = "salvageCopy" PROVE Salvaging'
    BY <1>1 DEF Salvaging
  <2>1. Salvaging BY DEF PortInv
  <2>2. prefix' = prefix /\ scanned' = scanned BY DEF portVars
  <2>3. Begins(scanned, log'[prefix.session]) BY <1>1, <2>1 DEF Salvaging
  <2>4. QED BY <2>1, <2>2, <2>3 DEF Salvaging
<1>3. Quiet' /\ Exporting' /\ Importing' /\ CopiesAreClean'
  BY <1>1 DEF PortInv, portVars, Quiet, Exporting, Trusted, Importing, CopiesAreClean
<1>4. QED BY <1>1, <1>2, <1>3 DEF PortInv

LEMMA PortUnderCommand ==
    ASSUME PortInv, PortStep
    PROVE  PortInv'
<1>1. log' = log /\ place' = place /\ torn' = torn /\ Logs' BY DEF PortStep, home, PortInv, Logs
<1>2. Quiet /\ Exporting /\ Importing /\ Salvaging /\ CopiesAreClean BY DEF PortInv
<1>3. CASE \E s \in Sessions : ExportScan(s)
  <2> PICK s \in Sessions : ExportScan(s) BY <1>3
  <2>1. /\ export' = [NoManifest EXCEPT !.session = s, !.status = ScanStatus(Content(s))]
        /\ scanned' = Content(s) /\ pc' = "exportHash" /\ result' = "none"
        /\ package' = package /\ drifted' = drifted
    BY DEF ExportScan
  <2>2. Exporting' BY <1>2, <2>1 DEF Exporting, Trusted, NoManifest
  <2>3. QED
    BY <1>1, <2>1, <2>2 DEF PortInv, Quiet, Importing, Salvaging, CopiesAreClean
<1>4. CASE ExportHash
  <2>1. pc = "exportHash" /\ package' = package /\ scanned' = scanned BY <1>4 DEF ExportHash
  <2>2. CASE /\ export' = Classified([export EXCEPT !.hash = Content(export.session)])
             /\ drifted' = IF Content(export.session) = scanned THEN drifted
                           ELSE drifted \cup {Content(export.session)}
             /\ pc' = "exportPack" /\ result' = result
    <3> DEFINE c == Content(export.session)
    <3>1. /\ export' = [session |-> export.session, status |-> export.status, hash |-> c,
                        safe |-> export'.safe]
          /\ export'.safe => MigrationSafe(export.status)
      BY <1>2, <2>2 DEF Exporting, Classified
    <3>2. Trusted(export)'
      <4>1. SUFFICES ASSUME export'.safe PROVE Clean(c) \/ c \in drifted'
        BY <3>1 DEF Trusted
      <4>2. CASE c = scanned
        BY <1>2, <2>1, <3>1, <4>1, <4>2, HealthyIsClean DEF Exporting
      <4>3. CASE c # scanned BY <2>2, <4>3
      <4>4. QED BY <4>2, <4>3
    <3>3. Trusted(package.manifest)'
      BY <1>2, <2>1, <2>2 DEF Exporting, Trusted
    <3>4. Exporting' BY <2>2, <3>1, <3>2, <3>3 DEF Exporting
    <3>5. QED
      BY <1>1, <1>2, <2>1, <2>2, <3>4 DEF PortInv, Quiet, Importing, Salvaging, CopiesAreClean
  <2>3. CASE pc' = "idle" /\ result' = "FileNotFoundError" /\ UNCHANGED <<export, drifted>>
    BY <1>1, <1>2, <2>1, <2>3
       DEF PortInv, Quiet, Exporting, Trusted, Importing, Salvaging, CopiesAreClean
  <2>4. QED BY <1>4, <2>2, <2>3 DEF ExportHash, Goto, Gone, Answer
<1>5. CASE ExportPack
  <2>1. /\ pc = "exportPack" /\ pc' = "idle" /\ result' \in {"exported", "FileNotFoundError"}
        /\ package'.manifest = export /\ export' = NoManifest /\ drifted' = drifted
    BY <1>5 DEF ExportPack, Gone, Answer
  <2>2. Exporting' BY <1>2, <2>1 DEF Exporting, Trusted, NoManifest
  <2>3. QED
    BY <1>1, <2>1, <2>2 DEF PortInv, Quiet, Importing, Salvaging, CopiesAreClean
<1>6. CASE \E dry \in BOOLEAN : PlanImport(dry)
  <2>1. /\ plan' = (Intact /\ SafePlan) /\ result' = "none" /\ given' = FALSE
        /\ pc' \in {"importRefused", "importDry", "importRead"}
        /\ UNCHANGED <<export, package, scanned, drifted>>
    BY <1>6 DEF PlanImport
  <2>2. plan' => package.manifest.safe BY <2>1 DEF SafePlan
  <2>3. QED
    BY <1>1, <1>2, <2>1, <2>2
       DEF PortInv, Quiet, Exporting, Trusted, Importing, Salvaging, CopiesAreClean
<1>7. CASE ImportAsPlanned
  BY <1>1, <1>2, <1>7 DEF ImportAsPlanned, PortInv, Quiet, Exporting, Trusted, Importing,
     Salvaging, CopiesAreClean
<1>8. CASE ImportRefused
  <2>1. /\ pc' = "idle" /\ result' \in {"ValueError", "DRY_RUN_PASSED", "BLOCKED"}
        /\ UNCHANGED portVars
    BY <1>8 DEF ImportRefused, Answer
  <2>2. QED
    BY <1>1, <1>2, <2>1 DEF portVars, PortInv, Quiet, Exporting, Trusted, Importing, Salvaging,
       CopiesAreClean
<1>9. CASE ImportRead
  <2>1. /\ pc = "importRead" /\ plan
        /\ \/ manifest' = package.manifest /\ pc' = "importCopy" /\ result' = result
           \/ manifest' = manifest /\ pc' = "idle" /\ result' = "ValueError"
        /\ UNCHANGED <<export, package, scanned, drifted, given>>
    BY <1>9 DEF ImportRead, Goto, Answer
  <2>2. Clean(package.manifest.hash) \/ package.manifest.hash \in drifted \/ given
    BY <1>2, <2>1 DEF Importing, Exporting, Trusted
  <2>3. QED
    BY <1>1, <1>2, <2>1, <2>2
       DEF PortInv, Quiet, Exporting, Trusted, Importing, Salvaging, CopiesAreClean
<1>10. CASE ImportCopy
  <2>1. /\ pc = "importCopy"
        /\ \/ pc' = "importVerify" /\ result' = result
           \/ pc' = "idle" /\ result' = "ROLLED_BACK"
        /\ UNCHANGED <<export, package, plan, manifest, scanned, drifted, given>>
    BY <1>10 DEF ImportCopy, Goto, Answer
  <2>2. QED
    BY <1>1, <1>2, <2>1
       DEF PortInv, Quiet, Exporting, Trusted, Importing, Salvaging, CopiesAreClean
<1>11. CASE \E stageOnly \in BOOLEAN : ImportVerify(stageOnly)
  <2>1. /\ pc = "importVerify" /\ pc' = "idle"
        /\ \/ staged' = manifest.hash /\ result' \in {"STAGED", "IMPORT_BLOCKED"}
           \/ result' = "ROLLED_BACK"
        /\ UNCHANGED <<export, package, plan, manifest, scanned, drifted, given>>
    BY <1>11 DEF ImportVerify, Answer
  <2>2. QED
    BY <1>1, <1>2, <2>1
       DEF PortInv, Quiet, Exporting, Trusted, Importing, Salvaging, CopiesAreClean
<1>12. CASE \E s \in Sessions : SalvageScan(s)
  <2> PICK s \in Sessions : SalvageScan(s) BY <1>12
  <2>1. /\ prefix' = [session |-> s, lines |-> CleanLines(Content(s))] /\ scanned' = Content(s)
        /\ pc' = "salvageCopy" /\ result' = "none" /\ UNCHANGED <<export, package, drifted>>
    BY DEF SalvageScan
  <2>2. log[s] \in Seq(Records) /\ Content(s).lines = log[s] BY DEF PortInv, Logs, Content
  <2>3. Ends(CleanLines(Content(s)), Content(s)) BY <2>2, CleanLinesEnd
  <2>4. Begins(Content(s), log[s]) BY <2>2 DEF Begins
  <2>5. Salvaging' BY <1>1, <2>1, <2>2, <2>3, <2>4 DEF Salvaging
  <2>6. QED
    BY <1>1, <1>2, <2>1, <2>5 DEF PortInv, Quiet, Exporting, Trusted, Importing, CopiesAreClean
<1>13. CASE SalvageCopy
  <2>1. /\ pc = "salvageCopy" /\ pc' = "idle"
        /\ UNCHANGED <<export, package, plan, manifest, scanned, drifted, given>>
        /\ \/ /\ result' = "salvaged"
              /\ target' = [lines |-> SubSeq(log[prefix.session], 1, prefix.lines),
                            torn |-> FALSE]
           \/ result' = "FileNotFoundError"
    BY <1>13 DEF SalvageCopy, Gone, Answer
  <2>2. ASSUME target' = [lines |-> SubSeq(log[prefix.session], 1, prefix.lines), torn |-> FALSE]
        PROVE  /\ Clean(target') /\ IsPrefix(target'.lines, scanned.lines)
               /\ Len(target'.lines) < Len(scanned.lines) =>
                     scanned.lines[Len(target'.lines) + 1].kind = "bad"
    <3> DEFINE l == log[prefix.session]
               n == prefix.lines
               c == scanned
               t == SubSeq(l, 1, n)
    <3>1. /\ l \in Seq(Records) /\ c.lines \in Seq(Records) /\ Ends(n, c) /\ Begins(c, l)
      BY <1>2, <2>1 DEF Salvaging, PortInv, Logs
    <3>2. n \in 0..Len(c.lines) /\ Len(c.lines) \in Nat /\ Len(l) \in Nat /\ Len(c.lines) <= Len(l)
      BY <3>1 DEF Ends, Begins
    <3>3. /\ t \in Seq(Records) /\ Len(t) = n
          /\ \A i \in 1..n : t[i] = c.lines[i]
      BY <3>1, <3>2 DEF Begins
    <3>4. Clean(target')
      <4>1. \A i \in 1..n : c.lines[i].kind # "bad" BY <3>1 DEF Ends
      <4>2. DOMAIN t = 1..n BY <3>3
      <4>3. \A i \in DOMAIN t : t[i].kind # "bad" BY <3>3, <4>1, <4>2
      <4>4. target'.lines = t /\ target'.torn = FALSE BY <2>2
      <4> HIDE DEF t
      <4>5. QED BY <4>3, <4>4 DEF Clean
    <3>5. IsPrefix(t, c.lines)
      <4>1. SubSeq(t, 1, n) = SubSeq(c.lines, 1, n)
        BY <3>1, <3>2, <3>3
      <4>2. QED BY <3>2, <3>3, <4>1 DEF IsPrefix
    <3>6. QED BY <2>2, <3>1, <3>2, <3>3, <3>4, <3>5 DEF Ends
  <2>3. CopiesAreClean' BY <2>1, <2>2 DEF CopiesAreClean
  <2>4. QED BY <1>1, <1>2, <2>1, <2>3 DEF PortInv, Quiet, Exporting, Trusted, Importing, Salvaging
<1>14. QED
  BY <1>3, <1>4, <1>5, <1>6, <1>7, <1>8, <1>9, <1>10, <1>11, <1>12, <1>13 DEF PortStep

-----------------------------------------------------------------------------
LEMMA PortKept == PortInv /\ [PortNext]_portAll => PortInv'
<1> SUFFICES ASSUME PortInv, [PortNext]_portAll PROVE PortInv'
  OBVIOUS
<1>1. CASE PortStep BY <1>1, PortUnderCommand
<1>2. CASE HomeTurn /\ UNCHANGED portVars BY <1>2, PortUnderCodex
<1>3. CASE UNCHANGED portAll
  BY <1>3 DEF portAll, home, rollout, portVars, PortInv, Logs, Quiet, Exporting, Trusted,
     Importing, Salvaging, CopiesAreClean
<1>4. QED BY <1>1, <1>2, <1>3 DEF PortNext

\* For any rollouts, lines, exports and turns: a payload that an import stages
\* (portable.py) is clean, or was written to under its export, or came with the plan of
\* another package; a salvaged file (salvage_stream.py) is the clean prefix of what was
\* scanned.
THEOREM CopiesAreCleanHolds == PortSpec => []CopiesAreClean
<1>1. HomeInit /\ pc = "idle" /\ result = "none" /\ PortInit => PortInv
  BY PortInitial
<1>2. PortInv => CopiesAreClean BY DEF PortInv
<1>3. QED BY <1>1, PortKept, <1>2, PTL DEF PortSpec, PortNext, portAll
=============================================================================
