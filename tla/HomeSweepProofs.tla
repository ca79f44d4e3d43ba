--------------------------- MODULE HomeSweepProofs ---------------------------
(***************************************************************************)
(* The commands that visit every rollout while Codex moves them: what the  *)
(* observer's polls find is true, and what they lose they lose to a        *)
(* changed database; the router blames the layer that is to blame, and the *)
(* autopilot repairs the only rollout there is; the listing tells the      *)
(* truth of all that nobody touched.  For any number of rollouts and any   *)
(* turns of Codex.                                                         *)
(***************************************************************************)
EXTENDS Observer, Discovery, Router, FiniteSetTheorems, SequenceTheorems, TLAPS

\* Every path is in the sweep, those of sessions/ first.
Ordered(q) ==
    \A i, j \in DOMAIN q :
       i < j /\ q[i].folder = "archived_sessions" => q[j].folder = "archived_sessions"

LEMMA SessionsInOrder ==
    LET q == SetToSeq(Sessions) IN
    /\ Len(q) \in Nat /\ q \in [1..Len(q) -> Sessions]
    /\ \A s \in Sessions : \E i \in 1..Len(q) : q[i] = s
<1> DEFINE n == Cardinality(Sessions)
           q == SetToSeq(Sessions)
<1>1. n \in Nat /\ IsFiniteSet(1..n) /\ Cardinality(1..n) = n
  <2>1. IsFiniteSet(Sessions) BY HomeAssumption
  <2>2. n \in Nat BY <2>1, FS_CardinalityType
  <2> HIDE DEF n
  <2>3. 1 \in Int /\ n \in Int /\ IF 1 > n THEN n = 0 ELSE n - 1 + 1 = n BY <2>2
  <2>4. IsFiniteSet(1..n) /\ Cardinality(1..n) = IF 1 > n THEN 0 ELSE n - 1 + 1
    BY <2>3, FS_Interval, Zenon
  <2>5. QED BY <2>2, <2>3, <2>4
<1>2. \E f \in [1..n -> Sessions] : IsInjective(f)
  BY HomeAssumption, FS_CardinalityType DEF ExistsBijection, Bijection, Injection
<1>3. q \in [1..n -> Sessions] /\ IsInjective(q) BY <1>2 DEF SetToSeq
<1>4. \A s \in Sessions : \E i \in 1..n : q[i] = s
  <2>1. q \in Injection(1..n, Sessions) BY <1>3 DEF Injection
  <2>2. q \in Surjection(1..n, Sessions) BY <1>1, <2>1, HomeAssumption, FS_Injection
  <2>3. QED BY <2>2 DEF Surjection
<1> HIDE DEF n, q
<1>5. Len(q) = n BY <1>1, <1>3
<1>6. QED BY <1>1, <1>3, <1>4, <1>5 DEF q

LEMMA FolderSweep ==
    ASSUME NEW folder \in Range(Folders)
    PROVE  LET q == SetToSeq(Sessions) IN
           /\ SweepOf(folder) \in Seq(Paths) /\ Len(SweepOf(folder)) = Len(q)
           /\ \A i \in 1..Len(q) : SweepOf(folder)[i] = [folder |-> folder, session |-> q[i]]
           /\ Range(SweepOf(folder)) = {p \in Paths : p.folder = folder}
<1> DEFINE q == SetToSeq(Sessions)
<1>1. /\ Len(q) \in Nat /\ q \in [1..Len(q) -> Sessions]
      /\ \A s \in Sessions : \E i \in 1..Len(q) : q[i] = s
  BY SessionsInOrder
<1>2. SweepOf(folder) = [i \in 1..Len(q) |-> [folder |-> folder, session |-> q[i]]]
  BY <1>1 DEF SweepOf
<1>3. \A i \in 1..Len(q) : [folder |-> folder, session |-> q[i]] \in Paths
  BY <1>1 DEF Paths
<1> HIDE DEF q
<1>4. /\ SweepOf(folder) \in Seq(Paths) /\ Len(SweepOf(folder)) = Len(q)
      /\ DOMAIN SweepOf(folder) = 1..Len(q)
      /\ \A i \in 1..Len(q) : SweepOf(folder)[i] = [folder |-> folder, session |-> q[i]]
  BY <1>1, <1>2, <1>3
<1>5. ASSUME NEW p \in Paths, p.folder = folder PROVE p \in Range(SweepOf(folder))
  <2>1. p = [folder |-> folder, session |-> p.session] /\ p.session \in Sessions
    BY <1>5 DEF Paths
  <2>2. PICK i \in 1..Len(q) : q[i] = p.session BY <1>1, <2>1
  <2>3. SweepOf(folder)[i] = p BY <1>4, <2>1, <2>2
  <2>4. QED BY <1>4, <2>3 DEF Range
<1>6. ASSUME NEW p \in Range(SweepOf(folder)) PROVE p \in Paths /\ p.folder = folder
  <2>1. PICK i \in 1..Len(q) : p = SweepOf(folder)[i] BY <1>4, <1>6 DEF Range
  <2>2. p = [folder |-> folder, session |-> q[i]] BY <1>4, <2>1
  <2>3. QED BY <1>3, <2>2
<1>7. QED BY <1>4, <1>5, <1>6 DEF q

LEMMA SweepCovers == Sweep \in Seq(Paths) /\ Range(Sweep) = Paths /\ Ordered(Sweep)
<1> DEFINE q == SetToSeq(Sessions)
           n == Len(q)
           one == SweepOf("sessions")
           two == SweepOf("archived_sessions")
<1>1. n \in Nat BY SessionsInOrder
<1>2. \A s \in Sessions : \E i \in 1..n : q[i] = s BY SessionsInOrder
<1>3. Folders[1] = "sessions" /\ Folders[2] = "archived_sessions"
      /\ Range(Folders) = {"sessions", "archived_sessions"}
  BY DEF Folders, Range
<1>4. ASSUME NEW folder \in Range(Folders)
      PROVE  /\ SweepOf(folder) \in Seq(Paths) /\ Len(SweepOf(folder)) = n
             /\ \A i \in 1..n : SweepOf(folder)[i] = [folder |-> folder, session |-> q[i]]
  BY <1>4, FolderSweep
<1>5. /\ one \in Seq(Paths) /\ Len(one) = n /\ two \in Seq(Paths) /\ Len(two) = n
      /\ \A i \in 1..n : one[i] = [folder |-> "sessions", session |-> q[i]]
      /\ \A i \in 1..n : two[i] = [folder |-> "archived_sessions", session |-> q[i]]
  BY <1>3, <1>4
<1>6. Sweep = one \o two BY <1>3 DEF Sweep
<1> HIDE DEF one, two, q, n
<1>7. /\ Sweep \in Seq(Paths) /\ Len(Sweep) = n + n
      /\ \A i \in 1..n : Sweep[i] = [folder |-> "sessions", session |-> q[i]]
      /\ \A i \in n+1..n+n : Sweep[i] = [folder |-> "archived_sessions", session |-> q[i - n]]
  <2>1. /\ Sweep \in Seq(Paths) /\ Len(Sweep) = n + n
        /\ \A i \in 1..n + n : Sweep[i] = IF i <= n THEN one[i] ELSE two[i - n]
    <3>1. /\ Len(one \o two) = Len(one) + Len(two) /\ one \o two \in Seq(Paths)
          /\ \A i \in 1..Len(one) + Len(two) :
                (one \o two)[i] = IF i <= Len(one) THEN one[i] ELSE two[i - Len(one)]
      BY <1>5, ConcatProperties
    <3>2. QED BY <1>5, <1>6, <3>1
  <2>2. \A i \in 1..n : i \in 1..n + n /\ i <= n BY <1>1
  <2>3. \A i \in n+1..n+n : i \in 1..n + n /\ ~(i <= n) /\ i - n \in 1..n BY <1>1
  <2>4. QED BY <1>5, <2>1, <2>2, <2>3
<1>8. Ordered(Sweep)
  <2> SUFFICES ASSUME NEW i \in 1..n+n, NEW j \in 1..n+n, i < j,
                      Sweep[i].folder = "archived_sessions"
               PROVE  Sweep[j].folder = "archived_sessions"
    BY <1>1, <1>7 DEF Ordered
  <2>1. i \in n+1..n+n
    <3>1. i \notin 1..n
      <4>1. ASSUME i \in 1..n PROVE Sweep[i].folder # "archived_sessions"
        <5>1. Sweep[i] = [folder |-> "sessions", session |-> q[i]] BY <1>7, <4>1
        <5>2. QED BY <5>1
      <4>2. QED BY <4>1
    <3>2. QED BY <1>1, <3>1
  <2>2. j \in n+1..n+n BY <1>1, <2>1
  <2>3. Sweep[j] = [folder |-> "archived_sessions", session |-> q[j - n]] BY <1>7, <2>2
  <2>4. QED BY <2>3
<1>9. ASSUME NEW p \in Paths PROVE p \in Range(Sweep)
  <2>1. PICK i \in 1..n : q[i] = p.session BY <1>2 DEF Paths, q, n
  <2>2. p = [folder |-> p.folder, session |-> p.session] /\ p.folder \in Range(Folders)
    BY DEF Paths
  <2>3. CASE p.folder = "sessions"
    <3>1. i \in DOMAIN Sweep /\ Sweep[i] = p BY <1>1, <1>7, <2>1, <2>2, <2>3
    <3>2. QED BY <3>1 DEF Range
  <2>4. CASE p.folder = "archived_sessions"
    <3>1. n + i \in DOMAIN Sweep /\ n + i \in n+1..n+n /\ (n + i) - n = i BY <1>1, <1>7, <2>1
    <3>2. Sweep[n + i] = p BY <1>7, <2>1, <2>2, <2>4, <3>1
    <3>3. QED BY <3>1, <3>2 DEF Range
  <2>5. QED BY <1>3, <2>2, <2>3, <2>4
<1>10. Range(Sweep) \subseteq Paths BY <1>7 DEF Range
<1>11. QED BY <1>7, <1>8, <1>9, <1>10

\* What is left of a queue.
LEMMA TailOf ==
    ASSUME NEW T, NEW q \in Seq(T), q # <<>>
    PROVE  /\ Head(q) \in T /\ Tail(q) \in Seq(T)
           /\ \A x \in Range(q) : x = Head(q) \/ x \in Range(Tail(q))
<1>1. /\ Len(q) \in Nat \ {0} /\ Head(q) = q[1] /\ Tail(q) \in Seq(T)
      /\ Len(Tail(q)) = Len(q) - 1 /\ \A i \in 1..Len(q) - 1 : Tail(q)[i] = q[i + 1]
      /\ DOMAIN q = 1..Len(q) /\ DOMAIN Tail(q) = 1..Len(q) - 1
      /\ Head(q) \in T
  OBVIOUS
<1>2. ASSUME NEW x \in Range(q) PROVE x = Head(q) \/ x \in Range(Tail(q))
  <2>1. PICK i \in 1..Len(q) : x = q[i] BY <1>1 DEF Range
  <2>2. CASE i = 1 BY <1>1, <2>1, <2>2
  <2>3. CASE i > 1
    <3>1. i - 1 \in 1..Len(q) - 1 /\ (i - 1) + 1 = i BY <1>1, <2>1, <2>3
    <3>2. QED BY <1>1, <2>1, <3>1 DEF Range
  <2>4. QED BY <2>1, <2>2, <2>3
<1>3. QED BY <1>1, <1>2

\* One path less to visit.
LEMMA TailVisits ==
    ASSUME NEW q \in Seq(Paths), q # <<>>
    PROVE  /\ Head(q) \in Paths /\ Tail(q) \in Seq(Paths)
           /\ \A p \in Range(q) : p = Head(q) \/ p \in Range(Tail(q))
           /\ Range(Tail(q)) \subseteq Range(q) /\ Head(q) \in Range(q)
           /\ Ordered(q) => Ordered(Tail(q))
           /\ Ordered(q) /\ Head(q).folder = "archived_sessions" =>
                 \A p \in Range(q) : p.folder = "archived_sessions"
<1>1. /\ Len(q) \in Nat \ {0} /\ Head(q) = q[1] /\ Tail(q) \in Seq(Paths)
      /\ Len(Tail(q)) = Len(q) - 1 /\ \A i \in 1..Len(q) - 1 : Tail(q)[i] = q[i + 1]
      /\ DOMAIN q = 1..Len(q) /\ DOMAIN Tail(q) = 1..Len(q) - 1
      /\ Head(q) \in Paths
  OBVIOUS
<1>2. \A p \in Range(q) : p = Head(q) \/ p \in Range(Tail(q)) BY TailOf
<1>3. Range(Tail(q)) \subseteq Range(q) /\ Head(q) \in Range(q)
  <2>1. \A i \in 1..Len(q) - 1 : i + 1 \in 1..Len(q) BY <1>1
  <2>2. QED BY <1>1, <2>1 DEF Range
<1>4. Ordered(q) => Ordered(Tail(q)) BY <1>1 DEF Ordered
<1>5. ASSUME Ordered(q), Head(q).folder = "archived_sessions", NEW p \in Range(q)
      PROVE  p.folder = "archived_sessions"
  <2>1. PICK i \in 1..Len(q) : p = q[i] BY <1>1 DEF Range
  <2>2. QED BY <1>1, <1>5, <2>1 DEF Ordered
<1>6. QED BY <1>1, <1>2, <1>3, <1>4, <1>5

-----------------------------------------------------------------------------
\* What a poll has of the first k databases is what they hold, if they never changed:
\* of a thread's cursors it has one of them, the last one if none was passed over.
CountOf(d, table) ==
    Cardinality({s \in Sessions : IF table = "threads" THEN row[s] # "absent"
                                                     ELSE cursor[s][d].present})
CursorRead(c, s, k) ==
    \E i \in 1..k :
       /\ c = cursor[s][Stores[i]]
       /\ "skipped" \notin trouble => \A j \in i+1..k : ~cursor[s][Stores[j]].present
IsDb(state) ==
    /\ state = [read |-> state.read, counts |-> state.counts, rows |-> state.rows,
                cursors |-> state.cursors]
    /\ state.read \subseteq Tables
    /\ state.counts = [t \in Tables |-> state.counts[t]]
    /\ state.cursors = [s \in Sessions |-> state.cursors[s]]
Counts(state) ==
    \A d \in Range(Stores), table \in {"threads", "cursors"} :
       <<d, table>> \in state.read => state.counts[<<d, table>>] = CountOf(d, table)
RowsSeen(state) == \A s \in Sessions : state.rows[s] \in {"absent", row[s]}
CursorsRead(state, k) ==
    \A s \in Sessions : state.cursors[s].present => CursorRead(state.cursors[s], s, k)
IsRead(state, k) ==
    /\ IsDb(state)
    /\ "moved" \notin trouble => Counts(state) /\ RowsSeen(state) /\ CursorsRead(state, k)
DbRead   == IsRead(db, sweep.at - 1)
BaseRead == IsRead(dbBase, Len(Stores))

\* The events of this poll are recorded, and not yet with the caller.
LossExcused == trouble \cap {"moved", "gone"} # {} \/ ("skipped" \in trouble /\ Ambiguous)
EventsKept ==
    /\ recorded = PathsOf(fsBase)
    /\ \/ LossExcused
       \/ recorded = IF Swept THEN (reported \cup sweep.created) \ sweep.deleted ELSE reported

SweepIsRecord ==
    sweep = [todo |-> sweep.todo, size |-> sweep.size, created |-> sweep.created,
             deleted |-> sweep.deleted, at |-> sweep.at]
AtAStore == pc \in {"pollCount", "pollRows", "pollCountCursors", "pollCursors"}
NothingYet == polls = 0 => pc = "idle" /\ db = NoDb /\ dbBase = NoDb /\ trouble = {}
AtIsStore ==
    /\ SweepIsRecord /\ sweep.at \in Nat
    /\ sweep.at \in 1..Len(Stores) + 1
    /\ AtAStore => sweep.at \in 1..Len(Stores)
LostInv ==
    /\ EventsKept /\ polls \in Nat /\ NothingYet /\ AtIsStore
    /\ ~Swept => db = NoDb
    /\ DbRead /\ BaseRead

observerAll == <<home, pc, result, observerVars>>
ObserverNext == ObserverStep \/ (HomeTurn /\ ObserverWatch)
ObserverStart == HomeInit /\ pc = "idle" /\ result = "none" /\ ObserverInit

\* Codex leaves the commands alone, and no turn shortens a rollout.
LEMMA TurnKeeps ==
    ASSUME HomeTurn
    PROVE  UNCHANGED <<pc, result>>
BY DEF HomeTurn, WriteLine, Tear, Move, Create, WriteRow, Project, SetEdge, SetAlive,
       SetReadable, Turn

LEMMA StoresInRange ==
    /\ Len(Stores) \in Nat /\ Len(Stores) # 0
    /\ \A i \in 1..Len(Stores) : Stores[i] \in Range(Stores)
<1>1. Stores \in Seq(STRING) /\ Stores # <<>> BY HomeAssumption
<1>2. QED BY <1>1 DEF Range

\* Two polls of databases that did not change see no drift, unless one of them was
\* passed over and another holds a different cursor.
LEMMA NoDriftUnmoved ==
    ASSUME IsRead(db, Len(Stores)), BaseRead, ~LossExcused
    PROVE  ~DbDrift
<1>1. "moved" \notin trouble /\ ("skipped" \notin trouble \/ ~Ambiguous) BY DEF LossExcused
<1>2. /\ Counts(db) /\ RowsSeen(db) /\ CursorsRead(db, Len(Stores)) /\ IsDb(db)
      /\ Counts(dbBase) /\ RowsSeen(dbBase) /\ CursorsRead(dbBase, Len(Stores))
  BY <1>1 DEF IsRead, BaseRead
<1>3. ASSUME NEW t \in db.read \cap dbBase.read PROVE db.counts[t] = dbBase.counts[t]
  <2>1. t \in Tables BY <1>2, <1>3 DEF IsDb
  <2>2. PICK d \in Range(Stores), table \in {"threads", "cursors"} : t = <<d, table>>
    BY <2>1 DEF Tables
  <2>3. db.counts[<<d, table>>] = CountOf(d, table) BY <1>2, <1>3, <2>2 DEF Counts
  <2>4. dbBase.counts[<<d, table>>] = CountOf(d, table) BY <1>2, <1>3, <2>2 DEF Counts
  <2>5. QED BY <2>2, <2>3, <2>4
<1>4. ASSUME NEW s \in Sessions, "absent" \notin {db.rows[s], dbBase.rows[s]}
      PROVE  db.rows[s] = dbBase.rows[s]
  BY <1>2, <1>4 DEF RowsSeen
<1>5. ASSUME NEW s \in Sessions, db.cursors[s].present, dbBase.cursors[s].present
      PROVE  db.cursors[s] = dbBase.cursors[s]
  <2>1. PICK i \in 1..Len(Stores) :
           /\ db.cursors[s] = cursor[s][Stores[i]]
           /\ "skipped" \notin trouble =>
                 \A j \in i+1..Len(Stores) : ~cursor[s][Stores[j]].present
    BY <1>2, <1>5 DEF CursorsRead, CursorRead
  <2>2. PICK k \in 1..Len(Stores) :
           /\ dbBase.cursors[s] = cursor[s][Stores[k]]
           /\ "skipped" \notin trouble =>
                 \A j \in k+1..Len(Stores) : ~cursor[s][Stores[j]].present
    BY <1>2, <1>5 DEF CursorsRead, CursorRead
  <2>3. cursor[s][Stores[i]].present /\ cursor[s][Stores[k]].present BY <1>5, <2>1, <2>2
  <2>4. CASE "skipped" \notin trouble
    <3>1. ~(i < k) /\ ~(k < i) BY <2>1, <2>2, <2>3, <2>4, StoresInRange
    <3>2. i = k BY <3>1, StoresInRange
    <3>3. QED BY <2>1, <2>2, <3>2
  <2>5. CASE ~Ambiguous
    <3>1. Stores[i] \in Range(Stores) /\ Stores[k] \in Range(Stores) BY StoresInRange
    <3>2. QED BY <2>1, <2>2, <2>3, <2>5, <3>1 DEF Ambiguous
  <2>6. QED BY <1>1, <2>4, <2>5
<1>6. QED BY <1>3, <1>4, <1>5 DEF DbDrift

LEMMA LostInitially == ObserverStart => LostInv
<1> SUFFICES ASSUME ObserverStart PROVE LostInv OBVIOUS
<1> USE DEF ObserverStart, ObserverInit
<1>1. NoSweep.at = 1 /\ SweepIsRecord BY DEF NoSweep, SweepIsRecord
<1>2. DbRead /\ BaseRead
  BY DEF DbRead, BaseRead, IsRead, IsDb, Counts, RowsSeen, CursorsRead, NoDb, NoCursor
<1>3. PathsOf({}) = {} BY DEF PathsOf
<1>4. EventsKept BY <1>3 DEF EventsKept, Swept
<1>5. AtIsStore /\ NothingYet BY <1>1, StoresInRange DEF AtIsStore, NothingYet, AtAStore
<1>6. QED BY <1>2, <1>4, <1>5 DEF LostInv

\* What was read stays read while the databases do not change; passing one over asks less.
LEMMA BaseReadStays ==
    ASSUME BaseRead, dbBase' = dbBase, trouble \subseteq trouble',
           "moved" \in trouble' \/ UNCHANGED <<row, cursor>>
    PROVE  BaseRead'
<1>1. IsDb(dbBase)' BY DEF BaseRead, IsRead, IsDb, Tables
<1>2. ASSUME "moved" \notin trouble'
      PROVE  Counts(dbBase)' /\ RowsSeen(dbBase)' /\ CursorsRead(dbBase, Len(Stores))'
  <2>1. /\ UNCHANGED <<row, cursor>> /\ Counts(dbBase) /\ RowsSeen(dbBase)
        /\ CursorsRead(dbBase, Len(Stores))
    BY <1>2 DEF BaseRead, IsRead
  <2>2. Counts(dbBase)' /\ RowsSeen(dbBase)' BY <2>1 DEF Counts, CountOf, RowsSeen
  <2>3. CursorsRead(dbBase, Len(Stores))' BY <2>1 DEF CursorsRead, CursorRead
  <2>4. QED BY <2>2, <2>3
<1>3. QED BY <1>1, <1>2 DEF BaseRead, IsRead

LEMMA DbReadStays ==
    ASSUME AtIsStore, DbRead, db' = db, trouble \subseteq trouble',
           "moved" \in trouble' \/ UNCHANGED <<row, cursor>>,
           sweep'.at = sweep.at \/ (sweep'.at = sweep.at + 1 /\ "skipped" \in trouble')
    PROVE  DbRead'
<1>1. IsDb(db)' BY DEF DbRead, IsRead, IsDb, Tables
<1>2. ASSUME "moved" \notin trouble'
      PROVE  Counts(db)' /\ RowsSeen(db)' /\ CursorsRead(db, sweep.at - 1)'
  <2>1. /\ UNCHANGED <<row, cursor>> /\ Counts(db) /\ RowsSeen(db)
        /\ CursorsRead(db, sweep.at - 1)
    BY <1>2 DEF DbRead, IsRead
  <2>2. Counts(db)' /\ RowsSeen(db)' BY <2>1 DEF Counts, CountOf, RowsSeen
  <2>3. ASSUME NEW s \in Sessions, db.cursors[s].present
        PROVE  CursorRead(db.cursors[s], s, sweep.at - 1)'
    <3>1. PICK i \in 1..sweep.at - 1 :
             /\ db.cursors[s] = cursor[s][Stores[i]]
             /\ "skipped" \notin trouble =>
                   \A j \in i+1..sweep.at - 1 : ~cursor[s][Stores[j]].present
      BY <2>1, <2>3 DEF CursorsRead, CursorRead
    <3>2. i \in 1..sweep'.at - 1 BY DEF AtIsStore
    <3>3. "skipped" \notin trouble' =>
             \A j \in i+1..sweep'.at - 1 : ~cursor'[s][Stores[j]].present
      BY <2>1, <3>1
    <3>4. QED BY <2>1, <3>1, <3>2, <3>3 DEF CursorRead
  <2>4. CursorsRead(db, sweep.at - 1)' BY <2>3 DEF CursorsRead
  <2>5. QED BY <2>2, <2>4
<1>3. QED BY <1>1, <1>2 DEF DbRead, IsRead

LEMMA NoDbIsRead ==
    ASSUME db' = NoDb
    PROVE  DbRead'
BY DEF DbRead, IsRead, IsDb, Counts, RowsSeen, CursorsRead, NoDb, NoCursor, Tables

\* An excuse lasts.
LEMMA ExcuseStays ==
    ASSUME LossExcused, trouble \subseteq trouble', "moved" \in trouble' \/ cursor' = cursor
    PROVE  LossExcused'
BY DEF LossExcused, Ambiguous

LEMMA LostUnderPoll ==
    ASSUME LostInv, ObserverStep, UNCHANGED home
    PROVE  LostInv'
<1> USE DEF LostInv
<1>1. UNCHANGED <<row, cursor>> BY DEF home
<1>2. /\ sweep.at \in Nat /\ sweep.at \in 1..Len(Stores) + 1 /\ SweepIsRecord
      /\ Len(Stores) \in Nat /\ Len(Stores) # 0
  BY StoresInRange DEF AtIsStore
\* What is left to show where the events stay as they are.
<1>3. ASSUME UNCHANGED <<fsBase, recorded, reported>>, trouble \subseteq trouble', Swept' <=> Swept,
             sweep'.created = sweep.created, sweep'.deleted = sweep.deleted
      PROVE  EventsKept'
  <2>1. PathsOf(fsBase)' = PathsOf(fsBase) BY <1>3 DEF PathsOf
  <2>2. QED BY <1>1, <1>3, <2>1, ExcuseStays DEF EventsKept
<1>4. CASE PollStart
  <2>1. /\ pc = "idle" /\ pc' = "pollStat" /\ polls' = polls + 1 /\ db = NoDb /\ db' = NoDb
        /\ sweep' = [NoSweep EXCEPT !.todo = Sweep] /\ ~Swept /\ ~Swept'
        /\ UNCHANGED <<fsBase, dbBase, recorded, reported, trouble>>
    BY <1>4 DEF PollStart, pollVars, Swept
  <2>2. AtIsStore'
    <3>1. sweep' = [todo |-> Sweep, size |-> 0, created |-> {}, deleted |-> {}, at |-> 1]
      BY <2>1 DEF NoSweep
    <3>2. SweepIsRecord' /\ sweep'.at = 1 BY <3>1 DEF SweepIsRecord
    <3>3. QED BY <1>2, <2>1, <3>2 DEF AtIsStore, AtAStore
  <2>3. EventsKept'
    <3>1. PathsOf(fsBase)' = PathsOf(fsBase) BY <2>1 DEF PathsOf
    <3>2. QED BY <1>1, <2>1, <3>1, ExcuseStays DEF EventsKept
  <2>4. NothingYet' BY <2>1 DEF NothingYet
  <2>5. QED BY <1>1, <2>1, <2>2, <2>3, <2>4, BaseReadStays, NoDbIsRead
<1>5. polls # 0 \/ pc = "idle" BY DEF NothingYet
<1>6. CASE SweepStat \/ SweepHash
  <2>1. /\ pc \in {"pollStat", "pollHash"} /\ pc' \in {"pollStat", "pollHash"}
        /\ ~Swept /\ ~Swept' /\ polls' = polls /\ db' = db
        /\ UNCHANGED <<fsBase, dbBase, recorded, reported, trouble>>
    BY <1>6 DEF SweepStat, SweepHash, Goto, pollVars, watchVars, Swept
  <2>2. /\ SweepIsRecord' /\ sweep'.at = sweep.at /\ sweep'.created = sweep.created
        /\ sweep'.deleted = sweep.deleted
    BY <1>2, <1>6 DEF SweepStat, SweepHash, SweepIsRecord
  <2>3. AtIsStore' BY <1>2, <2>1, <2>2 DEF AtIsStore, AtAStore
  <2>4. NothingYet' BY <1>5, <2>1 DEF NothingYet
  <2>5. QED BY <1>1, <1>3, <2>1, <2>2, <2>3, <2>4, BaseReadStays, DbReadStays
<1>7. CASE SweepEnd
  <2>1. /\ pc = "pollStat" /\ pc' = "pollOpen" /\ ~Swept /\ Swept' /\ polls' = polls
        /\ db = NoDb /\ db' = NoDb /\ UNCHANGED <<dbBase, reported, trouble>>
    BY <1>7 DEF SweepEnd, Goto, watchVars, Swept
  <2>2. /\ fsBase' = found
        /\ sweep' = [NoSweep EXCEPT !.created = PathsOf(found) \ PathsOf(fsBase),
                                    !.deleted = PathsOf(fsBase) \ PathsOf(found)]
        /\ recorded' = (recorded \cup (PathsOf(found) \ PathsOf(fsBase)))
                          \ (PathsOf(fsBase) \ PathsOf(found))
    BY <1>7 DEF SweepEnd
  <2>3. AtIsStore' /\ sweep'.created = PathsOf(found) \ PathsOf(fsBase)
        /\ sweep'.deleted = PathsOf(fsBase) \ PathsOf(found)
    <3>1. sweep' = [todo |-> <<>>, size |-> 0, created |-> PathsOf(found) \ PathsOf(fsBase),
                    deleted |-> PathsOf(fsBase) \ PathsOf(found), at |-> 1]
      BY <2>2 DEF NoSweep
    <3>2. QED BY <1>2, <2>1, <3>1 DEF AtIsStore, SweepIsRecord, AtAStore
  <2>4. EventsKept'
    <3>1. PathsOf(fsBase)' = PathsOf(found) BY <2>2 DEF PathsOf
    <3>2. recorded = PathsOf(fsBase) /\ (LossExcused \/ recorded = reported)
      BY <2>1 DEF EventsKept
    <3>3. recorded' = PathsOf(found) BY <2>2, <3>2
    <3>4. QED BY <1>1, <2>1, <2>2, <2>3, <3>1, <3>2, <3>3, ExcuseStays DEF EventsKept
  <2>5. NothingYet' BY <1>5, <2>1 DEF NothingYet
  <2>6. QED BY <1>1, <2>1, <2>3, <2>4, <2>5, BaseReadStays, NoDbIsRead
\* A poll that raises keeps its baselines, and the caller gets nothing.
<1>8. ASSUME pc # "idle", pc' = "idle", PollEnds, trouble \subseteq trouble',
             UNCHANGED <<polls, fsBase, recorded>>, EventsKept', BaseRead'
      PROVE  LostInv'
  <2>1. /\ ~Swept' /\ db' = NoDb
        /\ sweep' = [todo |-> <<>>, size |-> 0, created |-> {}, deleted |-> {}, at |-> 1]
    BY <1>8 DEF Swept, PollEnds, NoSweep
  <2>2. AtIsStore' BY <1>2, <1>8, <2>1 DEF AtIsStore, SweepIsRecord, AtAStore
  <2>3. NothingYet' BY <1>5, <1>8 DEF NothingYet
  <2>4. QED BY <1>8, <2>1, <2>2, <2>3, NoDbIsRead
<1>9. CASE WalkFails
  <2>1. /\ pc = "pollStat" /\ pc' = "idle" /\ PollEnds /\ ~Swept /\ ~Swept'
        /\ UNCHANGED <<polls, fsBase, dbBase, recorded, reported, trouble>>
    BY <1>9 DEF WalkFails, Answer, pollVars, Swept
  <2>2. EventsKept'
    <3>1. PathsOf(fsBase)' = PathsOf(fsBase) BY <2>1 DEF PathsOf
    <3>2. QED BY <1>1, <2>1, <3>1, ExcuseStays DEF EventsKept
  <2>3. QED BY <1>1, <1>8, <2>1, <2>2, BaseReadStays
<1>10. CASE OpenStore
  <2>1. pc = "pollOpen" /\ UNCHANGED <<polls, fsBase, dbBase, recorded, reported>>
        /\ sweep.at <= Len(Stores)
    BY <1>10 DEF OpenStore, pollVars
  <2>2. CASE pc' = "idle" /\ PollEnds /\ trouble' = trouble \cup {"gone"}
    <3>1. PathsOf(fsBase)' = PathsOf(fsBase) BY <2>1 DEF PathsOf
    <3>2. EventsKept' BY <2>1, <2>2, <3>1 DEF EventsKept, LossExcused
    <3>3. QED BY <1>1, <1>8, <2>1, <2>2, <3>2, BaseReadStays
  <2>3. CASE /\ pc' \in {"pollCount", "pollCountCursors"} /\ UNCHANGED <<sweep, db, trouble>>
    <3>1. Swept /\ Swept' BY <2>1, <2>3 DEF Swept
    <3>2. AtIsStore' BY <1>2, <2>1, <2>3 DEF AtIsStore, SweepIsRecord, AtAStore
    <3>3. NothingYet' BY <1>5, <2>1 DEF NothingYet
    <3>4. QED BY <1>1, <1>3, <2>1, <2>3, <3>1, <3>2, <3>3, BaseReadStays, DbReadStays
  <2>4. QED BY <1>10, <2>2, <2>3 DEF OpenStore, Goto, Answer, watchVars
<1>11. CASE PassOver
  <2>1. /\ pc' = "pollOpen" /\ pc # "idle" /\ Swept /\ Swept' /\ sweep.at <= Len(Stores)
        /\ sweep' = [sweep EXCEPT !.at = @ + 1] /\ trouble' = trouble \cup {"skipped"}
        /\ UNCHANGED <<polls, fsBase, dbBase, recorded, reported, db>>
    BY <1>11 DEF PassOver, Goto, pollVars, Swept
  <2>2. /\ SweepIsRecord' /\ sweep'.at = sweep.at + 1 /\ sweep'.created = sweep.created
        /\ sweep'.deleted = sweep.deleted
    BY <1>2, <2>1 DEF SweepIsRecord
  <2>3. AtIsStore' BY <1>2, <2>1, <2>2 DEF AtIsStore, AtAStore
  <2>4. NothingYet' BY <1>5, <2>1 DEF NothingYet
  <2>5. QED BY <1>1, <1>3, <2>1, <2>2, <2>3, <2>4, BaseReadStays, DbReadStays
<1>12. ASSUME NEW here \in {"pollCount", "pollCountCursors"},
              NEW table \in {"threads", "cursors"}, NEW next \in {"pollRows", "pollCursors"},
              CountRows(here, table, next)
       PROVE  LostInv'
  <2>1. /\ pc = here /\ pc' = next /\ Swept /\ Swept' /\ sweep.at \in 1..Len(Stores)
        /\ UNCHANGED <<polls, fsBase, dbBase, recorded, reported, trouble, sweep>>
    BY <1>12 DEF CountRows, Goto, pollVars, watchVars, Swept, AtIsStore, AtAStore
  <2> DEFINE t == <<Store, table>>
             n == Cardinality(Counted(table))
  <2>2. db' = [db EXCEPT !.read = @ \cup {t}, !.counts[t] = n] BY <1>12 DEF CountRows
  <2>3. Store \in Range(Stores) /\ t \in Tables BY <2>1, StoresInRange DEF Store, Tables
  <2>4. PICK store \in Range(Stores) : store = Store /\ n = CountOf(store, table)'
    BY <1>1, <2>3 DEF CountOf, Counted
  <2> HIDE DEF n
  <2>5. IsDb(db) BY DEF DbRead, IsRead
  <2>6. /\ db'.read = db.read \cup {t} /\ db'.counts = [db.counts EXCEPT ![t] = n]
        /\ db'.rows = db.rows /\ db'.cursors = db.cursors
        /\ db' = [read |-> db'.read, counts |-> db'.counts, rows |-> db'.rows,
                  cursors |-> db'.cursors]
    BY <2>2, <2>5 DEF IsDb
  <2>7. db'.counts = [u \in Tables |-> IF u = t THEN n ELSE db.counts[u]]
    BY <2>3, <2>5, <2>6 DEF IsDb
  <2>8. IsDb(db)'
    <3>1. db'.counts = [u \in Tables |-> db'.counts[u]] BY <2>7
    <3>2. QED BY <2>3, <2>5, <2>6, <3>1 DEF IsDb, Tables
  <2>9. ASSUME "moved" \notin trouble'
        PROVE  Counts(db)' /\ RowsSeen(db)' /\ CursorsRead(db, sweep.at - 1)'
    <3>1. Counts(db) /\ RowsSeen(db) /\ CursorsRead(db, sweep.at - 1)
      BY <2>1, <2>9 DEF DbRead, IsRead
    <3>2. RowsSeen(db)' BY <1>1, <2>6, <3>1 DEF RowsSeen
    <3>3. CursorsRead(db, sweep.at - 1)'
      BY <1>1, <2>1, <2>6, <3>1 DEF CursorsRead, CursorRead
    <3>4. ASSUME NEW d \in Range(Stores), NEW other \in {"threads", "cursors"},
                 <<d, other>> \in db'.read
          PROVE  db'.counts[<<d, other>>] = CountOf(d, other)'
      <4>1. <<d, other>> \in Tables BY DEF Tables
      <4>2. CASE <<d, other>> = t
        <5>1. d = store /\ other = table BY <2>4, <4>2
        <5>2. QED BY <2>4, <2>7, <4>1, <4>2, <5>1
      <4>3. CASE <<d, other>> # t
        <5>1. <<d, other>> \in db.read BY <2>6, <3>4, <4>3
        <5>2. db.counts[<<d, other>>] = CountOf(d, other) BY <3>1, <5>1 DEF Counts
        <5>3. CountOf(d, other)' = CountOf(d, other) BY <1>1 DEF CountOf
        <5>4. QED BY <2>7, <4>1, <4>3, <5>2, <5>3
      <4>4. QED BY <4>2, <4>3
    <3>5. Counts(db)' BY <3>4 DEF Counts
    <3>6. QED BY <3>2, <3>3, <3>5
  <2>10. DbRead' BY <2>8, <2>9 DEF DbRead, IsRead
  <2>11. AtIsStore' BY <1>2, <2>1 DEF AtIsStore, SweepIsRecord, AtAStore
  <2>12. NothingYet' BY <1>5, <2>1, <1>12 DEF NothingYet
  <2>13. QED BY <1>1, <1>3, <2>1, <2>10, <2>11, <2>12, BaseReadStays
<1>13. CASE ReadThreads
  <2>1. /\ pc = "pollRows" /\ pc' = "pollCountCursors" /\ Swept /\ Swept'
        /\ sweep.at \in 1..Len(Stores) /\ db' = [db EXCEPT !.rows = row]
        /\ UNCHANGED <<polls, fsBase, dbBase, recorded, reported, trouble, sweep>>
    BY <1>13 DEF ReadThreads, Goto, pollVars, watchVars, Swept, AtIsStore, AtAStore
  <2>2. IsDb(db) BY DEF DbRead, IsRead
  <2>3. /\ db'.read = db.read /\ db'.counts = db.counts
        /\ db'.rows = row /\ db'.cursors = db.cursors /\ IsDb(db)'
    BY <2>1, <2>2 DEF IsDb, Tables
  <2>4. ASSUME "moved" \notin trouble'
        PROVE  Counts(db)' /\ RowsSeen(db)' /\ CursorsRead(db, sweep.at - 1)'
    <3>1. Counts(db) /\ CursorsRead(db, sweep.at - 1) BY <2>1, <2>4 DEF DbRead, IsRead
    <3>2. Counts(db)' BY <1>1, <2>3, <3>1 DEF Counts, CountOf
    <3>3. CursorsRead(db, sweep.at - 1)'
      BY <1>1, <2>1, <2>3, <3>1 DEF CursorsRead, CursorRead
    <3>4. QED BY <1>1, <2>3, <3>2, <3>3 DEF RowsSeen
  <2>5. DbRead' BY <2>3, <2>4 DEF DbRead, IsRead
  <2>6. AtIsStore' BY <1>2, <2>1 DEF AtIsStore, SweepIsRecord, AtAStore
  <2>7. NothingYet' BY <1>5, <2>1 DEF NothingYet
  <2>8. QED BY <1>1, <1>3, <2>1, <2>5, <2>6, <2>7, BaseReadStays
<1>14. CASE ReadCursors
  <2>1. /\ pc = "pollCursors" /\ pc' = "pollOpen" /\ Swept /\ Swept'
        /\ sweep.at \in 1..Len(Stores) /\ sweep' = [sweep EXCEPT !.at = @ + 1]
        /\ UNCHANGED <<polls, fsBase, dbBase, recorded, reported, trouble>>
    BY <1>14 DEF ReadCursors, Goto, pollVars, watchVars, Swept, AtIsStore, AtAStore
  <2> DEFINE now == [s \in Sessions |-> IF cursor[s][Store].present THEN cursor[s][Store]
                                        ELSE db.cursors[s]]
  <2>2. db' = [db EXCEPT !.cursors = now] BY <1>14 DEF ReadCursors
  <2>3. IsDb(db) BY DEF DbRead, IsRead
  <2> HIDE DEF now
  <2>4. /\ db'.read = db.read /\ db'.counts = db.counts
        /\ db'.rows = db.rows /\ db'.cursors = now
        /\ db' = [read |-> db'.read, counts |-> db'.counts, rows |-> db'.rows,
                  cursors |-> db'.cursors]
    BY <2>2, <2>3 DEF IsDb
  <2>5. IsDb(db)'
    <3>1. now = [s \in Sessions |-> now[s]] BY DEF now
    <3>2. QED BY <2>3, <2>4, <3>1 DEF IsDb, Tables
  <2>6. /\ SweepIsRecord' /\ sweep'.at = sweep.at + 1 /\ sweep'.created = sweep.created
        /\ sweep'.deleted = sweep.deleted
    BY <1>2, <2>1 DEF SweepIsRecord
  <2>7. ASSUME "moved" \notin trouble'
        PROVE  Counts(db)' /\ RowsSeen(db)' /\ CursorsRead(db, sweep.at - 1)'
    <3>1. Counts(db) /\ RowsSeen(db) /\ CursorsRead(db, sweep.at - 1)
      BY <2>1, <2>7 DEF DbRead, IsRead
    <3>2. Counts(db)' /\ RowsSeen(db)' BY <1>1, <2>4, <3>1 DEF Counts, CountOf, RowsSeen
    <3>3. ASSUME NEW s \in Sessions, now[s].present
          PROVE  CursorRead(db.cursors[s], s, sweep.at - 1)'
      <4>1. sweep'.at - 1 = sweep.at BY <1>2, <2>6
      <4>2. CASE cursor[s][Store].present
        <5>1. now[s] = cursor[s][Stores[sweep.at]] BY <4>2 DEF now, Store
        <5>2. sweep.at \in 1..sweep.at /\ \A j \in sweep.at + 1..sweep.at : FALSE
          BY <1>2
        <5>3. \E i \in 1..sweep.at :
                 /\ now[s] = cursor[s][Stores[i]]
                 /\ \A j \in i + 1..sweep.at : ~cursor[s][Stores[j]].present
          BY <5>1, <5>2
        <5>4. QED BY <1>1, <2>4, <4>1, <5>3 DEF CursorRead
      <4>3. CASE ~cursor[s][Store].present
        <5>1. now[s] = db.cursors[s] /\ db.cursors[s].present BY <3>3, <4>3 DEF now
        <5>2. PICK i \in 1..sweep.at - 1 :
                 /\ db.cursors[s] = cursor[s][Stores[i]]
                 /\ "skipped" \notin trouble =>
                       \A j \in i+1..sweep.at - 1 : ~cursor[s][Stores[j]].present
          BY <3>1, <5>1 DEF CursorsRead, CursorRead
        <5>3. i \in 1..sweep.at BY <1>2
        <5>4. "skipped" \notin trouble' => \A j \in i+1..sweep.at : ~cursor[s][Stores[j]].present
          <6> SUFFICES ASSUME "skipped" \notin trouble', NEW j \in i+1..sweep.at
                       PROVE  ~cursor[s][Stores[j]].present
            OBVIOUS
          <6>1. j = sweep.at \/ j \in i+1..sweep.at - 1 BY <1>2
          <6>2. QED BY <2>1, <4>3, <5>2, <6>1 DEF Store
        <5>5. \E k \in 1..sweep.at :
                 /\ now[s] = cursor[s][Stores[k]]
                 /\ "skipped" \notin trouble' =>
                       \A j \in k+1..sweep.at : ~cursor[s][Stores[j]].present
          BY <5>1, <5>2, <5>3, <5>4
        <5>6. QED BY <1>1, <2>4, <4>1, <5>5 DEF CursorRead
      <4>4. QED BY <4>2, <4>3
    <3>4. CursorsRead(db, sweep.at - 1)' BY <2>4, <3>3 DEF CursorsRead
    <3>5. QED BY <3>2, <3>4
  <2>8. DbRead' BY <2>5, <2>7 DEF DbRead, IsRead
  <2>9. AtIsStore' BY <1>2, <2>1, <2>6 DEF AtIsStore, AtAStore
  <2>10. NothingYet' BY <1>5, <2>1 DEF NothingYet
  <2>11. QED BY <1>1, <1>3, <2>1, <2>6, <2>8, <2>9, <2>10, BaseReadStays
<1>15. CASE PollCompare
  <2>1. /\ pc = "pollOpen" /\ pc' = "idle" /\ PollEnds /\ Swept /\ ~Swept'
        /\ sweep.at > Len(Stores) /\ UNCHANGED <<polls, fsBase, recorded, trouble>>
    BY <1>15 DEF PollCompare, Answer, Swept
  <2>2. sweep.at - 1 = Len(Stores) BY <1>2, <2>1
  <2>3. IsRead(db, Len(Stores)) BY <2>2 DEF DbRead
  <2>4. dbBase' = dbBase \/ dbBase' = db BY <1>15 DEF PollCompare
  <2>5. BaseRead'
    <3>1. CASE dbBase' = dbBase BY <1>1, <2>1, <3>1, BaseReadStays
    <3>2. CASE dbBase' = db
      <4>1. IsDb(dbBase)' BY <2>3, <3>2 DEF IsRead, IsDb, Tables
      <4>2. ASSUME "moved" \notin trouble'
            PROVE  /\ Counts(dbBase)' /\ RowsSeen(dbBase)'
                   /\ CursorsRead(dbBase, Len(Stores))'
        <5>1. Counts(db) /\ RowsSeen(db) /\ CursorsRead(db, Len(Stores))
          BY <2>1, <2>3, <4>2 DEF IsRead
        <5>2. Counts(dbBase)' /\ RowsSeen(dbBase)'
          BY <1>1, <3>2, <5>1 DEF Counts, CountOf, RowsSeen
        <5>3. CursorsRead(dbBase, Len(Stores))'
          BY <1>1, <2>1, <3>2, <5>1 DEF CursorsRead, CursorRead
        <5>4. QED BY <5>2, <5>3
      <4>3. QED BY <4>1, <4>2 DEF BaseRead, IsRead
    <3>3. QED BY <2>4, <3>1, <3>2
  <2>6. EventsKept'
    <3>1. PathsOf(fsBase)' = PathsOf(fsBase) BY <2>1 DEF PathsOf
    <3>2. CASE LossExcused BY <1>1, <2>1, <3>1, <3>2, ExcuseStays DEF EventsKept
    <3>3. CASE ~LossExcused
      <4>1. reported' = (reported \cup sweep.created) \ sweep.deleted
        BY <1>15, <2>3, <3>3, NoDriftUnmoved DEF PollCompare
      <4>2. QED BY <2>1, <3>1, <3>3, <4>1 DEF EventsKept
    <3>4. QED BY <3>2, <3>3
  <2>7. QED BY <1>8, <2>1, <2>5, <2>6
<1>16. QED
  BY <1>4, <1>6, <1>7, <1>9, <1>10, <1>11, <1>12, <1>13, <1>14, <1>15 DEF ObserverStep

LEMMA LostKept == LostInv /\ [ObserverNext]_observerAll => LostInv'
<1> SUFFICES ASSUME LostInv, [ObserverNext]_observerAll PROVE LostInv' OBVIOUS
<1> USE DEF LostInv
<1>1. CASE ObserverStep /\ UNCHANGED home BY <1>1, LostUnderPoll
<1>2. CASE HomeTurn /\ ObserverWatch
  <2>1. UNCHANGED <<pc, sweep, polls, db, dbBase, recorded, fsBase, reported>>
    BY <1>2, TurnKeeps DEF ObserverWatch, pollVars
  <2>2. /\ trouble \subseteq trouble' /\ (polls = 0 => trouble' = trouble)
        /\ polls = 0 \/ "moved" \in trouble' \/ UNCHANGED <<row, cursor>>
    BY <1>2 DEF ObserverWatch
  <2>3. AtIsStore' /\ NothingYet'
    BY <2>1, <2>2 DEF AtIsStore, NothingYet, SweepIsRecord, AtAStore
  <2>4. PathsOf(fsBase)' = PathsOf(fsBase) /\ Swept' = Swept BY <2>1 DEF PathsOf, Swept
  <2>5. CASE polls = 0
    <3>1. db' = NoDb /\ dbBase' = NoDb /\ trouble' = {} BY <2>1, <2>2, <2>5 DEF NothingYet
    <3>2. DbRead' BY <3>1, NoDbIsRead
    <3>3. BaseRead'
      BY <3>1 DEF BaseRead, IsRead, IsDb, Counts, RowsSeen, CursorsRead, NoDb, NoCursor, Tables
    <3>4. EventsKept' BY <2>1, <2>4, <2>5 DEF EventsKept, LossExcused, NothingYet
    <3>5. QED BY <2>1, <2>3, <2>4, <3>2, <3>3, <3>4
  <2>6. CASE "moved" \in trouble' \/ UNCHANGED <<row, cursor>>
    <3>1. EventsKept' BY <2>1, <2>2, <2>4, <2>6, ExcuseStays DEF EventsKept
    <3>2. DbRead' /\ BaseRead' BY <2>1, <2>2, <2>6, DbReadStays, BaseReadStays
    <3>3. QED BY <2>1, <2>3, <2>4, <3>1, <3>2
  <2>7. QED BY <2>2, <2>5, <2>6
<1>3. CASE UNCHANGED observerAll
  <2>1. UNCHANGED <<pc, row, cursor, trouble, sweep, polls, db, dbBase, recorded, fsBase,
                    reported>>
    BY <1>3 DEF observerAll, observerVars, home, pollVars, watchVars
  <2>2. DbRead' /\ BaseRead' BY <2>1, DbReadStays, BaseReadStays
  <2>3. EventsKept' BY <2>1 DEF EventsKept, PathsOf, Swept, LossExcused, Ambiguous
  <2>4. AtIsStore' /\ NothingYet' BY <2>1 DEF AtIsStore, NothingYet, SweepIsRecord, AtAStore
  <2>5. QED BY <2>1, <2>2, <2>3, <2>4 DEF Swept
<1>4. QED BY <1>1, <1>2, <1>3 DEF ObserverNext, ObserverStep

\* The recorder's events add up to what the last sweep found, and those the caller got
\* do too, unless a row or a cursor changed, a database went away while it was looked
\* for, or one was passed over and two of them disagree (poll_once, _record).
THEOREM LostOnlyToDriftHolds == ObserverSpec => []LostOnlyToDrift
<1>1. LostInv => LostOnlyToDrift
  BY DEF LostInv, EventsKept, LossExcused, LostOnlyToDrift, Swept
<1>2. QED BY <1>1, LostInitially, LostKept, PTL
          DEF ObserverSpec, ObserverStart, ObserverNext, observerAll

-----------------------------------------------------------------------------
HomeShape ==
    /\ place \in [Sessions -> Places]
    /\ log \in [Sessions -> Seq(Records)]
    /\ torn \in [Sessions -> BOOLEAN]

\* Once a path of sessions/ is still to visit, all of archived_sessions/ is.
Closed(q) ==
    \A s, t \in Sessions :
       [folder |-> "sessions", session |-> s] \in Range(q) =>
          [folder |-> "archived_sessions", session |-> t] \in Range(q)

\* A rollout is found, excused, or still ahead of the sweep.
Nowhere(s)  == "nowhere" \in {b.place : b \in been[s]}
FoundOf(s)  == s \in {f.path.session : f \in found}
Put(s)      == [folder |-> place[s], session |-> s]
Ahead(s)    == FoundOf(s) \/ s \in unarchived \/ Nowhere(s) \/ Put(s) \in Range(sweep.todo)

FoundIsTrue ==
    \A f \in found :
       f.path \in Paths /\ {f.size, f.content} \subseteq Held(f.path) /\ f.size <= f.content

SweepInv ==
    /\ HomeShape
    /\ Sweeping =>
          /\ SweepIsRecord /\ sweep.todo \in Seq(Paths)
          /\ Ordered(sweep.todo) /\ Closed(sweep.todo)
          /\ \A s \in Sessions : Where(s) \in been[s] /\ Ahead(s)
          /\ FoundIsTrue
    /\ pc = "pollHash" =>
          /\ sweep.todo # <<>> /\ sweep.size \in Nat
          /\ sweep.size \in Held(Head(sweep.todo))
          /\ sweep.size <= Size(Head(sweep.todo).session)
    /\ Swept => FoundIsTrue /\ SweepIsTrue
    /\ pc = "idle" => found = {}

LEMMA FolderNames ==
    /\ Range(Folders) = {"sessions", "archived_sessions"}
    /\ Places = {"sessions", "archived_sessions", "nowhere"}
BY DEF Places, Folders, Range

LEMMA SizesAreNats ==
    ASSUME HomeShape
    PROVE  \A s \in Sessions : Size(s) \in Nat
BY DEF HomeShape, Size

LEMMA SizesGrow ==
    ASSUME HomeShape, HomeTurn
    PROVE  HomeShape' /\ \A s \in Sessions : Size(s) <= Size(s)'
<1> USE DEF HomeShape
<1>1. ASSUME NEW s \in Sessions, NEW r \in Records, WriteLine(s, r)
      PROVE  HomeShape' /\ \A t \in Sessions : Size(t) <= Size(t)'
  <2>1. /\ place' = place /\ torn' = [torn EXCEPT ![s] = FALSE]
        /\ log' = [log EXCEPT ![s] = log[s] \o <<r>>]
    BY <1>1 DEF WriteLine, header
  <2>2. /\ log[s] \o <<r>> \in Seq(Records) /\ Len(log[s] \o <<r>>) = Len(log[s]) + 1
        /\ Len(log[s]) \in Nat
    OBVIOUS
  <2>3. HomeShape' BY <2>1, <2>2
  <2>4. ASSUME NEW t \in Sessions PROVE Size(t) <= Size(t)'
    <3>1. CASE t = s
      <4>1. log'[t] = log[s] \o <<r>> /\ torn'[t] = FALSE BY <2>1, <3>1
      <4>2. QED BY <2>2, <3>1, <4>1 DEF Size
    <3>2. CASE t # s
      <4>1. log'[t] = log[t] /\ torn'[t] = torn[t] BY <2>1, <3>2
      <4>2. QED BY <4>1 DEF Size
    <3>3. QED BY <3>1, <3>2
  <2>5. QED BY <2>3, <2>4
<1>2. ASSUME NEW s \in Sessions, Tear(s)
      PROVE  HomeShape' /\ \A t \in Sessions : Size(t) <= Size(t)'
  <2>1. place' = place /\ torn' = [torn EXCEPT ![s] = TRUE] /\ log' = log
    BY <1>2 DEF Tear, header
  <2>2. HomeShape' BY <2>1
  <2>3. ASSUME NEW t \in Sessions PROVE Size(t) <= Size(t)'
    <3>1. log'[t] = log[t] /\ (torn'[t] = torn[t] \/ torn'[t] = TRUE) BY <2>1
    <3>2. QED BY <3>1 DEF Size
  <2>4. QED BY <2>2, <2>3
<1>3. ASSUME HomeShape', log' = log, torn' = torn
      PROVE  HomeShape' /\ \A t \in Sessions : Size(t) <= Size(t)'
  BY <1>3 DEF Size
<1>4. ASSUME NEW s \in Sessions, NEW to \in Places, Move(s, to)
      PROVE  HomeShape' /\ log' = log /\ torn' = torn
  BY <1>4 DEF Move, rollout
<1>5. ASSUME NEW s \in Sessions, Create(s)
      PROVE  HomeShape' /\ log' = log /\ torn' = torn
  BY <1>5, FolderNames DEF Create
<1>6. CASE \/ \E s \in Sessions :
                 \/ \E value \in Rows : WriteRow(s, value)
                 \/ \E d \in Range(Stores), n \in 1..Lines : Project(s, d, n)
                 \/ \E value \in {"unrecorded", "open", "closed"} : SetEdge(s, value)
                 \/ \E value \in BOOLEAN : SetAlive(s, value)
           \/ \E value \in BOOLEAN : SetReadable(value)
  <2>1. place' = place /\ log' = log /\ torn' = torn
    BY <1>6 DEF WriteRow, Project, SetEdge, SetAlive, SetReadable, rollout
  <2>2. QED BY <1>3, <2>1
<1>7. QED BY <1>1, <1>2, <1>3, <1>4, <1>5, <1>6 DEF HomeTurn

\* Where a rollout is now is held for it.
LEMMA HeldNow ==
    ASSUME NEW p \in Paths, There(p), Where(p.session) \in been[p.session]
    PROVE  Size(p.session) \in Held(p)
BY DEF There, Held, Where

LEMMA SweepInitially == ObserverStart => SweepInv
<1> SUFFICES ASSUME ObserverStart PROVE SweepInv OBVIOUS
<1>1. PICK here \in [Sessions -> Places] : place = here BY DEF ObserverStart, HomeInit
<1>2. Meta \in Records BY DEF Meta, Record, Records, Kinds
<1>3. HomeShape BY <1>1, <1>2 DEF ObserverStart, HomeInit, HomeShape
<1>4. QED BY <1>3 DEF ObserverStart, ObserverInit, SweepInv, Sweeping, Swept

\* A path that is not where its rollout is can be dropped, or one just found.
LEMMA DropHead ==
    ASSUME HomeShape, sweep.todo \in Seq(Paths), sweep.todo # <<>>, Ordered(sweep.todo),
           Closed(sweep.todo), sweep'.todo = Tail(sweep.todo),
           UNCHANGED <<place, unarchived, been>>, found \subseteq found',
           \A s \in Sessions : There(Head(sweep.todo)) /\ Head(sweep.todo).session = s =>
              FoundOf(s)',
           \A s \in Sessions : Ahead(s)
    PROVE  /\ sweep'.todo \in Seq(Paths) /\ Ordered(sweep'.todo) /\ Closed(sweep'.todo)
           /\ \A s \in Sessions : Ahead(s)'
<1> DEFINE h == Head(sweep.todo)
<1>1. /\ h \in Paths /\ Tail(sweep.todo) \in Seq(Paths) /\ Ordered(Tail(sweep.todo))
      /\ \A p \in Range(sweep.todo) : p = h \/ p \in Range(Tail(sweep.todo))
      /\ Range(Tail(sweep.todo)) \subseteq Range(sweep.todo)
      /\ h.folder = "archived_sessions" =>
            \A p \in Range(sweep.todo) : p.folder = "archived_sessions"
  BY TailVisits
<1> HIDE DEF h
<1>2. ASSUME NEW s \in Sessions, NEW t \in Sessions,
             [folder |-> "sessions", session |-> s] \in Range(Tail(sweep.todo))
      PROVE  [folder |-> "archived_sessions", session |-> t] \in Range(Tail(sweep.todo))
  <2>1. [folder |-> "archived_sessions", session |-> t] \in Range(sweep.todo)
    BY <1>1, <1>2 DEF Closed
  <2>2. h.folder # "archived_sessions"
    <3>1. [folder |-> "sessions", session |-> s].folder # "archived_sessions" OBVIOUS
    <3>2. QED BY <1>1, <1>2, <3>1
  <2>3. h # [folder |-> "archived_sessions", session |-> t] BY <2>2
  <2>4. QED BY <1>1, <2>1, <2>3
<1>3. Closed(Tail(sweep.todo)) BY <1>2 DEF Closed
<1>4. ASSUME NEW s \in Sessions PROVE Ahead(s)'
  <2>1. CASE FoundOf(s) BY <2>1 DEF Ahead, FoundOf
  <2>2. CASE s \in unarchived \/ Nowhere(s) BY <2>2 DEF Ahead, Nowhere
  <2>3. CASE Put(s) \in Range(sweep.todo)
    <3>1. CASE Put(s) = h
      <4>1. h.session = s /\ There(h) BY <3>1 DEF Put, There
      <4>2. FoundOf(s)' BY <4>1 DEF h
      <4>3. QED BY <4>2 DEF Ahead
    <3>2. CASE Put(s) \in Range(Tail(sweep.todo)) BY <3>2 DEF Ahead, Put
    <3>3. QED BY <1>1, <2>3, <3>1, <3>2
  <2>4. QED BY <2>1, <2>2, <2>3 DEF Ahead
<1>5. QED BY <1>1, <1>3, <1>4

LEMMA SweepKept == SweepInv /\ [ObserverNext]_observerAll => SweepInv'
<1> SUFFICES ASSUME SweepInv, [ObserverNext]_observerAll PROVE SweepInv' OBVIOUS
<1>1. CASE ObserverStep /\ UNCHANGED home
  <2>1. /\ UNCHANGED <<place, log, torn>> /\ HomeShape /\ HomeShape'
        /\ \A s \in Sessions : Size(s)' = Size(s) /\ Where(s)' = Where(s) /\ Size(s) \in Nat
        /\ \A p \in Paths : There(p)' = There(p)
    BY <1>1, SizesAreNats DEF home, rollout, SweepInv, HomeShape, Size, Where, There
  <2>2. CASE PollStart
    <3>1. /\ pc' = "pollStat" /\ found' = {} /\ been' = [s \in Sessions |-> {Where(s)}]
          /\ sweep' = [todo |-> Sweep, size |-> 0, created |-> {}, deleted |-> {}, at |-> 1]
      BY <2>2 DEF PollStart, NoSweep, SweepInv
    <3>2. Closed(Sweep) BY SweepCovers, FolderNames DEF Closed, Paths
    <3>3. ASSUME NEW s \in Sessions PROVE Ahead(s)'
      <4>1. place[s] \in Places BY <2>1 DEF HomeShape
      <4>2. CASE place[s] = "nowhere" BY <3>1, <4>2 DEF Ahead, Nowhere, Where
      <4>3. CASE place[s] # "nowhere"
        <5>1. Put(s)' = Put(s) /\ Put(s) \in Paths
          BY <2>1, <4>1, <4>3, FolderNames DEF Put, Paths
        <5>2. QED BY <3>1, <5>1, SweepCovers DEF Ahead
      <4>4. QED BY <4>2, <4>3
    <3>4. \A s \in Sessions : Where(s)' \in been'[s] BY <2>1, <3>1
    <3>5. FoundIsTrue' BY <3>1 DEF FoundIsTrue
    <3>6. SweepIsRecord' BY <3>1 DEF SweepIsRecord
    <3>7. QED BY <2>1, <3>1, <3>2, <3>3, <3>4, <3>5, <3>6, SweepCovers
              DEF SweepInv, Sweeping, Swept
  <2>3. CASE SweepStat
    <3>1. /\ pc = "pollStat" /\ sweep.todo # <<>> /\ UNCHANGED <<found, been, unarchived>>
      BY <2>3 DEF SweepStat, Goto, watchVars
    <3>2. /\ SweepIsRecord /\ sweep.todo \in Seq(Paths)
          /\ Ordered(sweep.todo) /\ Closed(sweep.todo) /\ FoundIsTrue
          /\ \A s \in Sessions : Where(s) \in been[s] /\ Ahead(s)
      BY <3>1 DEF SweepInv, Sweeping
    <3>3. PICK p \in Paths : p = Head(sweep.todo) BY <3>1, <3>2, TailVisits
    <3>4. /\ p.session \in Sessions
          /\ IF There(p)
             THEN sweep' = [sweep EXCEPT !.size = Size(p.session)] /\ pc' = "pollHash"
             ELSE sweep' = [sweep EXCEPT !.todo = Tail(@)] /\ pc' = "pollStat"
      BY <2>3, <3>3 DEF SweepStat, Goto, Paths
    <3>5. FoundIsTrue' /\ SweepIsRecord' /\ (\A s \in Sessions : Where(s)' \in been'[s])
      BY <2>1, <3>1, <3>2, <3>4 DEF FoundIsTrue, SweepIsRecord, Held
    <3>6. CASE There(p)
      <4>1. sweep'.todo = sweep.todo /\ sweep'.size = Size(p.session) /\ pc' = "pollHash"
        BY <3>2, <3>6, <3>4 DEF SweepIsRecord
      <4>2. \A s \in Sessions : Ahead(s)'
        BY <2>1, <3>1, <3>2, <4>1 DEF Ahead, FoundOf, Nowhere, Put
      <4>3. /\ sweep'.size \in Held(p)' /\ sweep'.size \in Nat
            /\ sweep'.size <= Size(p.session)'
        BY <2>1, <3>1, <3>2, <3>4, <3>6, <4>1, HeldNow DEF Held
      <4>4. Head(sweep'.todo) = p BY <3>3, <4>1
      <4>5. QED BY <2>1, <3>1, <3>2, <3>5, <4>1, <4>2, <4>3, <4>4 DEF SweepInv, Sweeping, Swept
    <3>7. CASE ~There(p)
      <4>1. sweep'.todo = Tail(sweep.todo) /\ pc' = "pollStat"
        BY <3>2, <3>7, <3>4 DEF SweepIsRecord
      <4>2. /\ sweep'.todo \in Seq(Paths) /\ Ordered(sweep'.todo) /\ Closed(sweep'.todo)
            /\ \A s \in Sessions : Ahead(s)'
        BY <2>1, <3>1, <3>2, <3>3, <3>7, <4>1, DropHead
      <4>3. QED BY <2>1, <3>5, <4>1, <4>2 DEF SweepInv, Sweeping, Swept
    <3>8. QED BY <3>6, <3>7
  <2>4. CASE SweepHash
    <3>1. /\ pc = "pollHash" /\ pc' = "pollStat" /\ UNCHANGED <<been, unarchived>>
          /\ found' = found \cup Hashed(Head(sweep.todo))
          /\ sweep' = [sweep EXCEPT !.todo = Tail(@)]
      BY <2>4 DEF SweepHash, Goto, watchVars
    <3>2. /\ SweepIsRecord /\ sweep.todo \in Seq(Paths) /\ sweep.todo # <<>>
          /\ Ordered(sweep.todo) /\ Closed(sweep.todo) /\ FoundIsTrue
          /\ \A s \in Sessions : Where(s) \in been[s] /\ Ahead(s)
          /\ sweep.size \in Held(Head(sweep.todo))
          /\ sweep.size <= Size(Head(sweep.todo).session)
      BY <3>1 DEF SweepInv, Sweeping
    <3>3. PICK p \in Paths : p = Head(sweep.todo) BY <3>2, TailVisits
    <3>4. p.session \in Sessions /\ found' = found \cup Hashed(p) BY <3>1, <3>3 DEF Paths
    <3>5. sweep'.todo = Tail(sweep.todo) /\ SweepIsRecord'
      BY <3>1, <3>2 DEF SweepIsRecord
    <3>6. ASSUME There(p), NEW s \in Sessions, s = p.session PROVE FoundOf(s)'
      <4> DEFINE f == [path |-> p, size |-> sweep.size, content |-> Size(p.session)]
      <4>1. f \in found' BY <3>4, <3>6 DEF Hashed
      <4>2. f.path = p OBVIOUS
      <4> HIDE DEF f
      <4>3. \E g \in found' : g.path.session = s BY <3>6, <4>1, <4>2
      <4>4. QED BY <4>3 DEF FoundOf
    <3>7. /\ sweep'.todo \in Seq(Paths) /\ Ordered(sweep'.todo) /\ Closed(sweep'.todo)
          /\ \A s \in Sessions : Ahead(s)'
      BY <2>1, <3>1, <3>2, <3>3, <3>5, <3>6, DropHead
    <3>8. FoundIsTrue'
      <4>1. ASSUME NEW f \in Hashed(p)
            PROVE  /\ f.path \in Paths /\ {f.size, f.content} \subseteq Held(f.path)
                   /\ f.size <= f.content
        <5>1. There(p) /\ f = [path |-> p, size |-> sweep.size, content |-> Size(p.session)]
          BY <4>1 DEF Hashed
        <5>2. Size(p.session) \in Held(p) BY <3>2, <3>4, <5>1, HeldNow
        <5>3. QED BY <3>2, <3>3, <5>1, <5>2
      <4>2. \A q \in Paths : Held(q)' = Held(q) BY <3>1 DEF Held
      <4>3. QED BY <3>2, <3>4, <4>1, <4>2 DEF FoundIsTrue
    <3>9. \A s \in Sessions : Where(s)' \in been'[s] BY <2>1, <3>1, <3>2
    <3>10. QED BY <2>1, <3>1, <3>5, <3>7, <3>8, <3>9 DEF SweepInv, Sweeping, Swept
  <2>5. CASE SweepEnd
    <3>1. /\ pc = "pollStat" /\ pc' = "pollOpen" /\ sweep.todo = <<>>
          /\ UNCHANGED <<found, been, unarchived>>
      BY <2>5 DEF SweepEnd, Goto, watchVars
    <3>2. FoundIsTrue /\ (\A s \in Sessions : Ahead(s)) BY <3>1 DEF SweepInv, Sweeping
    <3>3. \A s \in Sessions : FoundOf(s) \/ s \in unarchived \/ Nowhere(s)
      <4>1. Range(sweep.todo) = {} BY <3>1 DEF Range
      <4>2. QED BY <3>2, <4>1 DEF Ahead
    <3>4. FoundIsTrue' BY <3>1, <3>2 DEF FoundIsTrue, Held
    <3>5. SweepIsTrue' BY <3>1, <3>3, <3>4 DEF SweepIsTrue, FoundIsTrue, FoundOf, Nowhere
    <3>6. QED BY <2>1, <3>1, <3>4, <3>5 DEF SweepInv, Sweeping, Swept
  <2>6. CASE Swept /\ Swept' /\ UNCHANGED <<found, been, unarchived>>
    <3>1. FoundIsTrue /\ SweepIsTrue BY <2>6 DEF SweepInv
    <3>2. FoundIsTrue' BY <2>6, <3>1 DEF FoundIsTrue, Held
    <3>3. SweepIsTrue' BY <2>6, <3>1 DEF SweepIsTrue, Held
    <3>4. QED BY <2>1, <2>6, <3>2, <3>3 DEF SweepInv, Sweeping, Swept
  <2>7. CASE pc' = "idle" /\ PollEnds
    BY <2>1, <2>7 DEF PollEnds, SweepInv, Sweeping, Swept
  <2>8. CASE WalkFails BY <2>7, <2>8 DEF WalkFails, Answer
  <2>9. CASE OpenStore
    BY <2>6, <2>7, <2>9 DEF OpenStore, Goto, Answer, Swept, watchVars
  <2>10. CASE PassOver BY <2>6, <2>10 DEF PassOver, Goto, Swept
  <2>11. CASE ReadThreads \/ ReadCursors
    BY <2>6, <2>11 DEF ReadThreads, ReadCursors, Goto, Swept, watchVars
  <2>12. CASE \/ CountRows("pollCount", "threads", "pollRows")
              \/ CountRows("pollCountCursors", "cursors", "pollCursors")
    BY <2>6, <2>12 DEF CountRows, Goto, Swept, watchVars
  <2>13. CASE PollCompare BY <2>7, <2>13 DEF PollCompare, Answer
  <2>14. QED
    BY <1>1, <2>2, <2>3, <2>4, <2>5, <2>8, <2>9, <2>10, <2>11, <2>12, <2>13 DEF ObserverStep
<1>2. CASE HomeTurn /\ ObserverWatch
  <2>1. UNCHANGED <<pc, sweep, found>> BY <1>2, TurnKeeps DEF ObserverWatch
  <2>2. HomeShape /\ HomeShape' /\ (\A s \in Sessions : Size(s) <= Size(s)')
    BY <1>2, SizesGrow DEF SweepInv
  <2>3. CASE Sweeping
    <3>1. /\ \A s \in Sessions : been'[s] = been[s] \cup {Where(s)'}
          /\ unarchived' = unarchived \cup
                {s \in Sessions : place'[s] = "sessions" /\ place[s] # "sessions"}
      BY <1>2, <2>3 DEF ObserverWatch
    <3>2. /\ SweepIsRecord /\ sweep.todo \in Seq(Paths)
          /\ Ordered(sweep.todo) /\ Closed(sweep.todo) /\ FoundIsTrue
          /\ \A s \in Sessions : Where(s) \in been[s] /\ Ahead(s)
      BY <2>3 DEF SweepInv
    <3>3. \A p \in Paths : Held(p) \subseteq Held(p)' BY <3>1 DEF Held, Paths
    <3>4. FoundIsTrue' BY <2>1, <3>2, <3>3 DEF FoundIsTrue
    <3>5. ASSUME NEW s \in Sessions PROVE Ahead(s)'
      <4>1. place[s] \in Places /\ place'[s] \in Places BY <2>2 DEF HomeShape
      <4>2. \A b \in been[s] : b \in been'[s] BY <3>1
      <4>3. CASE FoundOf(s) BY <2>1, <4>3 DEF Ahead, FoundOf
      <4>4. CASE s \in unarchived \/ Nowhere(s) BY <3>1, <4>2, <4>4 DEF Ahead, Nowhere
      <4>5. CASE Put(s) \in Range(sweep.todo)
        <5>1. CASE place'[s] = place[s] BY <2>1, <4>5, <5>1 DEF Ahead, Put
        <5>2. CASE place'[s] = "nowhere"
          <6>1. Where(s)' \in been'[s] /\ Where(s)'.place = "nowhere"
            BY <3>1, <5>2 DEF Where
          <6>2. QED BY <6>1 DEF Ahead, Nowhere
        <5>3. CASE place'[s] = "sessions" /\ place[s] # "sessions"
          BY <3>1, <5>3 DEF Ahead
        <5>4. CASE place'[s] = "archived_sessions" /\ place[s] = "sessions"
          BY <2>1, <3>2, <4>5, <5>4 DEF Ahead, Put, Closed
        <5>5. CASE place[s] = "nowhere"
          <6>1. Where(s) \in been'[s] /\ Where(s).place = "nowhere"
            BY <3>2, <4>2, <5>5 DEF Where
          <6>2. QED BY <6>1 DEF Ahead, Nowhere
        <5>6. QED BY <4>1, <5>1, <5>2, <5>3, <5>4, <5>5, FolderNames
      <4>6. QED BY <3>2, <4>3, <4>4, <4>5 DEF Ahead
    <3>6. SweepIsRecord' /\ (\A s \in Sessions : Where(s)' \in been'[s])
      BY <2>1, <3>1, <3>2 DEF SweepIsRecord
    <3>7. ASSUME pc = "pollHash"
          PROVE  /\ sweep.todo # <<>> /\ sweep.size \in Nat
                 /\ sweep.size \in Held(Head(sweep.todo))'
                 /\ sweep.size <= Size(Head(sweep.todo).session)'
      <4>1. /\ sweep.todo # <<>> /\ sweep.size \in Nat
            /\ sweep.size \in Held(Head(sweep.todo))
            /\ sweep.size <= Size(Head(sweep.todo).session)
        BY <3>7 DEF SweepInv
      <4>2. PICK h \in Paths : h = Head(sweep.todo) BY <3>2, <4>1, TailVisits
      <4>3. h.session \in Sessions BY DEF Paths
      <4>4. PICK s \in Sessions : s = h.session BY <4>3
      <4>5. Size(s) \in Nat /\ Size(s)' \in Nat /\ Size(s) <= Size(s)'
        <5>1. Size(s)' \in Nat BY <2>2 DEF HomeShape, Size
        <5>2. QED BY <2>2, <5>1, SizesAreNats
      <4>6. sweep.size <= Size(s)' BY <4>1, <4>2, <4>4, <4>5
      <4>7. sweep.size \in Held(h)' BY <3>3, <4>1, <4>2
      <4>8. QED BY <2>1, <4>1, <4>2, <4>4, <4>6, <4>7
    <3>8. QED BY <2>1, <2>2, <2>3, <3>2, <3>4, <3>5, <3>6, <3>7 DEF SweepInv, Sweeping, Swept
  <2>4. CASE ~Sweeping
    <3>1. UNCHANGED unarchived /\ \A s \in Sessions : been'[s] = been[s]
      BY <1>2, <2>4 DEF ObserverWatch
    <3>2. CASE Swept
      <4>1. FoundIsTrue /\ SweepIsTrue BY <3>2 DEF SweepInv
      <4>2. \A p \in Paths : Held(p)' = Held(p) BY <3>1 DEF Held, Paths
      <4>3. FoundIsTrue' BY <2>1, <4>1, <4>2 DEF FoundIsTrue
      <4>4. SweepIsTrue' BY <2>1, <3>1, <3>2, <4>1, <4>3 DEF SweepIsTrue, FoundIsTrue
      <4>5. QED BY <2>1, <2>2, <3>2, <4>3, <4>4 DEF SweepInv, Sweeping, Swept
    <3>3. CASE ~Swept BY <2>1, <2>2, <2>4, <3>3 DEF SweepInv, Sweeping, Swept
    <3>4. QED BY <3>2, <3>3
  <2>5. QED BY <2>3, <2>4
<1>3. CASE UNCHANGED observerAll
  <2>1. UNCHANGED <<pc, place, log, torn, sweep, found, been, unarchived>>
    BY <1>3 DEF observerAll, observerVars, home, rollout, watchVars
  <2>2. QED BY <2>1 DEF SweepInv, HomeShape, Sweeping, Swept, SweepIsRecord, Where, Size,
                        Ahead, FoundOf, Nowhere, Put, FoundIsTrue, Held, SweepIsTrue
<1>4. QED BY <1>1, <1>2, <1>3 DEF ObserverNext, ObserverStep

\* A sweep tells no untruth of a rollout, and misses only one that was not there or that
\* was put back into sessions/ behind it (poll_once).
THEOREM SweepIsTrueHolds == ObserverSpec => []SweepIsTrue
<1>1. SweepInv => SweepIsTrue BY DEF SweepInv, SweepIsTrue
<1>2. QED BY <1>1, SweepInitially, SweepKept, PTL
          DEF ObserverSpec, ObserverStart, ObserverNext, observerAll

-----------------------------------------------------------------------------
\* Where the rollouts are and what their rows say.
HomeRows ==
    /\ place \in [Sessions -> Places]
    /\ row \in [Sessions -> Rows]
    /\ readable \in BOOLEAN
    /\ named \subseteq Sessions

LEMMA TurnTyped ==
    ASSUME HomeRows, HomeTurn
    PROVE  /\ HomeRows' /\ pc' = pc /\ result' = result
           /\ named' = named /\ claim' = claim
<1> USE DEF HomeRows, Turn, header
<1>1. "sessions" \in Places BY FolderNames
<1>2. CASE \E s \in Sessions, r \in Records : WriteLine(s, r) BY <1>2 DEF WriteLine
<1>3. CASE \E s \in Sessions : Tear(s) BY <1>3 DEF Tear
<1>4. CASE \E s \in Sessions : Create(s) BY <1>1, <1>4 DEF Create
<1>5. CASE \E s \in Sessions, to \in Places : Move(s, to) BY <1>5 DEF Move
<1>6. CASE \E s \in Sessions, value \in Rows : WriteRow(s, value) BY <1>6 DEF WriteRow
<1>7. CASE \E s \in Sessions, d \in Range(Stores), n \in 1..Lines : Project(s, d, n)
  BY <1>7 DEF Project
<1>8. CASE \E s \in Sessions, value \in {"unrecorded", "open", "closed"} : SetEdge(s, value)
  BY <1>8 DEF SetEdge
<1>9. CASE \E s \in Sessions, value \in BOOLEAN : SetAlive(s, value) BY <1>9 DEF SetAlive
<1>10. CASE \E value \in BOOLEAN : SetReadable(value) BY <1>10 DEF SetReadable
<1>11. QED
  BY <1>2, <1>3, <1>4, <1>5, <1>6, <1>7, <1>8, <1>9, <1>10 DEF HomeTurn
LEMMA HomeRowsInitially == HomeInit => HomeRows
<1> SUFFICES ASSUME HomeInit PROVE HomeRows OBVIOUS
<1>1. PICK here \in [Sessions -> Places] :
         /\ place = here
         /\ row \in [Sessions -> {"absent"} \cup (Range(here) \cap Range(Folders))]
  BY DEF HomeInit
<1>2. QED BY <1>1 DEF HomeInit, HomeRows, Rows

-----------------------------------------------------------------------------
(* The layer to blame, and the rollout to repair.                          *)

routerAll == <<home, pc, result, routerVars>>
RouterNext == RouterStep \/ (HomeTurn /\ RouterWatch)
RouterBegin == HomeInit /\ pc = "idle" /\ result = "none" /\ RouterInit

RouterHome ==
    /\ HomeRows
    /\ stayed \subseteq Sessions
    /\ couldRead \in BOOLEAN /\ (couldRead => readable)

Routing == pc \in {"routeLook", "routeExists", "routeStore", "routeVerdict"}
Piloting == pc \in {"pilotSelect", "pilotSweep", "pilotRoute"}
\* The thread's rollout and row are still where they were when its command began.
Steady == route.thread \in stayed \cap named

RouteIsRecord ==
    route = [thread |-> route.thread, todo |-> route.todo, target |-> route.target,
             exists |-> route.exists, stores |-> route.stores, status |-> route.status,
             error |-> route.error, cause |-> route.cause]
PilotIsRecord ==
    pilot = [on |-> pilot.on, repair |-> pilot.repair, sweep |-> pilot.sweep,
             found |-> pilot.found, threads |-> pilot.threads, target |-> pilot.target]

\* While the files are looked at, a rollout that stays is still ahead.
LookInv ==
    /\ route.todo \in Seq(Paths) /\ ~route.exists /\ route.status = "none" /\ ~route.error
    /\ Steady /\ OnDisk(route.thread) => Put(route.thread) \in Range(route.todo)

\* The one file that was found, and is there if it stays.
TargetInv ==
    /\ \E p \in Paths : route.target = {p} /\ p.session = route.thread /\ (Steady => There(p))
    /\ route.status = "none"

\* A row that stays is found unless the database could not be read.
StoreInv ==
    /\ TargetInv /\ route.stores \in Seq(Range(Stores))
    /\ Steady => route.exists
    /\ Steady /\ couldRead =>
          ~route.error /\ (IndexStore \in Range(route.stores) \/ row[route.thread] = "absent")

VerdictInv ==
    Steady =>
       LET s == route.thread IN
       \/ ~route.exists /\ route.status = "none" /\ ~OnDisk(s)
       \/ /\ route.exists /\ OnDisk(s)
          /\ Recorded => row[s] # "absent" /\ (Windows \/ row[s] = place[s])
          /\ ~Recorded => row[s] # place[s] \/ ~couldRead

\* Every rollout that stays is found, or still ahead of the sweep.
Found(s) == \E f \in pilot.found : f.path = Put(s)
SweptInv ==
    /\ pilot.sweep \in Seq(Paths) /\ route.thread = "none"
    /\ \A s \in stayed : OnDisk(s) => Found(s) \/ Put(s) \in Range(pilot.sweep)
Covered == \A s \in stayed : OnDisk(s) => Found(s)

RouterInv ==
    /\ RouterHome /\ RouteIsRecord /\ PilotIsRecord
    /\ Routing \/ Piloting => result = "none"
    /\ pc = "routeLook" => LookInv
    /\ pc = "routeExists" => TargetInv /\ ~route.error
    /\ pc = "routeStore" => StoreInv
    /\ pc = "routeVerdict" => VerdictInv
    /\ pc \in {"pilotSelect", "pilotSweep"} => SweptInv
    /\ pc = "pilotRoute" \/ (pilot.on /\ Routing) => Covered
    /\ RouteIsTrue /\ RepairsTheOnlyOne

LEMMA ThreadIsName ==
    ASSUME NEW p \in Paths
    PROVE  ThreadOf(p) = IF p.session \in named THEN p.session ELSE "none"
<1>1. CASE p.session \in named
  BY <1>1, Zenon DEF ThreadOf, ResolveThread, Thread
<1>2. CASE p.session \notin named
  BY <1>2, Zenon DEF ThreadOf, ResolveThread, Thread, NoThread
<1>3. QED BY <1>1, <1>2

\* A thread with a name is that of its file.
LEMMA NamedIsThread ==
    ASSUME NEW p \in Paths
    PROVE  /\ ThreadOf(p) # "none" => ThreadOf(p) = p.session /\ p.session \in named
           /\ p.session \in named => ThreadOf(p) = p.session
           /\ p.session \in Sessions /\ p.session # "none"
<1>1. p.session \in Sessions /\ p.session # "none" BY HomeAssumption DEF Paths
<1>2. QED BY <1>1, ThreadIsName

LEMMA DiskIsFolder ==
    ASSUME RouterHome
    PROVE  /\ \A s \in Sessions : OnDisk(s) => /\ Put(s) \in Paths /\ There(Put(s))
                                               /\ place[s] \in Range(Folders)
           /\ \A p \in Paths : There(p) => OnDisk(p.session) /\ p = Put(p.session)
           /\ "absent" \notin Range(Folders)
<1>1. "absent" \notin Range(Folders) /\ "nowhere" \notin Range(Folders) BY FolderNames
<1>2. ASSUME NEW s \in Sessions, OnDisk(s)
      PROVE  Put(s) \in Paths /\ There(Put(s)) /\ place[s] \in Range(Folders)
  BY <1>2 DEF RouterHome, HomeRows, OnDisk, Put, Paths, There, Places
<1>3. ASSUME NEW p \in Paths, There(p)
      PROVE  OnDisk(p.session) /\ p = Put(p.session)
  <2>1. p = [folder |-> p.folder, session |-> p.session] /\ p.folder \in Range(Folders)
    BY DEF Paths
  <2>2. QED BY <1>1, <1>3, <2>1 DEF There, OnDisk, Put
<1>4. QED BY <1>1, <1>2, <1>3

LEMMA StoresInOrder == Stores \in Seq(Range(Stores)) /\ IndexStore \in Range(Stores)
<1>1. Stores \in Seq(STRING) BY HomeAssumption
<1>2. Len(Stores) \in Nat /\ Stores \in [1..Len(Stores) -> STRING] BY <1>1
<1>3. \A i \in 1..Len(Stores) : Stores[i] \in Range(Stores) BY <1>2 DEF Range
<1>4. Stores \in [1..Len(Stores) -> Range(Stores)] BY <1>2, <1>3
<1>5. QED BY <1>2, <1>4, HomeAssumption

\* What the row of a thread says of the file it was asked about.
LEMMA RowSaysWhere ==
    ASSUME NEW t \in Sessions, NEW p \in Paths, p.session = t, RouterHome, There(p)
    PROVE  LET status == RowStatus(t, p) IN
           /\ status \in {"CONSISTENT", "DIVERGED", "UNKNOWN", "UNRECORDED"}
           /\ status \in {"CONSISTENT", "DIVERGED"} =>
                 row[t] # "absent" /\ (Windows \/ row[t] = place[t])
           /\ status = "UNKNOWN" => row[t] # place[t]
           /\ status = "UNRECORDED" => row[t] = "absent"
<1> DEFINE q == [folder |-> row[t], session |-> t]
           kind == Relation(q, p)
<1>1. p = [folder |-> place[t], session |-> t] /\ place[t] \in Range(Folders)
  BY DEF Paths, There
<1>2. q = p <=> row[t] = place[t] BY <1>1
<1>3. /\ kind \in {"EQUIVALENT", "DIFFERENT", "UNKNOWN"}
      /\ kind = "EQUIVALENT" => row[t] = place[t]
      /\ kind = "DIFFERENT" => Windows
      /\ kind = "UNKNOWN" => row[t] # place[t]
  BY <1>2 DEF Relation
<1>4. row[t] = "absent" => row[p.session] # p.folder BY <1>1, DiskIsFolder
<1>5. CASE row[t] = "absent"
  <2>1. RowStatus(t, p) = "UNRECORDED" BY <1>4, <1>5, Zenon DEF RowStatus
  <2>2. QED BY <1>5, <2>1
<1>6. CASE row[t] # "absent"
  <2>1. CASE kind = "EQUIVALENT"
    <3>1. RowStatus(t, p) = "CONSISTENT" BY <1>6, <2>1, Zenon DEF RowStatus
    <3>2. QED BY <1>3, <1>6, <2>1, <3>1
  <2>2. CASE kind = "DIFFERENT"
    <3>1. RowStatus(t, p) = "DIVERGED" BY <1>6, <2>2, Zenon DEF RowStatus
    <3>2. QED BY <1>3, <1>6, <2>2, <3>1
  <2>3. CASE kind = "UNKNOWN"
    <3>1. RowStatus(t, p) = "UNKNOWN" BY <1>6, <2>3, Zenon DEF RowStatus
    <3>2. QED BY <1>3, <1>6, <2>3, <3>1
  <2>4. QED BY <1>3, <2>1, <2>2, <2>3
<1>7. QED BY <1>5, <1>6

LEMMA RouterInitially == RouterBegin => RouterInv
<1> SUFFICES ASSUME RouterBegin PROVE RouterInv OBVIOUS
<1> USE DEF RouterBegin, HomeInit, RouterInit
<1>1. HomeRows BY HomeRowsInitially
<1>2. RouterHome BY <1>1 DEF RouterHome
<1>3. RouteIsRecord /\ PilotIsRecord BY DEF RouteIsRecord, PilotIsRecord, NoRoute, NoPilot
<1>4. QED
  BY <1>2, <1>3 DEF RouterInv, Routing, Piloting, RouteIsTrue, Routed, RepairsTheOnlyOne

\* What a turn leaves: less that stayed, and all of that as it was.
LEMMA TurnForRouter ==
    ASSUME RouterHome, HomeTurn, RouterWatch
    PROVE  /\ RouterHome' /\ pc' = pc /\ result' = result /\ named' = named
           /\ route' = route /\ pilot' = pilot /\ stayed' \subseteq stayed
           /\ \A s \in stayed' : place'[s] = place[s] /\ row'[s] = row[s]
           /\ couldRead' => couldRead
<1>1. /\ route' = route /\ pilot' = pilot /\ couldRead' = (couldRead /\ readable')
      /\ stayed' = {s \in stayed : place'[s] = place[s] /\ row'[s] = row[s]}
  BY DEF RouterWatch
<1>2. HomeRows' /\ pc' = pc /\ result' = result /\ named' = named
  BY TurnTyped DEF RouterHome
<1>3. QED BY <1>1, <1>2 DEF RouterHome, HomeRows

\* A turn leaves what was found true of all that stays.
LEMMA RouterUnderCodex == RouterInv /\ HomeTurn /\ RouterWatch => RouterInv'
<1> SUFFICES ASSUME RouterInv, HomeTurn, RouterWatch PROVE RouterInv' OBVIOUS
<1>1. /\ RouterHome /\ RouterHome' /\ pc' = pc /\ result' = result /\ named' = named
      /\ route' = route /\ pilot' = pilot /\ stayed' \subseteq stayed
      /\ \A s \in stayed' : place'[s] = place[s] /\ row'[s] = row[s]
      /\ couldRead' => couldRead
  BY TurnForRouter DEF RouterInv
<1>2. PICK t : t = route.thread OBVIOUS
<1>3. /\ stayed \subseteq Sessions
      /\ \A s \in stayed' : (OnDisk(s)' <=> OnDisk(s)) /\ Put(s)' = Put(s)
                            /\ place'[s] = place[s] /\ row'[s] = row[s]
      /\ \A p \in Paths : p.session \in stayed' /\ There(p) => There(p)'
  BY <1>1 DEF RouterHome, HomeRows, OnDisk, Put, There
<1>4. (Steady' => Steady /\ t \in stayed') BY <1>1, <1>2 DEF Steady
<1>5. (RouteIsRecord /\ PilotIsRecord)' BY <1>1 DEF RouterInv, RouteIsRecord, PilotIsRecord
<1>6. (Routing \/ Piloting => result = "none")' BY <1>1 DEF RouterInv, Routing, Piloting
<1>7. LookInv => LookInv'
  BY <1>1, <1>2, <1>3, <1>4 DEF LookInv
<1>8. TargetInv => TargetInv'
  <2> SUFFICES ASSUME TargetInv PROVE TargetInv' OBVIOUS
  <2>1. PICK p \in Paths : route.target = {p} /\ p.session = t /\ (Steady => There(p))
    BY <1>2 DEF TargetInv
  <2>2. Steady' => There(p)' BY <1>3, <1>4, <2>1
  <2>3. QED BY <1>1, <1>2, <2>1, <2>2 DEF TargetInv
<1>9. StoreInv => StoreInv' BY <1>1, <1>2, <1>3, <1>4, <1>8 DEF StoreInv
<1>10. VerdictInv => VerdictInv'
  <2>1. Recorded' = Recorded BY <1>1 DEF Recorded
  <2>2. QED BY <1>1, <1>2, <1>3, <1>4, <2>1 DEF VerdictInv
<1>11. \A s \in stayed' : Found(s)' = Found(s)
  BY <1>1, <1>3 DEF Found
<1>12. SweptInv => SweptInv'
  <2> SUFFICES ASSUME SweptInv PROVE SweptInv' OBVIOUS
  <2>1. \A s \in stayed' : OnDisk(s)' => Found(s)' \/ Put(s)' \in Range(pilot'.sweep)
    BY <1>1, <1>3, <1>11 DEF SweptInv
  <2>2. QED BY <1>1, <2>1 DEF SweptInv
<1>13. Covered => Covered'
  <2> SUFFICES ASSUME Covered PROVE Covered' OBVIOUS
  <2>1. \A s \in stayed' : OnDisk(s)' => Found(s)' BY <1>1, <1>3, <1>11 DEF Covered
  <2>2. QED BY <2>1 DEF Covered
<1>14. RouteIsTrue'
  <2>1. RouteIsTrue /\ (Routed' => Routed) BY <1>1 DEF RouterInv, Routed
  <2>2. QED BY <1>1, <1>2, <1>3, <1>4, <2>1 DEF RouteIsTrue, Steady
<1>15. RepairsTheOnlyOne'
  <2>1. RepairsTheOnlyOne BY DEF RouterInv
  <2>2. QED BY <1>1, <1>3, <2>1 DEF RepairsTheOnlyOne
<1>16. QED
  BY <1>1, <1>5, <1>6, <1>7, <1>8, <1>9, <1>10, <1>12, <1>13, <1>14, <1>15
     DEF RouterInv, Routing

\* What a route says is true once it is said.
LEMMA VerdictIsTrue ==
    ASSUME VerdictInv, Steady, NEW cause, RouterHome,
           /\ route.exists /\ ~Recorded => cause = "DERIVED_SQLITE_INDEX"
           /\ ~route.exists /\ Recorded => cause = "SOURCE_ROLLOUT"
           /\ ~route.exists /\ ~Recorded => cause = "NOT_FOUND"
           /\ route.exists /\ Recorded => cause \in Aligned
    PROVE  LET s == route.thread IN
           /\ cause # "SOURCE_ROLLOUT"
           /\ OnDisk(s) <=> cause # "NOT_FOUND"
           /\ cause = "DERIVED_SQLITE_INDEX" => row[s] # place[s] \/ ~couldRead
           /\ cause \in Aligned => row[s] # "absent" /\ (Windows \/ row[s] = place[s])
<1>1. CASE ~route.exists
  <2>1. route.status = "none" /\ ~OnDisk(route.thread) BY <1>1 DEF VerdictInv
  <2>2. cause = "NOT_FOUND" BY <1>1, <2>1 DEF Recorded
  <2>3. QED BY <2>1, <2>2 DEF Aligned
<1>2. CASE route.exists
  <2>1. /\ OnDisk(route.thread)
        /\ Recorded => /\ row[route.thread] # "absent"
                       /\ Windows \/ row[route.thread] = place[route.thread]
        /\ ~Recorded => row[route.thread] # place[route.thread] \/ ~couldRead
    BY <1>2 DEF VerdictInv
  <2>2. CASE Recorded BY <1>2, <2>1, <2>2 DEF Aligned
  <2>3. CASE ~Recorded BY <1>2, <2>1, <2>3 DEF Aligned
  <2>4. QED BY <2>2, <2>3
<1>3. QED BY <1>1, <1>2

LEMMA RouterUnderRouter == RouterInv /\ RouterStep => RouterInv'
<1> SUFFICES ASSUME RouterInv, RouterStep PROVE RouterInv' OBVIOUS
<1>1. /\ UNCHANGED <<place, row, readable, named>> /\ RouterHome
      /\ \A s \in Sessions : (OnDisk(s)' <=> OnDisk(s)) /\ Put(s)' = Put(s)
      /\ \A p \in Paths : There(p)' <=> There(p)
  BY DEF RouterStep, home, header, RouterInv, OnDisk, Put, There
<1>2. stayed \subseteq Sessions /\ "none" \notin Sessions
  BY <1>1, HomeAssumption DEF RouterHome
\* A command starts, and all of the home is still to be left alone.
<1>3. ASSUME Fresh
      PROVE  RouterHome' /\ stayed' = Sessions
  BY <1>1, <1>3 DEF RouterHome, HomeRows, Fresh
<1>4. ASSUME UNCHANGED kept
      PROVE  RouterHome' /\ stayed' = stayed /\ couldRead' = couldRead
  BY <1>1, <1>4 DEF RouterHome, HomeRows, kept
<1>5. ASSUME NEW s \in Sessions, RouteStart(s) PROVE RouterInv'
  <2>1. /\ route' = [NoRoute EXCEPT !.thread = s, !.todo = Sweep] /\ pilot' = NoPilot
        /\ pc' = "routeLook" /\ result' = "none" /\ RouterHome' /\ stayed' = Sessions
    BY <1>3, <1>5 DEF RouteStart, Look
  <2>2. RouteIsRecord' /\ PilotIsRecord'
    BY <2>1 DEF RouteIsRecord, PilotIsRecord, NoRoute, NoPilot
  <2>3. LookInv'
    <3>1. OnDisk(s)' => Put(s)' \in Range(Sweep)
      BY <1>1, SweepCovers, DiskIsFolder
    <3>2. QED BY <2>1, <3>1, SweepCovers DEF LookInv, NoRoute
  <2>4. QED
    BY <2>1, <2>2, <2>3
       DEF RouterInv, Routing, Piloting, RouteIsTrue, Routed, RepairsTheOnlyOne, NoPilot
<1>6. ASSUME NEW p \in Paths, RoutePath(p) PROVE RouterInv'
  <2>1. /\ pilot' = NoPilot /\ RouterHome' /\ stayed' = Sessions
        /\ route' = [NoRoute EXCEPT !.thread = IF There(p) THEN ThreadOf(p) ELSE "none",
                                    !.target = {q \in {p} : There(q)}]
    BY <1>3, <1>6 DEF RoutePath
  <2>2. RouteIsRecord' /\ PilotIsRecord'
    BY <2>1 DEF RouteIsRecord, PilotIsRecord, NoRoute, NoPilot
  <2>3. CASE ~There(p) /\ pc' = "routeVerdict" /\ result' = "none"
    <3>1. ~Steady' BY <1>2, <2>1, <2>3 DEF Steady, NoRoute
    <3>2. QED
      BY <2>1, <2>2, <2>3, <3>1
         DEF RouterInv, Routing, Piloting, RouteIsTrue, Routed, RepairsTheOnlyOne, NoPilot,
             VerdictInv
  <2>4. CASE There(p) /\ ThreadOf(p) # "none" /\ pc' = "routeExists" /\ result' = "none"
    <3>1. ThreadOf(p) = p.session BY <2>4, NamedIsThread
    <3>2. /\ route'.target = {p} /\ route'.thread = p.session /\ route'.status = "none"
          /\ ~route'.error
      BY <2>1, <2>4, <3>1 DEF NoRoute
    <3>3. TargetInv' BY <1>1, <2>4, <3>2 DEF TargetInv
    <3>4. QED
      BY <2>1, <2>2, <2>4, <3>2, <3>3
         DEF RouterInv, Routing, Piloting, RouteIsTrue, Routed, RepairsTheOnlyOne, NoPilot
  <2>5. CASE pc' = "idle" /\ result' = "IDENTITY_UNKNOWN"
    BY <2>1, <2>2, <2>5
       DEF RouterInv, Routing, Piloting, RouteIsTrue, Routed, RepairsTheOnlyOne, NoPilot
  <2>6. QED BY <1>6, <2>3, <2>4, <2>5 DEF RoutePath, Answer
<1>7. CASE RouteLook
  <2> DEFINE h == Head(route.todo)
  <2>1. /\ pc = "routeLook" /\ route.todo # <<>> /\ pilot' = pilot /\ result' = result
        /\ RouterHome' /\ stayed' = stayed /\ couldRead' = couldRead /\ LookInv
        /\ result = "none"
    BY <1>4, <1>7 DEF RouteLook, RouterInv, Goto, Routing
  <2>2. /\ h \in Paths /\ Tail(route.todo) \in Seq(Paths)
        /\ \A x \in Range(route.todo) : x = h \/ x \in Range(Tail(route.todo))
    BY <2>1, TailOf DEF LookInv
  <2>3. CASE /\ There(h) /\ route.thread # "none" /\ ThreadOf(h) = route.thread
             /\ route' = [route EXCEPT !.target = {h}] /\ pc' = "routeExists"
    <3>1. h.session = route.thread BY <2>2, <2>3, NamedIsThread
    <3>2. RouteIsRecord BY DEF RouterInv
    <3>3. /\ route'.target = {h} /\ route'.thread = h.session /\ route'.status = route.status
          /\ route'.error = route.error /\ RouteIsRecord'
      BY <2>3, <3>1, <3>2 DEF RouteIsRecord
    <3>4. TargetInv' BY <1>1, <2>1, <2>2, <2>3, <3>3 DEF TargetInv, LookInv
    <3>5. Covered => Covered' BY <1>1, <1>2, <2>1 DEF Covered, Found
    <3>6. QED
      BY <2>1, <2>3, <3>3, <3>4, <3>5
         DEF RouterInv, Routing, Piloting, RouteIsTrue, Routed, RepairsTheOnlyOne, LookInv,
             PilotIsRecord
  <2>4. CASE /\ ~(There(h) /\ route.thread # "none" /\ ThreadOf(h) = route.thread)
             /\ route' = [route EXCEPT !.todo = Tail(@)] /\ pc' = "routeLook"
    <3>1. RouteIsRecord BY DEF RouterInv
    <3>2. /\ route'.todo = Tail(route.todo) /\ route'.thread = route.thread
          /\ route'.exists = route.exists /\ route'.status = route.status
          /\ route'.error = route.error /\ RouteIsRecord'
      BY <2>4, <3>1 DEF RouteIsRecord
    <3>3. ASSUME NEW s \in Sessions, s = route.thread, Steady, OnDisk(s)
          PROVE  Put(s) \in Range(Tail(route.todo))
      <4>1. Put(s) \in Range(route.todo) BY <2>1, <3>3 DEF LookInv
      <4>2. Put(s) # h
        <5>1. Put(s) \in Paths /\ There(Put(s)) /\ Put(s).session = s
          BY <1>1, <3>3, DiskIsFolder DEF Put
        <5>2. ThreadOf(Put(s)) = s
          <6>1. s \in named BY <3>3 DEF Steady
          <6>2. PICK p \in Paths : p = Put(s) BY <5>1
          <6>3. ThreadOf(p) = p.session BY <5>1, <6>1, <6>2, NamedIsThread
          <6>4. QED BY <5>1, <6>2, <6>3
        <5>3. s # "none" BY <1>2
        <5>4. QED BY <2>4, <3>3, <5>1, <5>2, <5>3
      <4>3. QED BY <2>2, <4>1, <4>2
    <3> HIDE DEF h
    <3>4. (Steady' <=> Steady) /\ (Steady => route.thread \in Sessions)
      BY <1>1, <1>2, <2>1, <3>2 DEF Steady
    <3>5. ASSUME Steady', OnDisk(route.thread)'
          PROVE  Put(route.thread)' \in Range(Tail(route.todo))
      <4>1. PICK s \in Sessions : s = route.thread BY <3>4, <3>5
      <4>2. OnDisk(s) /\ Put(s)' = Put(s) BY <1>1, <3>2, <3>5, <4>1 DEF OnDisk
      <4>3. Put(route.thread)' = Put(s)' BY <3>2, <4>1 DEF Put
      <4>4. QED BY <3>3, <3>4, <3>5, <4>1, <4>2, <4>3
    <3>6. LookInv' BY <2>1, <2>2, <3>2, <3>5 DEF LookInv
    <3>7. Covered => Covered' BY <1>1, <1>2, <2>1 DEF Covered, Found
    <3>8. QED
      BY <2>1, <2>4, <3>2, <3>6, <3>7
         DEF RouterInv, Routing, Piloting, RouteIsTrue, Routed, RepairsTheOnlyOne, PilotIsRecord
  <2>5. QED BY <1>7, <2>3, <2>4 DEF RouteLook, Goto
<1>8. CASE RouteNoFile
  <2>1. /\ pc = "routeLook" /\ route.todo = <<>> /\ route' = route /\ pilot' = pilot
        /\ pc' = "routeVerdict" /\ result' = result /\ result = "none" /\ LookInv
        /\ RouterHome' /\ stayed' = stayed /\ couldRead' = couldRead
    BY <1>4, <1>8 DEF RouteNoFile, RouterInv, Goto, Routing, routerVars
  <2>2. Range(<<>>) = {} BY DEF Range
  <2>3. Steady => ~OnDisk(route.thread) BY <2>1, <2>2 DEF LookInv
  <2>4. VerdictInv'
    <3>1. Steady' => Steady BY <1>1, <2>1 DEF Steady
    <3>2. PICK t : t = route.thread OBVIOUS
    <3>3. Steady => t \in Sessions BY <1>2, <3>2 DEF Steady
    <3>4. QED BY <1>1, <2>1, <2>3, <3>1, <3>2, <3>3 DEF VerdictInv, LookInv
  <2>5. Covered => Covered' BY <1>1, <1>2, <2>1 DEF Covered, Found
  <2>6. QED
    BY <2>1, <2>4, <2>5
       DEF RouterInv, Routing, Piloting, RouteIsTrue, Routed, RepairsTheOnlyOne, PilotIsRecord,
           RouteIsRecord
<1>9. CASE RouteExists
  <2>1. /\ pc = "routeExists" /\ pilot' = pilot /\ pc' = "routeStore" /\ result' = result
        /\ result = "none" /\ TargetInv /\ ~route.error /\ RouteIsRecord
        /\ RouterHome' /\ stayed' = stayed /\ couldRead' = couldRead
    BY <1>4, <1>9 DEF RouteExists, RouterInv, Goto, Routing
  <2>2. PICK there \in BOOLEAN : there = \E p \in route.target : There(p) OBVIOUS
  <2>3. route' = [route EXCEPT !.exists = there, !.stores = Stores]
    BY <1>9, <2>2 DEF RouteExists
  <2>4. PICK p \in Paths : route.target = {p} /\ p.session = route.thread /\ (Steady => There(p))
    BY <2>1 DEF TargetInv
  <2>5. there <=> There(p) BY <2>4, <2>2
  <2>6. /\ route'.exists = there /\ route'.stores = Stores /\ route'.target = route.target
        /\ route'.thread = route.thread /\ route'.status = route.status
        /\ route'.error = route.error /\ RouteIsRecord'
    BY <2>1, <2>3 DEF RouteIsRecord
  <2>7. Steady' <=> Steady BY <1>1, <2>1, <2>6 DEF Steady
  <2>8. StoreInv'
    <3>1. TargetInv' BY <1>1, <2>1, <2>4, <2>6, <2>7 DEF TargetInv
    <3>2. QED BY <2>1, <2>4, <2>6, <2>7, <2>5, <3>1, StoresInOrder DEF StoreInv
  <2>9. Covered => Covered' BY <1>1, <1>2, <2>1 DEF Covered, Found
  <2>10. QED
    BY <2>1, <2>6, <2>8, <2>9
       DEF RouterInv, Routing, Piloting, RouteIsTrue, Routed, RepairsTheOnlyOne, PilotIsRecord
<1>10. CASE RouteStore
  <2>1. /\ pc = "routeStore" /\ pilot' = pilot /\ result' = result
        /\ result = "none" /\ StoreInv /\ TargetInv /\ RouteIsRecord
        /\ RouterHome' /\ stayed' = stayed /\ couldRead' = couldRead
    BY <1>4, <1>10 DEF RouteStore, RouterInv, Goto, Routing, StoreInv
  <2>2. PICK p \in Paths : route.target = {p} /\ p.session = route.thread /\ (Steady => There(p))
    BY <2>1 DEF TargetInv
  <2>3. PICK t : t = route.thread OBVIOUS
  <2>4. /\ Steady => t \in Sessions /\ OnDisk(t) /\ There(p)
        /\ p.session = t /\ (CHOOSE x \in route.target : TRUE) = p
    BY <1>1, <1>2, <2>2, <2>3, DiskIsFolder DEF Steady
  <2>5. Covered => Covered' BY <1>1, <1>2, <2>1 DEF Covered, Found
  <2> DEFINE d == Head(route.stores)
             status == IF readable /\ d = IndexStore THEN RowStatus(t, p) ELSE "none"
  <2>6. CASE /\ route.stores = <<>> /\ pc' = "routeVerdict"
             /\ route' = [route EXCEPT !.status =
                             IF route.error THEN "UNKNOWN" ELSE "UNRECORDED"]
    <3>1. /\ route'.thread = t /\ route'.exists = route.exists /\ RouteIsRecord'
          /\ route'.status \in {"UNKNOWN", "UNRECORDED"}
      BY <2>1, <2>3, <2>6 DEF RouteIsRecord
    <3>2. ~Recorded' BY <3>1 DEF Recorded
    <3>3. Steady' <=> Steady BY <1>1, <2>1, <2>3, <3>1 DEF Steady
    <3>4. Range(<<>>) = {} BY DEF Range
    <3>5. Steady /\ couldRead => row[t] # place[t]
      BY <1>1, <2>1, <2>3, <2>4, <2>6, <3>4, DiskIsFolder DEF StoreInv
    <3>6. VerdictInv'
      BY <1>1, <2>1, <2>3, <2>4, <3>1, <3>2, <3>3, <3>5 DEF VerdictInv, StoreInv
    <3>7. QED
      BY <2>1, <2>5, <2>6, <3>1, <3>6
         DEF RouterInv, Routing, Piloting, RouteIsTrue, Routed, RepairsTheOnlyOne, PilotIsRecord
  <2>7. CASE /\ route.stores # <<>> /\ status \in {"none", "UNRECORDED"} /\ pc' = "routeStore"
             /\ route' = [route EXCEPT !.stores = Tail(@), !.error = @ \/ ~readable]
    <3>1. /\ route'.thread = t /\ route'.exists = route.exists /\ RouteIsRecord'
          /\ route'.status = route.status /\ route'.target = route.target
          /\ route'.stores = Tail(route.stores) /\ route'.error = (route.error \/ ~readable)
      BY <2>1, <2>3, <2>7 DEF RouteIsRecord
    <3>2. Steady' <=> Steady BY <1>1, <2>1, <2>3, <3>1 DEF Steady
    <3>3. TargetInv' BY <1>1, <2>1, <2>2, <2>3, <3>1, <3>2 DEF TargetInv
    <3>4. /\ d \in Range(Stores) /\ Tail(route.stores) \in Seq(Range(Stores))
          /\ \A x \in Range(route.stores) : x = d \/ x \in Range(Tail(route.stores))
      BY <2>1, <2>7, TailOf DEF StoreInv
    <3>5. ASSUME Steady, couldRead
          PROVE  /\ ~route.error /\ readable
                 /\ IndexStore \in Range(Tail(route.stores)) \/ row[t] = "absent"
      <4>1. /\ ~route.error /\ readable
            /\ IndexStore \in Range(route.stores) \/ row[t] = "absent"
        BY <1>1, <2>1, <2>3, <3>5 DEF StoreInv, RouterHome, HomeRows
      <4>2. ASSUME d = IndexStore PROVE row[t] = "absent"
        <5>1. status = RowStatus(t, p) BY <4>1, <4>2
        <5>2. RowStatus(t, p) \in {"none", "UNRECORDED"} BY <2>7, <5>1
        <5>3. /\ RowStatus(t, p) \in {"CONSISTENT", "DIVERGED", "UNKNOWN", "UNRECORDED"}
              /\ RowStatus(t, p) = "UNRECORDED" => row[t] = "absent"
          BY <1>1, <2>4, <3>5, RowSaysWhere
        <5> HIDE DEF status
        <5>4. QED BY <5>2, <5>3
      <4>3. QED BY <3>4, <4>1, <4>2
    <3> HIDE DEF d, status
    <3>6. StoreInv'
      BY <1>1, <2>1, <2>3, <3>1, <3>2, <3>3, <3>4, <3>5 DEF StoreInv
    <3>7. QED
      BY <2>1, <2>5, <2>7, <3>1, <3>6
         DEF RouterInv, Routing, Piloting, RouteIsTrue, Routed, RepairsTheOnlyOne, PilotIsRecord
  <2>8. CASE /\ status \notin {"none", "UNRECORDED"} /\ pc' = "routeVerdict"
             /\ route' = [route EXCEPT !.status = status]
    <3>1. status = RowStatus(t, p) BY <2>8
    <3>2. PICK said : said = status OBVIOUS
    <3>3. /\ route'.thread = t /\ route'.exists = route.exists /\ RouteIsRecord'
          /\ route'.status = said
      BY <2>1, <2>3, <2>8, <3>2 DEF RouteIsRecord
    <3>4. Steady' <=> Steady BY <1>1, <2>1, <2>3, <3>3 DEF Steady
    <3>5. ASSUME Steady
          PROVE  /\ Recorded' => row[t] # "absent" /\ (Windows \/ row[t] = place[t])
                 /\ ~Recorded' => row[t] # place[t]
      <4>1. /\ said \in {"CONSISTENT", "DIVERGED", "UNKNOWN", "UNRECORDED"}
            /\ said \in {"CONSISTENT", "DIVERGED"} =>
                  row[t] # "absent" /\ (Windows \/ row[t] = place[t])
            /\ said = "UNKNOWN" => row[t] # place[t]
        BY <1>1, <2>4, <3>1, <3>2, <3>5, RowSaysWhere
      <4>2. said # "UNRECORDED" BY <2>8, <3>2
      <4>3. QED BY <3>3, <4>1, <4>2 DEF Recorded
    <3> HIDE DEF d, status
    <3>6. VerdictInv'
      BY <1>1, <2>1, <2>3, <2>4, <3>3, <3>4, <3>5 DEF VerdictInv, StoreInv
    <3>7. QED
      BY <2>1, <2>5, <2>8, <3>3, <3>6
         DEF RouterInv, Routing, Piloting, RouteIsTrue, Routed, RepairsTheOnlyOne, PilotIsRecord
  <2>9. QED BY <1>10, <2>3, <2>4, <2>6, <2>7, <2>8 DEF RouteStore, Goto
<1>11. CASE RouteVerdict
  <2>1. /\ pc = "routeVerdict" /\ pilot' = pilot /\ result = "none"
        /\ VerdictInv /\ RouteIsRecord /\ PilotIsRecord /\ RouterHome'
        /\ stayed' = stayed /\ couldRead' = couldRead
        /\ \/ pilot.on /\ pc' = "pilotRoute" /\ result' = "none"
           \/ ~pilot.on /\ pc' = "idle" /\ result' = "routed"
    BY <1>4, <1>11 DEF RouteVerdict, RouterInv, Goto, Answer, Routing
  <2>2. PICK cause :
           /\ route' = [route EXCEPT !.cause = cause]
           /\ cause \in CASE route.exists /\ ~Recorded  -> {"DERIVED_SQLITE_INDEX"}
                          [] ~route.exists /\ Recorded  -> {"SOURCE_ROLLOUT"}
                          [] ~route.exists /\ ~Recorded -> {"NOT_FOUND"}
                          [] route.exists /\ Recorded   -> Aligned
    BY <1>11 DEF RouteVerdict
  <2>3. /\ route.exists /\ ~Recorded => cause = "DERIVED_SQLITE_INDEX"
        /\ ~route.exists /\ Recorded => cause = "SOURCE_ROLLOUT"
        /\ ~route.exists /\ ~Recorded => cause = "NOT_FOUND"
        /\ route.exists /\ Recorded => cause \in Aligned
    <3>1. CASE route.exists /\ ~Recorded BY <2>2, <3>1, Zenon
    <3>2. CASE ~route.exists /\ Recorded BY <2>2, <3>2, Zenon
    <3>3. CASE ~route.exists /\ ~Recorded BY <2>2, <3>3, Zenon
    <3>4. CASE route.exists /\ Recorded BY <2>2, <3>4, Zenon
    <3>5. QED BY <3>1, <3>2, <3>3, <3>4
  <2>4. PICK t : t = route.thread OBVIOUS
  <2>5. route'.thread = t /\ route'.cause = cause /\ RouteIsRecord'
    BY <2>1, <2>2, <2>4 DEF RouteIsRecord
  <2>6. Steady' <=> Steady BY <1>1, <2>1, <2>4, <2>5 DEF Steady
  <2>7. RouteIsTrue'
    <3>1. Steady => t \in Sessions BY <1>2, <2>4 DEF Steady
    <3>2. Steady =>
             /\ cause # "SOURCE_ROLLOUT"
             /\ OnDisk(t) <=> cause # "NOT_FOUND"
             /\ cause = "DERIVED_SQLITE_INDEX" => row[t] # place[t] \/ ~couldRead
             /\ cause \in Aligned => row[t] # "absent" /\ (Windows \/ row[t] = place[t])
      BY <1>1, <2>1, <2>3, <2>4, VerdictIsTrue
    <3>3. QED BY <1>1, <2>1, <2>5, <2>6, <3>1, <3>2 DEF RouteIsTrue, Steady
  <2>8. Covered => Covered' BY <1>1, <1>2, <2>1 DEF Covered, Found
  <2>9. QED
    BY <2>1, <2>5, <2>7, <2>8 DEF RouterInv, Routing, Piloting, RepairsTheOnlyOne, PilotIsRecord
<1>12. ASSUME NEW repair \in BOOLEAN, PilotStart(repair) PROVE RouterInv'
  <2>1. /\ pilot' = [NoPilot EXCEPT !.on = TRUE, !.repair = repair, !.sweep = Sweep]
        /\ route' = NoRoute /\ RouterHome' /\ stayed' = Sessions
        /\ pc' = "pilotSelect" /\ result' = "none"
    BY <1>3, <1>12 DEF PilotStart
  <2>2. RouteIsRecord' /\ PilotIsRecord' /\ pilot'.sweep = Sweep /\ route'.thread = "none"
    BY <2>1 DEF RouteIsRecord, PilotIsRecord, NoRoute, NoPilot
  <2>3. SweptInv'
    <3>1. \A s \in Sessions : OnDisk(s)' => Put(s)' \in Range(Sweep)
      BY <1>1, SweepCovers, DiskIsFolder
    <3>2. QED BY <2>1, <2>2, <3>1, SweepCovers DEF SweptInv
  <2>4. QED
    BY <2>1, <2>2, <2>3 DEF RouterInv, Routing, Piloting, RouteIsTrue, Routed, RepairsTheOnlyOne
<1>13. CASE PilotSelect
  <2>1. /\ pc = "pilotSelect" /\ route' = route /\ pilot' = pilot /\ RouterHome'
        /\ stayed' = stayed /\ couldRead' = couldRead /\ result = "none" /\ SweptInv
        /\ \/ pc' = "idle" /\ result' \in {"SURFACE_SELECTION_REQUIRED", "CANCELLED"}
           \/ pc' = "pilotSweep" /\ result' = "none"
    BY <1>4, <1>13
       DEF PilotSelect, RouterInv, Goto, Answer, Piloting, routerVars
  <2>2. SweptInv'
    <3>1. \A s \in stayed : Found(s)' = Found(s) BY <1>1, <1>2, <2>1 DEF Found
    <3>2. QED BY <1>1, <1>2, <2>1, <3>1 DEF SweptInv
  <2>3. QED
    BY <2>1, <2>2
       DEF RouterInv, Routing, Piloting, RouteIsTrue, Routed, RepairsTheOnlyOne, PilotIsRecord,
           RouteIsRecord
<1>14. CASE PilotSweep
  <2> DEFINE h == Head(pilot.sweep)
             more == {[path |-> p, thread |-> ThreadOf(p)] : p \in {q \in {h} : There(q)}}
  <2>1. /\ pc = "pilotSweep" /\ pilot.sweep # <<>> /\ route' = route /\ RouterHome'
        /\ stayed' = stayed /\ couldRead' = couldRead /\ result = "none" /\ SweptInv
        /\ pc' = "pilotSweep" /\ result' = "none" /\ PilotIsRecord
        /\ pilot' = [pilot EXCEPT !.sweep = Tail(@), !.found = @ \cup more]
    BY <1>4, <1>14 DEF PilotSweep, RouterInv, Goto, Piloting
  <2>2. There(h) => [path |-> h, thread |-> ThreadOf(h)] \in more OBVIOUS
  <2>3. PICK new : new = more OBVIOUS
  <2>4. There(h) => \E f \in new : f.path = h BY <2>2, <2>3
  <2> HIDE DEF more
  <2>5. /\ pilot'.sweep = Tail(pilot.sweep) /\ pilot'.found = pilot.found \cup new
        /\ PilotIsRecord' /\ pilot'.on = pilot.on
    BY <2>1, <2>3 DEF PilotIsRecord
  <2>6. /\ h \in Paths /\ Tail(pilot.sweep) \in Seq(Paths)
        /\ \A x \in Range(pilot.sweep) : x = h \/ x \in Range(Tail(pilot.sweep))
    BY <2>1, TailOf DEF SweptInv
  <2>7. ASSUME NEW s \in stayed, OnDisk(s)
        PROVE  Found(s)' \/ Put(s)' \in Range(pilot'.sweep)
    <3>1. s \in Sessions /\ Put(s)' = Put(s) BY <1>1, <1>2
    <3>2. CASE Found(s) BY <2>5, <3>1, <3>2 DEF Found
    <3>3. CASE Put(s) = h
      <4>1. There(h) BY <1>1, <2>7, <3>1, <3>3, DiskIsFolder
      <4>2. QED BY <2>4, <2>5, <3>1, <3>3, <4>1 DEF Found
    <3>4. CASE Put(s) \in Range(Tail(pilot.sweep)) BY <2>5, <3>1, <3>4
    <3>5. QED BY <2>1, <2>6, <2>7, <3>1, <3>2, <3>3, <3>4 DEF SweptInv
  <2>8. SweptInv' BY <1>1, <1>2, <2>1, <2>5, <2>6, <2>7 DEF SweptInv
  <2>9. QED
    BY <2>1, <2>5, <2>8
       DEF RouterInv, Routing, Piloting, RouteIsTrue, Routed, RepairsTheOnlyOne, RouteIsRecord
<1>15. CASE PilotGraph
  <2>1. /\ pc = "pilotSweep" /\ pilot.sweep = <<>> /\ route' = route /\ RouterHome'
        /\ stayed' = stayed /\ couldRead' = couldRead /\ result = "none" /\ SweptInv
        /\ pc' = "pilotRoute" /\ result' = "none" /\ PilotIsRecord
        /\ pilot' = [pilot EXCEPT !.threads = {f.thread : f \in pilot.found}]
    BY <1>4, <1>15 DEF PilotGraph, RouterInv, Goto, Piloting
  <2>2. pilot'.found = pilot.found /\ PilotIsRecord' BY <2>1 DEF PilotIsRecord
  <2>3. Range(<<>>) = {} BY DEF Range
  <2>4. Covered' BY <1>1, <1>2, <2>1, <2>2, <2>3 DEF Covered, SweptInv, Found
  <2>5. RouteIsTrue' BY <1>1, <1>2, <2>1 DEF RouteIsTrue, SweptInv
  <2>6. QED
    BY <2>1, <2>2, <2>4, <2>5 DEF RouterInv, Routing, Piloting, RepairsTheOnlyOne, RouteIsRecord
<1>16. ASSUME NEW t \in pilot.threads, PilotRoute(t) PROVE RouterInv'
  <2>1. /\ pc = "pilotRoute" /\ RouterHome' /\ stayed' = stayed /\ couldRead' = couldRead
        /\ result = "none" /\ pc' = "routeLook" /\ result' = "none" /\ PilotIsRecord /\ Covered
        /\ pilot' = [pilot EXCEPT !.threads = @ \ {t}]
        /\ route' = [NoRoute EXCEPT !.thread = t, !.todo = Sweep]
    BY <1>4, <1>16 DEF PilotRoute, RouterInv, Goto, Piloting, Look
  <2>2. pilot'.found = pilot.found /\ PilotIsRecord' BY <2>1 DEF PilotIsRecord
  <2>3. Covered' BY <1>1, <1>2, <2>1, <2>2 DEF Covered, Found
  <2>4. RouteIsRecord' BY <2>1 DEF RouteIsRecord, NoRoute
  <2>5. LookInv'
    <3>1. t \in Sessions /\ OnDisk(t)' => Put(t)' \in Range(Sweep)
      BY <1>1, SweepCovers, DiskIsFolder
    <3>2. Steady' => t \in Sessions BY <1>2, <2>1 DEF Steady, NoRoute
    <3>3. QED BY <2>1, <3>1, <3>2, SweepCovers DEF LookInv, NoRoute
  <2>6. QED
    BY <2>1, <2>2, <2>3, <2>4, <2>5
       DEF RouterInv, Routing, Piloting, RouteIsTrue, Routed, RepairsTheOnlyOne
<1>17. CASE PilotRepair
  <2>1. /\ pc = "pilotRoute" /\ RouterHome' /\ stayed' = stayed /\ couldRead' = couldRead
        /\ route' = route /\ PilotIsRecord /\ Covered /\ pc' = "idle"
    BY <1>4, <1>17 DEF PilotRepair, RouterInv, Answer
  <2>2. CASE /\ result' \in {"INSPECTED", "NO_REPAIRABLE_TARGETS", "MULTIPLE_REPAIR_TARGETS"}
             /\ pilot' = pilot
    BY <2>1, <2>2
       DEF RouterInv, Routing, Piloting, RouteIsTrue, Routed, RepairsTheOnlyOne, PilotIsRecord,
           RouteIsRecord
  <2>3. CASE /\ pilot' = [pilot EXCEPT !.target = Repairable] /\ result' = "repair"
    <3>1. pilot'.target = {f.path : f \in pilot.found} /\ PilotIsRecord'
      BY <2>1, <2>3 DEF PilotIsRecord, Repairable
    <3>2. RepairsTheOnlyOne'
      <4>1. ASSUME NEW s \in stayed, OnDisk(s)
            PROVE  \E p \in pilot'.target : p.session = s
        <5>1. PICK f \in pilot.found : f.path = Put(s) BY <2>1, <4>1 DEF Covered, Found
        <5>2. Put(s) \in pilot'.target /\ Put(s).session = s BY <3>1, <5>1 DEF Put
        <5>3. QED BY <5>2
      <4>2. QED BY <1>1, <1>2, <2>1, <4>1 DEF RepairsTheOnlyOne
    <3>3. QED
      BY <2>1, <2>3, <3>1, <3>2
         DEF RouterInv, Routing, Piloting, RouteIsTrue, Routed, RouteIsRecord
  <2>4. QED BY <1>17, <2>2, <2>3 DEF PilotRepair, Answer
<1>18. QED
  BY <1>5, <1>6, <1>7, <1>8, <1>9, <1>10, <1>11, <1>12, <1>13, <1>14, <1>15, <1>16, <1>17
     DEF RouterStep

LEMMA RouterKept == RouterInv /\ [RouterNext]_routerAll => RouterInv'
<1> SUFFICES ASSUME RouterInv, [RouterNext]_routerAll PROVE RouterInv' OBVIOUS
<1>1. CASE UNCHANGED routerAll
  <2>1. /\ UNCHANGED <<place, row, readable, named, pc, result, route, pilot, stayed, couldRead>>
        /\ RouterHome
    BY <1>1 DEF routerAll, home, header, routerVars, kept, RouterInv
  <2>2. \A s \in Sessions : (OnDisk(s)' <=> OnDisk(s)) /\ Put(s)' = Put(s)
                            /\ (Found(s)' <=> Found(s))
    BY <2>1 DEF RouterHome, HomeRows, OnDisk, Put, Found
  <2>3. \A p \in Paths : There(p)' <=> There(p) BY <2>1 DEF There
  <2>4. stayed \subseteq Sessions /\ (Steady' <=> Steady) /\ (Recorded' <=> Recorded)
    BY <2>1 DEF RouterHome, Steady, Recorded
  <2>5. PICK t : t = route.thread OBVIOUS
  <2>6. Steady => t \in Sessions BY <2>4, <2>5 DEF Steady
  <2>7. /\ RouterHome' /\ RouteIsRecord' /\ PilotIsRecord'
        /\ (Routing' <=> Routing) /\ (Piloting' <=> Piloting)
    BY <2>1 DEF RouterHome, HomeRows, RouteIsRecord, PilotIsRecord, RouterInv, Routing, Piloting
  <2>8. LookInv => LookInv' BY <2>1, <2>2, <2>4, <2>5, <2>6 DEF LookInv
  <2>9. TargetInv => TargetInv' BY <2>1, <2>3, <2>4 DEF TargetInv
  <2>10. StoreInv => StoreInv' BY <2>1, <2>4, <2>9 DEF StoreInv
  <2>11. VerdictInv => VerdictInv' BY <2>1, <2>2, <2>4, <2>5, <2>6 DEF VerdictInv
  <2>12. (SweptInv => SweptInv') /\ (Covered => Covered')
    BY <2>1, <2>2, <2>4 DEF SweptInv, Covered
  <2>13. RouteIsTrue'
    BY <2>1, <2>2, <2>4, <2>5, <2>6 DEF RouteIsTrue, Routed, Steady, RouterInv
  <2>14. RepairsTheOnlyOne' BY <2>1, <2>2, <2>4 DEF RepairsTheOnlyOne, RouterInv
  <2>15. QED
    BY <2>1, <2>7, <2>8, <2>9, <2>10, <2>11, <2>12, <2>13, <2>14 DEF RouterInv
<1>2. QED BY <1>1, RouterUnderCodex, RouterUnderRouter DEF RouterNext

\* Of a thread whose rollout and row were left alone the router blames the layer that
\* is to blame, in any home, however Codex writes to the rest of it (router.py,
\* inspect_thread_store).
THEOREM RouteIsTrueHolds == RouterSpec => []RouteIsTrue
<1>1. RouterInv => RouteIsTrue BY DEF RouterInv
<1>2. QED BY <1>1, RouterInitially, RouterKept, PTL
          DEF RouterSpec, RouterBegin, RouterNext, routerAll

\* The autopilot repairs no rollout while another one stays in place beside it, with
\* any number of sessions (discover_all_sessions, run_autopilot).
THEOREM RepairsTheOnlyOneHolds == RouterSpec => []RepairsTheOnlyOne
<1>1. RouterInv => RepairsTheOnlyOne BY DEF RouterInv
<1>2. QED BY <1>1, RouterInitially, RouterKept, PTL
          DEF RouterSpec, RouterBegin, RouterNext, routerAll

-----------------------------------------------------------------------------
(* The listing.                                                            *)

listingAll == <<home, pc, result, discoveryVars>>
ListingNext == DiscoverStep \/ (HomeTurn /\ DiscoverWatch)
ListingBegin == HomeInit /\ pc = "idle" /\ result = "none" /\ DiscoveryInit

Listing == pc \in {"findRows", "findSelect", "findSweep", "findStat", "findList", "findScan"}
Listed  == result = "listing" \/ pc \in {"findList", "findScan"}
ListingIsRecord ==
    listing = [stores |-> listing.stores, todo |-> listing.todo, paths |-> listing.paths,
               stated |-> listing.stated, candidates |-> listing.candidates,
               seen |-> listing.seen, chosen |-> listing.chosen, archived |-> listing.archived]

\* What the history says of a session that was never moved.
AwayIsKnown ==
    \A s \in Sessions :
       /\ place[s] = "nowhere" => s \in away
       /\ s \in away /\ s \notin moved => place[s] = "nowhere"

\* The rows read are those that were not changed since, or that a query did not reach.
RowsReadStand ==
    /\ inventory = [rows |-> inventory.rows, available |-> inventory.available,
                    error |-> inventory.error]
    /\ inventory.rows \in [Sessions -> Rows] /\ inventory.available \in BOOLEAN
    /\ inventory.available /\ pc # "findSelect" =>
          \A s \in Sessions \ reindexed :
             inventory.rows[s] = IF s \in unread THEN "absent" ELSE row[s]
    /\ ~inventory.available => inventory.rows = NoRows
    /\ pc = "findSelect" => inventory.available

\* A rollout in a folder that is swept.
Shown(s) == place[s] = "sessions" \/ (listing.archived /\ place[s] = "archived_sessions")

\* What is there of a session that was not moved is one path, the one it has.
OnlyPut(paths) ==
    \A p \in paths : p \in Paths /\ (p.session \notin moved =>
                                        Shown(p.session) /\ p = Put(p.session))
SweepSees ==
    /\ listing.todo \in Seq(Paths)
    /\ \A p \in Range(listing.todo) : listing.archived \/ p.folder = "sessions"
    /\ OnlyPut(listing.paths)
    /\ \A s \in Sessions \ moved :
          Shown(s) => Put(s) \in listing.paths \/ Put(s) \in Range(listing.todo)
StatSees ==
    /\ listing.todo \in Seq(Paths)
    /\ OnlyPut(listing.paths) /\ OnlyPut(listing.stated)
    /\ \A s \in Sessions \ moved :
          Shown(s) => \/ Put(s) \in listing.stated
                      \/ Put(s) \in listing.paths /\ Put(s) \in Range(listing.todo)

InIndex(s) == inventory.available /\ row[s] # "absent" /\ s \notin unread
Own(s) == [path |-> Put(s), thread |-> s, indexed |-> IF InIndex(s) THEN TRUE ELSE FALSE]
IndexTold(e, s) == e.indexed \in BOOLEAN /\ (e.indexed = TRUE <=> InIndex(s))
CandidatesOf(s) == {c \in listing.candidates : c.path.session = s}
Scans(s) == pc = "findScan" /\ listing.chosen.path.session = s

\* One entry, or one candidate, of a session that is there ...
OfShown(s) ==
    \/ /\ CandidatesOf(s) = {Own(s)} /\ s \notin listing.seen /\ EntriesOf(s) = {}
       /\ ~Scans(s)
    \/ /\ CandidatesOf(s) = {} /\ EntriesOf(s) = {}
       /\ pc = "findScan" /\ listing.chosen = Own(s)
    \/ /\ CandidatesOf(s) = {} /\ ~Scans(s)
       /\ \E e \in entries : EntriesOf(s) = {e} /\ e.exists = TRUE /\ IndexTold(e, s)
\* ... and nothing but its row of one that is not.
OfHidden(s) ==
    /\ ~Scans(s)
    /\ \A c \in CandidatesOf(s) : c.thread = s /\ c.indexed = TRUE /\ ~There(c.path) /\ InIndex(s)
    /\ \A e \in EntriesOf(s) : e.exists = FALSE /\ InIndex(s)
    /\ s \in away /\ InIndex(s) /\ listing.archived =>
          (CandidatesOf(s) # {} /\ s \notin listing.seen) \/ EntriesOf(s) # {}
ListedTrue ==
    \A s \in Undisturbed : (Shown(s) => OfShown(s)) /\ (~Shown(s) => OfHidden(s))

OwnThread(c) == c.path \in Paths /\ c.thread \in {c.path.session, "none"}
Excused(e) ==
    \/ e.path.session \in away \cup moved
    \/ e.path.session \notin named
    \/ ~listing.archived

\* Another thread's id comes from the header of a rollout whose name has none.
IdIsOwn(e) ==
    \/ e.id \in {e.path.session, "none"}
    \/ e.id = "other" /\ e.exists = TRUE /\ e.path.session \notin named
       /\ claim[e.path.session] = "other"
\* seen_ids keeps a second candidate of a thread out.
MissingOnce ==
    /\ \A e \in entries : e.exists \in BOOLEAN /\ IdIsOwn(e)
    /\ \A e \in entries : e.exists = FALSE => e.id \in listing.seen \cup {"none"}
    /\ \A e, f \in entries :
          e.exists = FALSE /\ f.exists = FALSE /\ e.id = f.id /\ e.id # "none" => e = f
    /\ pc = "findScan" =>
          /\ listing.chosen.thread \in listing.seen \cup {"none"}
          /\ \A e \in entries :
                e.exists = FALSE /\ e.id = listing.chosen.thread => e.id = "none"
NamedOnce ==
    \A s \in named :
       /\ \A c \in CandidatesOf(s) : c.thread = s
       /\ EntriesOf(s) # {} \/ Scans(s) => s \in listing.seen
       /\ Scans(s) => EntriesOf(s) = {} /\ listing.chosen.thread = s
       /\ \A e, f \in EntriesOf(s) : e = f
\* A rollout whose name has no id has one candidate, if its row names the path it has.
Settled(s) == s \notin moved \cup reindexed /\ row[s] \in {"absent", place[s]}
SettledOnce ==
    \A s \in Sessions \ named : Settled(s) =>
       /\ \A c, d \in CandidatesOf(s) : c = d
       /\ CandidatesOf(s) # {} => EntriesOf(s) = {} /\ ~Scans(s)
       /\ Scans(s) => EntriesOf(s) = {}
       /\ \A e, f \in EntriesOf(s) : e = f

ListInv ==
    /\ \A c \in listing.candidates : OwnThread(c)
    /\ \A s \in named \ moved : Shown(s) => \A c \in CandidatesOf(s) : c.path = Put(s)
    /\ \A e \in entries : e.path \in Paths
    /\ MissingOnce /\ NamedOnce /\ SettledOnce
    /\ \A e \in entries : e.mismatch = "indexed_rollout_missing" => Excused(e)
    /\ pc = "findScan" => OwnThread(listing.chosen)
    /\ ListedTrue

DiscoveryInv ==
    /\ HomeRows /\ ListingIsRecord
    /\ Listing => result = "none" /\ listing.archived \in BOOLEAN
    /\ Listing \/ Listed => AwayIsKnown /\ RowsReadStand
    /\ pc \in {"findRows", "findSelect", "findSweep", "findStat"} =>
          entries = {} /\ listing.seen = {}
    /\ pc \in {"findRows", "findSelect"} => listing.paths = {} /\ listing.stated = {}
    /\ pc = "findSweep" => listing.stated = {}
    /\ pc = "findSweep" => SweepSees
    /\ pc = "findStat" => StatSees
    /\ Listed => ListInv
    /\ result = "listing" => listing.candidates = {}

LEMMA ListingInitially == ListingBegin => DiscoveryInv
<1> SUFFICES ASSUME ListingBegin PROVE DiscoveryInv OBVIOUS
<1> USE DEF ListingBegin, HomeInit, DiscoveryInit
<1>1. HomeRows BY HomeRowsInitially
<1>2. ListingIsRecord BY DEF ListingIsRecord, NoListing
<1>3. QED BY <1>1, <1>2 DEF DiscoveryInv, Listing, Listed

LEMMA ListingTrue ==
    ASSUME DiscoveryInv, pc # "findScan"
    PROVE  ListingIsTrue
<1> SUFFICES ASSUME result = "listing" PROVE ListingIsTrue BY DEF ListingIsTrue
<1>1. ListInv /\ AwayIsKnown /\ HomeRows /\ listing.candidates = {}
  BY DEF DiscoveryInv, Listed
<1>2. ASSUME NEW s \in Undisturbed
      PROVE  LET seen    == place[s] = "sessions" \/ (listing.archived /\ s \notin away)
                 indexed == inventory.available /\ row[s] # "absent" /\ s \notin unread
             IN  /\ seen => \E e \in entries :
                                EntriesOf(s) = {e} /\ e.exists /\ e.indexed = indexed
                 /\ ~seen => \A e \in EntriesOf(s) : ~e.exists /\ indexed
                 /\ s \in away /\ indexed /\ listing.archived => EntriesOf(s) # {}
  <2>1. s \in Sessions /\ s \notin moved BY DEF Undisturbed
  <2>2. place[s] \in {"sessions", "archived_sessions", "nowhere"}
    BY <1>1, <2>1, FolderNames DEF HomeRows
  <2>3. Shown(s) <=> place[s] = "sessions" \/ (listing.archived /\ s \notin away)
    BY <1>1, <2>1, <2>2 DEF AwayIsKnown, Shown
  <2>4. CandidatesOf(s) = {} BY <1>1 DEF CandidatesOf
  <2>5. CASE Shown(s)
    <3>1. OfShown(s) BY <1>1, <2>5 DEF ListInv, ListedTrue
    <3>2. PICK e \in entries : EntriesOf(s) = {e} /\ e.exists = TRUE /\ IndexTold(e, s)
      BY <2>4, <3>1 DEF OfShown
    <3>3. s \notin away \/ place[s] = "sessions" BY <2>3, <2>5
    <3>4. e.indexed = (inventory.available /\ row[s] # "absent" /\ s \notin unread)
      BY <3>2 DEF InIndex, IndexTold
    <3>5. QED BY <2>3, <2>5, <3>2, <3>3, <3>4
  <2>6. CASE ~Shown(s)
    <3>1. OfHidden(s) BY <1>1, <2>6 DEF ListInv, ListedTrue
    <3>2. QED BY <2>3, <2>4, <2>6, <3>1 DEF OfHidden, InIndex
  <2>7. QED BY <2>5, <2>6
<1>3. ASSUME NEW e \in entries, NEW f \in entries, e.id = f.id, e.id # "none", e # f
      PROVE  ListedTwice(e) \/ ListedTwice(f)
  <2>1. ListInv /\ MissingOnce /\ NamedOnce /\ SettledOnce BY <1>1 DEF ListInv
  <2>2. /\ e.path \in Paths /\ f.path \in Paths /\ IdIsOwn(e) /\ IdIsOwn(f)
        /\ e.exists \in BOOLEAN /\ f.exists \in BOOLEAN
    BY <2>1 DEF ListInv, MissingOnce
  <2>3. CASE e.id = "other"
    <3>1. e.path.session # "other" BY <2>2, HomeAssumption DEF Paths
    <3>2. QED BY <2>2, <2>3, <3>1 DEF IdIsOwn, ListedTwice
  <2>4. CASE e.id # "other"
    <3>1. PICK s \in Sessions : s = e.path.session BY <2>2 DEF Paths
    <3>2. f.path.session = s /\ e.id = s BY <1>3, <2>2, <2>4, <3>1 DEF IdIsOwn
    <3>3. e \in EntriesOf(s) /\ f \in EntriesOf(s) BY <3>1, <3>2 DEF EntriesOf
    <3>4. s \notin named BY <1>3, <2>1, <3>3 DEF NamedOnce
    <3>5. ~Settled(s) BY <1>3, <2>1, <3>3, <3>4 DEF SettledOnce
    <3>6. e.exists = TRUE \/ f.exists = TRUE BY <1>3, <2>1, <2>2 DEF MissingOnce
    <3>7. QED BY <3>1, <3>2, <3>4, <3>5, <3>6 DEF ListedTwice, Settled
  <2>5. QED BY <2>3, <2>4
<1>4. \A e \in entries : e.mismatch = "indexed_rollout_missing" =>
         e.path.session \in away \cup moved \/ e.path.session \notin named \/ ~listing.archived
  BY <1>1 DEF ListInv, Excused
<1>5. QED BY <1>2, <1>3, <1>4 DEF ListingIsTrue

-----------------------------------------------------------------------------
\* What a turn leaves of a session it does not touch.
LEMMA TurnForListing ==
    ASSUME HomeRows, HomeTurn, DiscoverWatch
    PROVE  /\ HomeRows' /\ pc' = pc /\ result' = result /\ named' = named /\ claim' = claim
           /\ inventory' = inventory /\ listing' = listing /\ entries' = entries
           /\ unread' = unread
           /\ moved \subseteq moved' /\ reindexed \subseteq reindexed' /\ away \subseteq away'
           /\ \A s \in Sessions \ moved' : place'[s] = place[s]
           /\ \A s \in Sessions \ reindexed' : row'[s] = row[s]
           /\ \A s \in Sessions : s \in away' <=> s \in away \/ place'[s] = "nowhere"
<1>1. /\ inventory' = inventory /\ listing' = listing /\ entries' = entries /\ unread' = unread
      /\ moved' = moved \cup {s \in Sessions : place'[s] # place[s]}
      /\ reindexed' = reindexed \cup {s \in Sessions : row'[s] # row[s]}
      /\ away' = away \cup {s \in Sessions : place'[s] = "nowhere"}
  BY DEF DiscoverWatch
<1>2. HomeRows' /\ pc' = pc /\ result' = result /\ named' = named /\ claim' = claim
  BY TurnTyped
<1>3. QED BY <1>1, <1>2 DEF HomeRows

\* Of a session left alone the next state says what this one does.
LEMMA LeftAlone ==
    ASSUME HomeRows, AwayIsKnown, UNCHANGED <<named, claim, inventory, listing, entries, pc,
                                              unread>>,
           moved \subseteq moved', reindexed \subseteq reindexed',
           away \subseteq away', \A s \in Sessions \ moved' : place'[s] = place[s],
           \A s \in Sessions \ reindexed' : row'[s] = row[s],
           \A s \in Sessions : s \in away' <=> s \in away \/ place'[s] = "nowhere"
    PROVE  /\ AwayIsKnown'
           /\ RowsReadStand => RowsReadStand'
           /\ SweepSees => SweepSees'
           /\ StatSees => StatSees'
           /\ ListInv => ListInv'
<1>1. \A s \in Sessions \ moved' :
         /\ s \notin moved /\ (Shown(s)' <=> Shown(s)) /\ Put(s)' = Put(s)
         /\ place'[s] = place[s] /\ (s \in away' <=> s \in away)
  BY DEF Shown, Put, AwayIsKnown
<1>2. AwayIsKnown'
  <2> SUFFICES ASSUME NEW s \in Sessions
               PROVE  /\ place'[s] = "nowhere" => s \in away'
                      /\ s \in away' /\ s \notin moved' => place'[s] = "nowhere"
    BY DEF AwayIsKnown
  <2>1. s \in away /\ s \notin moved => place[s] = "nowhere" BY DEF AwayIsKnown
  <2>2. s \notin moved' => place'[s] = place[s] /\ s \notin moved BY <1>1
  <2>3. QED BY <2>1, <2>2
<1>3. RowsReadStand => RowsReadStand' BY DEF RowsReadStand
<1>4. OnlyPut(listing.paths) => OnlyPut(listing.paths)'
  <2> SUFFICES ASSUME OnlyPut(listing.paths), NEW p \in listing.paths, p.session \notin moved'
               PROVE  Shown(p.session)' /\ p = Put(p.session)'
    BY DEF OnlyPut
  <2>1. p.session \in Sessions /\ p.session \notin moved BY DEF OnlyPut, Paths
  <2>2. QED BY <1>1, <2>1 DEF OnlyPut
<1>5. OnlyPut(listing.stated) => OnlyPut(listing.stated)'
  <2> SUFFICES ASSUME OnlyPut(listing.stated), NEW p \in listing.stated, p.session \notin moved'
               PROVE  Shown(p.session)' /\ p = Put(p.session)'
    BY DEF OnlyPut
  <2>1. p.session \in Sessions /\ p.session \notin moved BY DEF OnlyPut, Paths
  <2>2. QED BY <1>1, <2>1 DEF OnlyPut
<1>6. SweepSees => SweepSees' BY <1>1, <1>4 DEF SweepSees
<1>7. StatSees => StatSees' BY <1>1, <1>4, <1>5 DEF StatSees
<1>8. ASSUME ListInv PROVE ListInv'
  <2>1. \A s \in Sessions : CandidatesOf(s)' = CandidatesOf(s) /\ EntriesOf(s)' = EntriesOf(s)
                            /\ (Scans(s)' <=> Scans(s))
    BY DEF CandidatesOf, EntriesOf, Scans
  <2>2. ASSUME NEW s \in Undisturbed'
        PROVE  (Shown(s)' => OfShown(s)') /\ (~Shown(s)' => OfHidden(s)')
    <3>1. /\ s \in Undisturbed /\ s \in Sessions \ moved' /\ s \in Sessions \ reindexed'
          /\ place[s] \in Places
      BY DEF Undisturbed, HomeRows
    <3>2. (InIndex(s)' <=> InIndex(s)) /\ Own(s)' = Own(s)
      BY <1>1, <3>1 DEF InIndex, Own
    <3>3. \A c \in CandidatesOf(s) : There(c.path)' <=> There(c.path)
      BY <3>1 DEF CandidatesOf, There
    <3>4. (Shown(s) => OfShown(s)) /\ (~Shown(s) => OfHidden(s))
      BY <1>8, <3>1 DEF ListInv, ListedTrue
    <3>5. CASE Shown(s)
      <4>1. PICK cs : CandidatesOf(s) = cs /\ CandidatesOf(s)' = cs BY <2>1, <3>1
      <4>2. PICK es : EntriesOf(s) = es /\ EntriesOf(s)' = es BY <2>1, <3>1
      <4>3. PICK own : Own(s) = own /\ Own(s)' = own BY <3>2
      <4>4. \A e : IndexTold(e, s)' <=> IndexTold(e, s) BY <3>2 DEF IndexTold
      <4>5. OfShown(s)'
        <5>1. CASE cs = {own} /\ s \notin listing.seen /\ es = {} /\ ~Scans(s)
          BY <2>1, <3>1, <4>1, <4>2, <4>3, <5>1 DEF OfShown
        <5>2. CASE cs = {} /\ es = {} /\ pc = "findScan" /\ listing.chosen = own
          BY <4>1, <4>2, <4>3, <5>2 DEF OfShown
        <5>3. CASE /\ cs = {} /\ ~Scans(s)
                   /\ \E e \in entries : es = {e} /\ e.exists = TRUE /\ IndexTold(e, s)
          BY <2>1, <3>1, <4>1, <4>2, <4>4, <5>3 DEF OfShown
        <5>4. QED BY <3>4, <3>5, <4>1, <4>2, <4>3, <5>1, <5>2, <5>3 DEF OfShown
      <4>6. QED BY <1>1, <3>1, <3>5, <4>5
    <3>6. CASE ~Shown(s)
      <4>1. OfHidden(s)' BY <1>1, <2>1, <3>1, <3>2, <3>3, <3>4, <3>6 DEF OfHidden
      <4>2. QED BY <1>1, <3>1, <3>6, <4>1
    <3>7. QED BY <3>5, <3>6
  <2>3. ListedTrue' BY <2>2 DEF ListedTrue
  <2>4. \A e \in entries : Excused(e) => Excused(e)' BY DEF Excused
  <2>5. \A s \in named' \ moved' : Shown(s)' => \A c \in CandidatesOf(s)' : c.path = Put(s)'
    BY <1>1, <1>8, <2>1 DEF ListInv, HomeRows
  <2>6. MissingOnce' BY <1>8 DEF ListInv, MissingOnce, IdIsOwn
  <2>7. NamedOnce'
    <3>1. \A s \in named : s \in Sessions BY DEF HomeRows
    <3>2. QED BY <1>8, <2>1, <3>1 DEF ListInv, NamedOnce
  <2>8. SettledOnce'
    <3>1. \A s \in Sessions : Settled(s)' => Settled(s) BY DEF Settled
    <3>2. QED BY <1>8, <2>1, <3>1 DEF ListInv, SettledOnce
  <2>9. QED BY <1>8, <2>3, <2>4, <2>5, <2>6, <2>7, <2>8 DEF ListInv, OwnThread
<1>9. QED BY <1>2, <1>3, <1>6, <1>7, <1>8

LEMMA ListingUnderCodex == DiscoveryInv /\ HomeTurn /\ DiscoverWatch => DiscoveryInv'
<1> SUFFICES ASSUME DiscoveryInv, HomeTurn, DiscoverWatch PROVE DiscoveryInv' OBVIOUS
<1>1. /\ HomeRows /\ HomeRows' /\ pc' = pc /\ result' = result /\ named' = named
      /\ claim' = claim /\ inventory' = inventory /\ listing' = listing
      /\ entries' = entries /\ unread' = unread
      /\ moved \subseteq moved' /\ reindexed \subseteq reindexed' /\ away \subseteq away'
      /\ \A s \in Sessions \ moved' : place'[s] = place[s]
      /\ \A s \in Sessions \ reindexed' : row'[s] = row[s]
      /\ \A s \in Sessions : s \in away' <=> s \in away \/ place'[s] = "nowhere"
  BY TurnForListing DEF DiscoveryInv
<1>2. (Listing' <=> Listing) /\ (Listed' <=> Listed) BY <1>1 DEF Listing, Listed
<1>3. Listing \/ Listed =>
         AwayIsKnown' /\ RowsReadStand' /\ (SweepSees => SweepSees')
         /\ (StatSees => StatSees') /\ (ListInv => ListInv')
  BY <1>1, LeftAlone DEF DiscoveryInv
<1>4. QED BY <1>1, <1>2, <1>3 DEF DiscoveryInv, ListingIsRecord, Listing

-----------------------------------------------------------------------------
\* The name a file carries is its session's, or none.
LEMMA NameIsOwn ==
    ASSUME NEW p \in Paths
    PROVE  /\ p.session \in Sessions /\ p.session # "none"
           /\ NameOf(p) = IF p.session \in named THEN p.session ELSE "none"
BY HomeAssumption DEF Paths, NameOf

LEMMA OneIsAll ==
    ASSUME NEW x
    PROVE  Cardinality({x}) = 1
BY FS_Singleton

\* A row is given to a file of its own session.
LEMMA OwnerIsOwn ==
    ASSUME listing.stated \subseteq Paths, NEW s \in Sessions
    PROVE  /\ RowOwner(s) \subseteq {p \in listing.stated : p.session = s}
           /\ \A p \in listing.stated : NameOf(p) = s => RowOwner(s) # {}
<1> DEFINE byName == {p \in listing.stated : NameOf(p) = s}
           byPath == {p \in listing.stated : p.session = s /\ p.folder = inventory.rows[s]}
           best   == CHOOSE p \in byName : p.folder = "archived_sessions" \/ Cardinality(byName) = 1
<1>1. RowOwner(s) = IF byName # {} THEN {best} ELSE byPath BY DEF RowOwner
<1>2. \A p \in byName : p \in Paths /\ p.session = s
  <2> SUFFICES ASSUME NEW p \in byName PROVE p.session = s OBVIOUS
  <2>1. p \in Paths /\ NameOf(p) = s OBVIOUS
  <2>2. s # "none" BY HomeAssumption
  <2>3. QED BY <2>1, <2>2, NameIsOwn
<1>3. ASSUME NEW p \in byName PROVE best \in byName
  <2>1. CASE \E q \in byName : q.folder = "archived_sessions" BY <2>1
  <2>2. CASE \A q \in byName : q.folder # "archived_sessions"
    <3>1. \A q \in byName : q = [folder |-> "sessions", session |-> s]
      <4> SUFFICES ASSUME NEW q \in byName PROVE q = [folder |-> "sessions", session |-> s]
        OBVIOUS
      <4>1. q \in Paths /\ q.session = s /\ q.folder # "archived_sessions" BY <1>2, <2>2
      <4> HIDE DEF byName, best
      <4>2. q = [folder |-> q.folder, session |-> s] /\ q.folder = "sessions"
        BY <4>1, FolderNames DEF Paths
      <4>3. QED BY <4>2
    <3>2. byName = {p} BY <3>1
    <3>3. Cardinality(byName) = 1 BY <3>2, OneIsAll
    <3>4. QED BY <3>3
  <2>3. QED BY <2>1, <2>2
<1>4. byName # {} => best \in byName BY <1>3
<1> HIDE DEF best
<1>5. QED BY <1>1, <1>2, <1>4

\* What was found of a session that was not moved.
LEMMA StatedIsShown ==
    ASSUME HomeRows, StatSees, listing.todo = <<>>
    PROVE  /\ listing.stated \subseteq Paths
           /\ \A s \in Sessions \ moved :
                 {p \in listing.stated : p.session = s} = IF Shown(s) THEN {Put(s)} ELSE {}
<1>1. Range(<<>>) = {} BY DEF Range
<1>2. listing.stated \subseteq Paths BY DEF StatSees, OnlyPut
<1>3. ASSUME NEW s \in Sessions \ moved
      PROVE  {p \in listing.stated : p.session = s} = IF Shown(s) THEN {Put(s)} ELSE {}
  <2>1. Shown(s) => Put(s) \in listing.stated BY <1>1 DEF StatSees
  <2>2. \A p \in listing.stated : p.session = s => Shown(s) /\ p = Put(s)
    BY DEF StatSees, OnlyPut
  <2>3. Put(s).session = s BY DEF Put
  <2>4. QED BY <2>1, <2>2, <2>3
<1>4. QED BY <1>2, <1>3

\* A row whose file carries its name is that file's.
LEMMA NamedOwner ==
    ASSUME HomeRows, StatSees, listing.todo = <<>>, NEW s \in named \ moved
    PROVE  RowOwner(s) = IF Shown(s) THEN {Put(s)} ELSE {}
<1>1. /\ s \in Sessions /\ listing.stated \subseteq Paths
      /\ {p \in listing.stated : p.session = s} = IF Shown(s) THEN {Put(s)} ELSE {}
  BY StatedIsShown DEF HomeRows
<1>2. RowOwner(s) \subseteq {p \in listing.stated : p.session = s} BY <1>1, OwnerIsOwn
<1>3. CASE Shown(s)
  <2>1. Put(s) \in listing.stated /\ Put(s).session = s BY <1>1, <1>3
  <2>2. PICK p \in Paths : p = Put(s) /\ p \in listing.stated BY <1>1, <2>1
  <2>3. NameOf(p) = s BY <2>1, <2>2, NameIsOwn
  <2>4. RowOwner(s) # {} BY <1>1, <2>2, <2>3, OwnerIsOwn
  <2>5. QED BY <1>1, <1>2, <1>3, <2>4
<1>4. QED BY <1>1, <1>2, <1>3

\* The candidates of a session that was not moved.
LEMMA MergedIsOwn ==
    ASSUME HomeRows, StatSees, listing.todo = <<>>, RowsReadStand, AwayIsKnown,
           pc # "findSelect", listing.archived \in BOOLEAN
    PROVE  /\ \A c \in Merged : OwnThread(c)
           /\ \A c \in Merged : c.path.session \in named => c.thread = c.path.session
           /\ \A s \in Sessions \ named : Settled(s) =>
                 \A c, d \in Merged : c.path.session = s /\ d.path.session = s => c = d
           /\ \A s \in named \ moved :
                 Shown(s) => \A c \in Merged : c.path.session = s => c.path = Put(s)
           /\ \A s \in Undisturbed :
                 Shown(s) => {c \in Merged : c.path.session = s} = {Own(s)}
           /\ \A s \in Undisturbed : ~Shown(s) =>
                 /\ \A c \in Merged : c.path.session = s =>
                       c.thread = s /\ c.indexed = TRUE /\ ~There(c.path) /\ InIndex(s)
                 /\ s \in away /\ InIndex(s) /\ listing.archived =>
                       \E c \in Merged : c.path.session = s
<1> DEFINE IsIn(p) == \E t \in RowsRead : p \in RowOwner(t)
           OfFile(p) == [Candidate(p) EXCEPT !.indexed = IsIn(p)]
           OfRow(s) == [path |-> [folder |-> inventory.rows[s], session |-> s], thread |-> s,
                        indexed |-> TRUE]
<1>1. Merged = {OfFile(p) : p \in listing.stated} \cup {OfRow(s) : s \in Missing}
  BY DEF Merged
<1>2. /\ listing.stated \subseteq Paths
      /\ \A s \in Sessions \ moved :
            {p \in listing.stated : p.session = s} = IF Shown(s) THEN {Put(s)} ELSE {}
  BY StatedIsShown
<1>3. \A s \in Sessions : RowOwner(s) \subseteq {p \in listing.stated : p.session = s}
  BY <1>2, OwnerIsOwn
<1>4. \A s \in named \ moved : RowOwner(s) = IF Shown(s) THEN {Put(s)} ELSE {}
  BY NamedOwner
<1>5. \A s \in Undisturbed :
         /\ s \in Sessions /\ s \in named /\ s \notin moved /\ s \notin reindexed
         /\ InIndex(s) <=> s \in RowsRead
         /\ InIndex(s) => inventory.rows[s] = row[s]
  <2> SUFFICES ASSUME NEW s \in Undisturbed
               PROVE  /\ InIndex(s) <=> s \in RowsRead
                      /\ InIndex(s) => inventory.rows[s] = row[s]
    BY DEF Undisturbed
  <2>1. s \in Sessions \ reindexed BY DEF Undisturbed
  <2>2. CASE inventory.available BY <2>1, <2>2 DEF RowsReadStand, RowsRead, InIndex
  <2>3. CASE ~inventory.available
    BY <2>1, <2>3 DEF RowsReadStand, RowsRead, InIndex, NoRows
  <2>4. QED BY <2>2, <2>3
<1>6. \A s \in Missing : /\ s \in RowsRead /\ s \in Sessions /\ RowOwner(s) = {}
                         /\ inventory.rows[s] \in Range(Folders)
                         /\ listing.archived \/ inventory.rows[s] = "sessions"
  BY DEF Missing, RowsRead, RowsReadStand, Rows
<1>7. ASSUME NEW p \in listing.stated
      PROVE  /\ OfFile(p).path = p /\ OfFile(p).thread = NameOf(p)
             /\ OfFile(p) = [path |-> p, thread |-> NameOf(p), indexed |-> IsIn(p)]
  <2>1. PICK b : b = IsIn(p) OBVIOUS
  <2>2. OfFile(p) = [Candidate(p) EXCEPT !.indexed = b] BY <2>1
  <2> HIDE DEF OfFile, IsIn
  <2>3. OfFile(p) = [path |-> p, thread |-> NameOf(p), indexed |-> b]
    BY <2>2 DEF Candidate
  <2>4. QED BY <2>1, <2>3
<1>8. ASSUME NEW c \in Merged PROVE OwnThread(c)
  <2>1. CASE \E p \in listing.stated : c = OfFile(p)
    <3>1. PICK p \in listing.stated : c = OfFile(p) BY <2>1
    <3>2. c.path = p /\ c.thread = NameOf(p) /\ p \in Paths BY <1>2, <1>7, <3>1
    <3>3. QED BY <3>2, NameIsOwn DEF OwnThread
  <2>2. CASE \E s \in Missing : c = OfRow(s)
    <3>1. PICK s \in Missing : c = OfRow(s) BY <2>2
    <3>2. QED BY <1>6, <3>1 DEF OwnThread, Paths
  <2>3. QED BY <1>1, <2>1, <2>2
\* Of a session whose file is there, no row is left over.
<1>9. ASSUME NEW s \in named \ moved, Shown(s)
      PROVE  \A c \in Merged : c.path.session = s => c = OfFile(Put(s)) /\ c.path = Put(s)
  <2> SUFFICES ASSUME NEW c \in Merged, c.path.session = s
               PROVE  c = OfFile(Put(s)) /\ c.path = Put(s)
    OBVIOUS
  <2>1. s \in Sessions /\ RowOwner(s) # {} BY <1>4, <1>9 DEF HomeRows
  <2>2. CASE \E p \in listing.stated : c = OfFile(p)
    <3>1. PICK p \in listing.stated : c = OfFile(p) BY <2>2
    <3>2. c.path = p BY <1>7, <3>1
    <3>3. p = Put(s) BY <1>2, <1>9, <2>1, <3>2
    <3>4. QED BY <3>1, <3>2, <3>3
  <2>3. CASE \E t \in Missing : c = OfRow(t)
    <3>1. PICK t \in Missing : c = OfRow(t) BY <2>3
    <3>2. t = s BY <3>1
    <3>3. QED BY <1>6, <2>1, <3>2
  <2>4. QED BY <1>1, <2>2, <2>3
<1>10. ASSUME NEW s \in Undisturbed, Shown(s)
       PROVE  {c \in Merged : c.path.session = s} = {Own(s)}
  <2>1. s \in named \ moved /\ s \in Sessions BY <1>5
  <2>2. Put(s) \in listing.stated /\ Put(s).session = s BY <1>2, <1>10, <2>1
  <2>3. NameOf(Put(s)) = s
    <3>1. PICK p \in Paths : p = Put(s) BY <1>2, <2>2
    <3>2. NameOf(p) = s BY <2>1, <2>2, <3>1, NameIsOwn
    <3>3. QED BY <3>1, <3>2
  <2>4. IsIn(Put(s)) <=> InIndex(s)
    <3>1. s \in RowsRead => IsIn(Put(s)) BY <1>4, <1>10, <2>1
    <3>2. ASSUME NEW t \in RowsRead, Put(s) \in RowOwner(t) PROVE t = s
      BY <1>3, <2>2, <3>2 DEF RowsRead
    <3>3. QED BY <1>5, <3>1, <3>2
  <2>5. OfFile(Put(s)) = Own(s)
    <3>1. OfFile(Put(s)) = [path |-> Put(s), thread |-> s, indexed |-> IsIn(Put(s))]
      BY <1>7, <2>2, <2>3
    <3>2. IsIn(Put(s)) = IF InIndex(s) THEN TRUE ELSE FALSE BY <2>4
    <3>3. QED BY <3>1, <3>2 DEF Own
  <2>6. OfFile(Put(s)) \in Merged /\ OfFile(Put(s)).path.session = s BY <1>1, <1>7, <2>2
  <2> HIDE DEF OfFile
  <2>7. QED BY <1>9, <1>10, <2>1, <2>5, <2>6
<1>11. ASSUME NEW s \in Undisturbed, ~Shown(s)
       PROVE  /\ \A c \in Merged : c.path.session = s =>
                    c.thread = s /\ c.indexed = TRUE /\ ~There(c.path) /\ InIndex(s)
              /\ s \in away /\ InIndex(s) /\ listing.archived =>
                    \E c \in Merged : c.path.session = s
  <2>1. s \in named \ moved /\ s \in Sessions BY <1>5
  <2>2. place[s] \in {"sessions", "archived_sessions", "nowhere"}
    BY <2>1, FolderNames DEF HomeRows
  <2>3. ASSUME NEW c \in Merged, c.path.session = s
        PROVE  c.thread = s /\ c.indexed = TRUE /\ ~There(c.path) /\ InIndex(s)
    <3>1. CASE \E p \in listing.stated : c = OfFile(p)
      <4>1. PICK p \in listing.stated : c = OfFile(p) BY <3>1
      <4>2. c.path = p BY <1>7, <4>1
      <4>3. QED BY <1>2, <1>11, <2>1, <2>3, <4>2
    <3>2. CASE \E t \in Missing : c = OfRow(t)
      <4>1. PICK t \in Missing : c = OfRow(t) BY <3>2
      <4>2. t = s /\ c.thread = s /\ c.indexed = TRUE /\ c.path.folder = inventory.rows[s]
        BY <2>3, <4>1
      <4>3. InIndex(s) BY <1>5, <1>6, <4>2
      <4>4. place[s] # inventory.rows[s]
        BY <1>6, <1>11, <2>2, <4>2, FolderNames DEF Shown
      <4>5. QED BY <2>3, <4>2, <4>3, <4>4 DEF There
    <3>3. QED BY <1>1, <3>1, <3>2
  <2>4. ASSUME InIndex(s), listing.archived PROVE \E c \in Merged : c.path.session = s
    <3>1. s \in Missing BY <1>4, <1>5, <1>11, <2>1, <2>4 DEF Missing
    <3>2. OfRow(s) \in Merged /\ OfRow(s).path.session = s BY <1>1, <3>1
    <3>3. QED BY <3>2
  <2>5. QED BY <2>3, <2>4
<1>12. ASSUME NEW c \in Merged, c.path.session \in named
       PROVE  c.thread = c.path.session
  <2>1. CASE \E p \in listing.stated : c = OfFile(p)
    <3>1. PICK p \in listing.stated : c = OfFile(p) BY <2>1
    <3>2. c.path = p /\ c.thread = NameOf(p) /\ p \in Paths BY <1>2, <1>7, <3>1
    <3>3. QED BY <1>12, <3>2, NameIsOwn
  <2>2. CASE \E s \in Missing : c = OfRow(s) BY <2>2
  <2>3. QED BY <1>1, <2>1, <2>2
<1>13. ASSUME NEW s \in Sessions \ named, Settled(s), NEW c \in Merged, NEW d \in Merged,
              c.path.session = s, d.path.session = s
       PROVE  c = d
  <2>1. s \notin moved /\ s \notin reindexed /\ row[s] \in {"absent", place[s]}
    BY <1>13 DEF Settled
  <2>2. PICK file : file = OfFile(Put(s)) OBVIOUS
  <2>3. PICK mine : mine = OfRow(s) OBVIOUS
  <2>4. PICK at \in {Put(s)} : TRUE OBVIOUS
  <2>5. ASSUME NEW b \in Merged, b.path.session = s
        PROVE  \/ b = file /\ at \in listing.stated
               \/ b = mine /\ s \in Missing
    <3>1. CASE \E p \in listing.stated : b = OfFile(p)
      <4>1. PICK p \in listing.stated : b = OfFile(p) BY <3>1
      <4>2. b.path = p BY <1>7, <4>1
      <4>3. p = Put(s) BY <1>2, <2>1, <2>5, <4>2
      <4>4. b = file BY <2>2, <4>1, <4>3
      <4>5. at \in listing.stated BY <2>4, <4>1, <4>3
      <4>6. QED BY <4>4, <4>5
    <3>2. CASE \E u \in Missing : b = OfRow(u)
      <4>1. PICK u \in Missing : b = OfRow(u) BY <3>2
      <4>2. u = s BY <2>5, <4>1
      <4>3. b = mine BY <2>3, <4>1, <4>2
      <4>4. QED BY <4>1, <4>2, <4>3
    <3>3. QED BY <1>1, <3>1, <3>2
  <2>6. ~(at \in listing.stated /\ s \in Missing)
    <3> SUFFICES ASSUME at \in listing.stated, s \in Missing PROVE FALSE OBVIOUS
    <3>1. inventory.rows[s] # "absent" /\ RowOwner(s) = {} BY DEF Missing, RowsRead
    <3>2. inventory.available BY <3>1 DEF RowsReadStand, NoRows
    <3>3. inventory.rows[s] = place[s] BY <2>1, <3>1, <3>2 DEF RowsReadStand
    <3>4. Put(s).session = s /\ Put(s).folder = inventory.rows[s] BY <3>3 DEF Put
    <3>5. Put(s) \in {p \in listing.stated : p.session = s /\ p.folder = inventory.rows[s]}
      BY <2>4, <3>4
    <3>6. RowOwner(s) # {} BY <3>5 DEF RowOwner
    <3>7. QED BY <3>1, <3>6
  <2> HIDE DEF OfFile, OfRow
  <2>7. (c = file /\ at \in listing.stated) \/ (c = mine /\ s \in Missing)
    BY <1>13, <2>5
  <2>8. (d = file /\ at \in listing.stated) \/ (d = mine /\ s \in Missing)
    BY <1>13, <2>5
  <2>9. QED BY <2>6, <2>7, <2>8
<1>14. \A s \in Sessions \ named : Settled(s) =>
          \A c, d \in Merged : c.path.session = s /\ d.path.session = s => c = d
  <2> HIDE DEF OfFile, OfRow, IsIn
  <2>1. SUFFICES ASSUME NEW s \in Sessions \ named, Settled(s),
                        NEW c \in Merged, NEW d \in Merged,
                        c.path.session = s, d.path.session = s
                 PROVE  c = d
    OBVIOUS
  <2>2. QED BY <1>13, <2>1
<1> HIDE DEF OfFile, OfRow, IsIn
<1>15. QED BY <1>8, <1>9, <1>10, <1>11, <1>12, <1>14

-----------------------------------------------------------------------------
\* A step of the listing about another session says nothing of this one.
LEMMA OtherListed ==
    ASSUME HomeRows, UNCHANGED <<place, row, away, unread, inventory>>, NEW s \in Sessions,
           listing'.archived = listing.archived, CandidatesOf(s)' = CandidatesOf(s),
           EntriesOf(s)' = EntriesOf(s), entries \subseteq entries',
           s \in listing'.seen <=> s \in listing.seen, ~Scans(s), ~Scans(s)',
           Shown(s) => OfShown(s), ~Shown(s) => OfHidden(s)
    PROVE  (Shown(s)' => OfShown(s)') /\ (~Shown(s)' => OfHidden(s)')
<1>1. /\ Shown(s)' <=> Shown(s)
      /\ InIndex(s)' <=> InIndex(s)
      /\ Own(s)' = Own(s) /\ Own(s).path.session = s
  BY DEF Shown, InIndex, Own, Put
<1>2. \A e : IndexTold(e, s)' <=> IndexTold(e, s) BY <1>1 DEF IndexTold
<1>3. PICK cs : CandidatesOf(s) = cs /\ CandidatesOf(s)' = cs OBVIOUS
<1>4. PICK es : EntriesOf(s) = es /\ EntriesOf(s)' = es OBVIOUS
<1>5. CASE Shown(s)
  <2>1. OfShown(s)'
    <3>1. ~(pc = "findScan" /\ listing.chosen = Own(s)) BY <1>1 DEF Scans
    <3>2. CASE cs = {Own(s)} /\ s \notin listing.seen /\ es = {}
      BY <1>1, <1>3, <1>4, <3>2 DEF OfShown
    <3>3. CASE /\ cs = {}
               /\ \E e \in entries : es = {e} /\ e.exists = TRUE /\ IndexTold(e, s)
      BY <1>2, <1>3, <1>4, <3>3 DEF OfShown
    <3>4. QED BY <1>3, <1>4, <1>5, <3>1, <3>2, <3>3 DEF OfShown
  <2>2. QED BY <1>1, <1>5, <2>1
<1>6. CASE ~Shown(s)
  <2>1. \A c \in cs : There(c.path)' <=> There(c.path) BY DEF There
  <2>2. OfHidden(s)' BY <1>1, <1>3, <1>4, <1>6, <2>1 DEF OfHidden
  <2>3. QED BY <1>1, <1>6, <2>2
<1>7. QED BY <1>5, <1>6

\* A path that is visited and there is where its rollout is.
LEMMA ThereIsPut ==
    ASSUME HomeRows, NEW p \in Paths
    PROVE  /\ There(p) <=> place[p.session] = p.folder
           /\ There(p) => p = Put(p.session)
           /\ \A s \in Sessions : There(Put(s))
           /\ \A s \in Sessions : Shown(s) => Put(s) \in Paths
<1>1. p = [folder |-> p.folder, session |-> p.session] BY DEF Paths
<1>2. QED BY <1>1, FolderNames DEF There, Put, Shown, Paths

LEMMA NextListed ==
    ASSUME DiscoveryInv, pc = "findList", NEW c \in listing.candidates, ListNext(c),
           UNCHANGED home
    PROVE  ListInv'
<1>1. /\ HomeRows /\ ListingIsRecord /\ AwayIsKnown /\ ListInv /\ OwnThread(c)
      /\ UNCHANGED <<place, row, named, claim, moved, reindexed, away, unread, inventory>>
      /\ listing' = [listing EXCEPT !.candidates = @ \ {c}, !.chosen = c,
                                    !.seen = @ \cup ({c.thread} \ {"none"})]
  BY DEF DiscoveryInv, Listing, Listed, ListInv, ListNext, home, header, history
<1>2. /\ listing'.candidates = listing.candidates \ {c} /\ listing'.chosen = c
      /\ listing'.seen = listing.seen \cup ({c.thread} \ {"none"})
      /\ listing'.archived = listing.archived
  BY <1>1 DEF ListingIsRecord
<1>3. PICK s0 \in Sessions : s0 = c.path.session /\ s0 # "none" /\ c.thread \in {s0, "none"}
  BY <1>1, HomeAssumption DEF OwnThread, Paths
<1> DEFINE fresh == Entry(c, c.thread, FALSE, "indexed_rollout_missing")
           taken == ~Again(c) /\ There(c.path) /\ pc' = "findScan" /\ entries' = entries
           told  == /\ c.indexed /\ ~Again(c) /\ ~There(c.path) /\ pc' = "findList"
                    /\ entries' = entries \cup {fresh}
           passed == /\ Again(c) \/ (~There(c.path) /\ ~c.indexed)
                     /\ pc' = "findList" /\ entries' = entries
<1>4. taken \/ told \/ passed BY DEF ListNext, Goto
<1>5. /\ fresh.path = c.path /\ fresh.id = c.thread /\ fresh.exists = FALSE
      /\ fresh.mismatch = "indexed_rollout_missing"
  BY DEF Entry
<1>6. Again(c) <=> c.thread \in listing.seen BY DEF Again
<1> HIDE DEF fresh
<1>7. \A d \in listing'.candidates : OwnThread(d)' BY <1>1, <1>2 DEF ListInv, OwnThread
<1>8. \A s \in named' \ moved' : Shown(s)' => \A d \in CandidatesOf(s)' : d.path = Put(s)'
  BY <1>1, <1>2 DEF ListInv, CandidatesOf, Shown, Put
<1>9. /\ c \in CandidatesOf(s0) /\ \A s \in Sessions : ~Scans(s)
      /\ \A s \in Sessions : CandidatesOf(s)' = CandidatesOf(s) \ {c}
      /\ \A s \in Sessions : s # s0 => EntriesOf(s)' = EntriesOf(s) /\ ~Scans(s)'
      /\ taken \/ passed => EntriesOf(s0)' = EntriesOf(s0)
      /\ told => EntriesOf(s0)' = EntriesOf(s0) \cup {fresh} /\ ~Scans(s0)'
      /\ passed => ~Scans(s0)'
  BY <1>2, <1>3, <1>4, <1>5 DEF CandidatesOf, EntriesOf, Scans
<1>10. MissingOnce' /\ \A e \in entries' : e.path \in Paths
  <2>1. /\ MissingOnce /\ (\A e \in entries : e.path \in Paths) /\ c.path \in Paths
    BY <1>1 DEF ListInv, OwnThread
  <2>2. \A e \in entries : IdIsOwn(e) => IdIsOwn(e)' BY <1>1 DEF IdIsOwn
  <2>3. IdIsOwn(fresh)' BY <1>3, <1>5 DEF IdIsOwn
  <2>4. \A e \in entries' : e \in entries \/ (told /\ e = fresh) BY <1>4
  <2>5. \A e \in entries' : e.exists \in BOOLEAN /\ IdIsOwn(e)' /\ e.path \in Paths
    BY <1>5, <2>1, <2>2, <2>3, <2>4 DEF MissingOnce
  <2>6. \A e \in entries' : e.exists = FALSE => e.id \in listing'.seen \cup {"none"}
    BY <1>2, <1>5, <2>1, <2>4 DEF MissingOnce
  <2>7. told => \A e \in entries : e.exists = FALSE /\ e.id = fresh.id => e.id = "none"
    BY <1>5, <1>6, <2>1 DEF MissingOnce
  <2>8. \A e, f \in entries' :
           e.exists = FALSE /\ f.exists = FALSE /\ e.id = f.id /\ e.id # "none" => e = f
    BY <2>1, <2>4, <2>7 DEF MissingOnce
  <2>9. pc' = "findScan" =>
           /\ listing'.chosen.thread \in listing'.seen \cup {"none"}
           /\ \A e \in entries' :
                 e.exists = FALSE /\ e.id = listing'.chosen.thread => e.id = "none"
    BY <1>2, <1>4, <1>6, <2>1 DEF MissingOnce
  <2>10. QED BY <2>5, <2>6, <2>8, <2>9 DEF MissingOnce
<1>11. NamedOnce' /\ SettledOnce'
  <2>1. NamedOnce /\ SettledOnce /\ named' = named /\ named \subseteq Sessions
    BY <1>1 DEF ListInv, HomeRows
  <2>2. ASSUME NEW s \in named
        PROVE  /\ \A d \in CandidatesOf(s)' : d.thread = s
               /\ EntriesOf(s)' # {} \/ Scans(s)' => s \in listing'.seen
               /\ Scans(s)' => EntriesOf(s)' = {} /\ listing'.chosen.thread = s
               /\ \A e, f \in EntriesOf(s)' : e = f
    <3>1. /\ \A d \in CandidatesOf(s) : d.thread = s
          /\ EntriesOf(s) # {} => s \in listing.seen
          /\ \A e, f \in EntriesOf(s) : e = f
          /\ s \in Sessions
      BY <2>1 DEF NamedOnce
    <3>2. CASE s # s0 BY <1>2, <1>9, <3>1, <3>2
    <3>3. CASE s = s0
      <4>1. c.thread = s /\ s \in listing'.seen BY <1>2, <1>3, <1>9, <3>1, <3>3
      <4>2. taken \/ told => EntriesOf(s) = {} BY <1>6, <3>1, <4>1
      <4>3. QED BY <1>2, <1>4, <1>9, <3>1, <3>3, <4>1, <4>2
    <3>4. QED BY <3>2, <3>3
  <2>3. ASSUME NEW s \in Sessions \ named, Settled(s)
        PROVE  /\ \A d, e \in CandidatesOf(s)' : d = e
               /\ CandidatesOf(s)' # {} => EntriesOf(s)' = {} /\ ~Scans(s)'
               /\ Scans(s)' => EntriesOf(s)' = {}
               /\ \A e, f \in EntriesOf(s)' : e = f
    <3>1. /\ \A d, e \in CandidatesOf(s) : d = e
          /\ CandidatesOf(s) # {} => EntriesOf(s) = {}
          /\ \A e, f \in EntriesOf(s) : e = f
      BY <2>1, <2>3 DEF SettledOnce
    <3>2. CASE s # s0 BY <1>9, <3>1, <3>2
    <3>3. CASE s = s0
      <4>1. CandidatesOf(s)' = {} /\ EntriesOf(s) = {} BY <1>9, <3>1, <3>3
      <4>2. QED BY <1>4, <1>9, <3>3, <4>1
    <3>4. QED BY <3>2, <3>3
  <2>4. \A s \in Sessions : Settled(s)' => Settled(s) BY <1>1 DEF Settled
  <2>5. QED BY <2>1, <2>2, <2>3, <2>4 DEF NamedOnce, SettledOnce
<1>12. \A e \in entries' : e.mismatch = "indexed_rollout_missing" => Excused(e)'
  <2>1. \A e \in entries : e.mismatch = "indexed_rollout_missing" => Excused(e)'
    BY <1>1, <1>2 DEF ListInv, Excused
  <2>2. ASSUME told PROVE Excused(fresh)'
    <3>1. ASSUME s0 \notin away, s0 \notin moved, s0 \in named, listing.archived PROVE FALSE
      <4>1. Shown(s0)
        BY <1>1, <3>1, FolderNames DEF AwayIsKnown, HomeRows, Shown
      <4>2. c.path = Put(s0) BY <1>1, <1>3, <3>1, <4>1 DEF ListInv, CandidatesOf
      <4>3. QED BY <1>1, <2>2, <4>2 DEF There, Put
    <3>2. QED BY <1>1, <1>2, <1>3, <1>5, <3>1 DEF Excused
  <2>3. QED BY <1>4, <2>1, <2>2
<1>13. ASSUME NEW s \in Undisturbed'
       PROVE  (Shown(s)' => OfShown(s)') /\ (~Shown(s)' => OfHidden(s)')
  <2>1. /\ s \in Undisturbed /\ s \in Sessions /\ s \in named \ moved /\ s # "none"
        /\ (Shown(s) => OfShown(s)) /\ (~Shown(s) => OfHidden(s))
        /\ ~Scans(s)
    BY <1>1, HomeAssumption DEF Undisturbed, ListInv, ListedTrue, Scans
  <2>2. CASE s # s0
    <3>1. CandidatesOf(s)' = CandidatesOf(s) BY <1>2, <1>3, <2>2 DEF CandidatesOf
    <3>2. EntriesOf(s)' = EntriesOf(s) /\ entries \subseteq entries'
      BY <1>3, <1>4, <1>5, <2>2 DEF EntriesOf
    <3>3. s \in listing'.seen <=> s \in listing.seen BY <1>2, <1>3, <2>1, <2>2
    <3>4. ~Scans(s)' BY <1>2, <1>3, <2>2 DEF Scans
    <3>5. QED BY <1>1, <1>2, <2>1, <3>1, <3>2, <3>3, <3>4, OtherListed
  <2>3. CASE s = s0 /\ Shown(s)
    <3>1. c \in CandidatesOf(s) BY <1>3, <2>3 DEF CandidatesOf
    <3>2. CandidatesOf(s) = {Own(s)} /\ s \notin listing.seen /\ EntriesOf(s) = {}
      BY <2>1, <2>3, <3>1 DEF OfShown
    <3>3. c = Own(s) /\ c.path = Put(s) /\ c.thread = s BY <3>1, <3>2 DEF Own
    <3>4. taken
      <4>1. There(c.path) BY <3>3 DEF There, Put
      <4>2. QED BY <1>4, <1>6, <3>2, <3>3, <4>1
    <3>5. CandidatesOf(s)' = {}
      <4>1. \A d \in CandidatesOf(s) : d = c BY <3>2, <3>3
      <4>2. QED BY <1>2, <4>1 DEF CandidatesOf
    <3>6. EntriesOf(s)' = {} BY <3>2, <3>4 DEF EntriesOf
    <3>7. Own(s)' = Own(s) /\ (Shown(s)' <=> Shown(s))
      BY <1>1, <1>2 DEF Own, InIndex, Put, Shown
    <3>8. OfShown(s)' BY <1>2, <3>3, <3>4, <3>5, <3>6, <3>7 DEF OfShown
    <3>9. QED BY <2>3, <3>7, <3>8
  <2>4. CASE s = s0 /\ ~Shown(s)
    <3>1. c \in CandidatesOf(s) BY <1>3, <2>4 DEF CandidatesOf
    <3>2. /\ c.thread = s /\ c.indexed = TRUE /\ ~There(c.path) /\ InIndex(s) /\ OfHidden(s)
      BY <2>1, <2>4, <3>1 DEF OfHidden
    <3>3. told \/ (passed /\ s \in listing.seen) BY <1>4, <1>6, <3>2
    <3>4. (Shown(s)' <=> Shown(s)) /\ (InIndex(s)' <=> InIndex(s))
      BY <1>1, <1>2 DEF InIndex, Shown
    <3>5. CandidatesOf(s)' \subseteq CandidatesOf(s) BY <1>2 DEF CandidatesOf
    <3>6. EntriesOf(s) \subseteq EntriesOf(s)' /\ (told => fresh \in EntriesOf(s)')
      BY <1>3, <1>5, <2>4, <3>3 DEF EntriesOf
    <3>7. \A e \in EntriesOf(s)' : e \in EntriesOf(s) \/ e = fresh
      BY <3>3 DEF EntriesOf
    <3>8. ~Scans(s)' BY <3>3 DEF Scans
    <3>9. \A d \in CandidatesOf(s)' :
             d.thread = s /\ d.indexed = TRUE /\ ~There(d.path)' /\ InIndex(s)'
      BY <1>1, <3>2, <3>4, <3>5 DEF OfHidden, There
    <3>10. \A e \in EntriesOf(s)' : e.exists = FALSE /\ InIndex(s)'
      BY <1>5, <3>2, <3>4, <3>7 DEF OfHidden
    <3>11. s \in away' /\ InIndex(s)' /\ listing'.archived => EntriesOf(s)' # {}
      BY <1>1, <1>2, <3>2, <3>3, <3>4, <3>6 DEF OfHidden
    <3>12. OfHidden(s)' BY <3>8, <3>9, <3>10, <3>11 DEF OfHidden
    <3>13. QED BY <2>4, <3>4, <3>12
  <2>5. QED BY <2>2, <2>3, <2>4
<1>14. ListedTrue' BY <1>13 DEF ListedTrue
<1>15. OwnThread(listing.chosen)' BY <1>1, <1>2 DEF OwnThread
<1>16. QED BY <1>7, <1>8, <1>10, <1>11, <1>12, <1>14, <1>15 DEF ListInv

\* The id a scan gives: its own, none, or another thread's if the name has none.
LEMMA ScannedId ==
    ASSUME NEW s, NEW seen \in BOOLEAN
    PROVE  LET id == ResolveThread(s, seen).thread IN
           id \in {s, "none"} \/ (id = "other" /\ s \notin named /\ claim[s] = "other")
<1> DEFINE id == IF seen THEN claim[s] ELSE "absent"
           r == ResolveThread(s, seen)
<1>1. CASE id = "own"
  <2>1. r = Thread(s) BY <1>1, Zenon DEF ResolveThread
  <2>2. QED BY <2>1 DEF Thread
<1>2. CASE id = "other" /\ s \in named
  <2>1. r = [NoThread EXCEPT !.conflict = TRUE] BY <1>2, Zenon DEF ResolveThread
  <2>2. QED BY <2>1 DEF NoThread, Thread
<1>3. CASE id = "other" /\ s \notin named
  <2>1. r = Thread("other") /\ claim[s] = "other" BY <1>3, Zenon DEF ResolveThread
  <2>2. QED BY <1>3, <2>1 DEF Thread
<1>4. CASE id # "own" /\ id # "other"
  <2>1. r = Thread(s) \/ r = NoThread BY <1>4, Zenon DEF ResolveThread
  <2>2. QED BY <2>1 DEF Thread, NoThread
<1>5. QED BY <1>1, <1>2, <1>3, <1>4

LEMMA ScanListed ==
    ASSUME DiscoveryInv, ListScan, UNCHANGED home
    PROVE  ListInv'
<1> DEFINE c == listing.chosen
           gone == Entry(c, c.thread, FALSE, IF c.indexed THEN "rollout_inaccessible" ELSE "none")
           why == IF c.indexed THEN "none"
                  ELSE IF inventory.available THEN "rollout_not_indexed"
                  ELSE IF inventory.error THEN "inventory_unreadable" ELSE "none"
<1> PICK seen \in BOOLEAN :
       entries' = entries \cup
          {IF ~There(c.path) THEN gone
           ELSE Entry(c, ResolveThread(c.path.session, seen).thread, TRUE, why)}
  BY DEF ListScan
<1> DEFINE id == ResolveThread(c.path.session, seen).thread
           fresh == IF ~There(c.path) THEN gone ELSE Entry(c, id, TRUE, why)
<1>1. /\ HomeRows /\ ListInv /\ OwnThread(c) /\ pc = "findScan" /\ pc' = "findList"
      /\ UNCHANGED <<place, row, named, claim, moved, reindexed, away, unread, inventory,
                     listing>>
      /\ entries' = entries \cup {fresh}
  BY DEF DiscoveryInv, Listing, Listed, ListInv, ListScan, home, header, history, Goto
<1>2. why # "indexed_rollout_missing" OBVIOUS
<1> HIDE DEF why, id
<1>3. /\ fresh.path = c.path /\ fresh.indexed = c.indexed /\ fresh.exists \in BOOLEAN
      /\ There(c.path) => fresh.exists = TRUE /\ fresh.id = id
      /\ ~There(c.path) => fresh.exists = FALSE /\ fresh.id = c.thread
      /\ fresh.mismatch # "indexed_rollout_missing"
  BY <1>2 DEF Entry
<1>4. PICK e0 : e0 = fresh OBVIOUS
<1>5. PICK s0 \in Sessions : s0 = c.path.session /\ Scans(s0)
  BY <1>1 DEF OwnThread, Paths, Scans
<1>6. c.path.session = s0 /\ c.path \in Paths /\ c.thread \in {s0, "none"}
  BY <1>1, <1>5 DEF OwnThread
<1>7. id \in {s0, "none"} \/ (id = "other" /\ s0 \notin named /\ claim[s0] = "other")
  BY <1>6, ScannedId DEF id
<1> HIDE DEF fresh, gone
<1>8. /\ \A s \in Sessions : CandidatesOf(s)' = CandidatesOf(s) /\ ~Scans(s)'
      /\ \A s \in Sessions : s # s0 => EntriesOf(s)' = EntriesOf(s) /\ ~Scans(s)
      /\ EntriesOf(s0)' = EntriesOf(s0) \cup {fresh}
  BY <1>1, <1>3, <1>6 DEF CandidatesOf, EntriesOf, Scans
<1>9. /\ \A b \in listing'.candidates : OwnThread(b)'
      /\ \A s \in named' \ moved' : Shown(s)' => \A b \in CandidatesOf(s)' : b.path = Put(s)'
  BY <1>1 DEF ListInv, OwnThread, CandidatesOf, Shown, Put
<1>10. MissingOnce' /\ \A e \in entries' : e.path \in Paths
  <2>1. MissingOnce /\ \A e \in entries : e.path \in Paths BY <1>1 DEF ListInv
  <2>2. \A e \in entries : IdIsOwn(e) => IdIsOwn(e)' BY <1>1 DEF IdIsOwn
  <2>3. IdIsOwn(e0)' BY <1>1, <1>3, <1>4, <1>6, <1>7 DEF IdIsOwn
  <2>4. \A e \in entries' : e.exists \in BOOLEAN /\ IdIsOwn(e)' /\ e.path \in Paths
    BY <1>1, <1>3, <1>4, <1>6, <2>1, <2>2, <2>3 DEF MissingOnce
  <2>5. fresh.exists = FALSE => fresh.id = c.thread BY <1>3
  <2>6. \A e \in entries' : e.exists = FALSE => e.id \in listing'.seen \cup {"none"}
    BY <1>1, <2>1, <2>5 DEF MissingOnce
  <2>7. \A e, f \in entries' :
           e.exists = FALSE /\ f.exists = FALSE /\ e.id = f.id /\ e.id # "none" => e = f
    BY <1>1, <2>1, <2>5 DEF MissingOnce
  <2>8. QED BY <1>1, <2>4, <2>6, <2>7 DEF MissingOnce
<1>11. NamedOnce' /\ SettledOnce'
  <2>1. NamedOnce /\ SettledOnce /\ named \subseteq Sessions BY <1>1 DEF ListInv, HomeRows
  <2>2. \A s \in Sessions : Settled(s)' => Settled(s) BY <1>1 DEF Settled
  <2>3. NamedOnce'
    <3> SUFFICES ASSUME NEW s \in named
                 PROVE  /\ \A d \in CandidatesOf(s)' : d.thread = s
                        /\ EntriesOf(s)' # {} => s \in listing'.seen
                        /\ \A e, f \in EntriesOf(s)' : e = f
      BY <1>1, <1>8, <2>1 DEF NamedOnce
    <3>1. CASE s = s0 BY <1>1, <1>5, <1>8, <2>1, <3>1 DEF NamedOnce
    <3>2. CASE s # s0 BY <1>1, <1>8, <2>1, <3>2 DEF NamedOnce
    <3>3. QED BY <3>1, <3>2
  <2>4. SettledOnce'
    <3> SUFFICES ASSUME NEW s \in Sessions \ named, Settled(s)
                 PROVE  /\ \A d, e \in CandidatesOf(s)' : d = e
                        /\ CandidatesOf(s)' # {} => EntriesOf(s)' = {}
                        /\ \A e, f \in EntriesOf(s)' : e = f
      BY <1>1, <1>8, <2>2 DEF SettledOnce
    <3>1. CASE s = s0 BY <1>5, <1>8, <2>1, <3>1 DEF SettledOnce
    <3>2. CASE s # s0 BY <1>8, <2>1, <3>2 DEF SettledOnce
    <3>3. QED BY <3>1, <3>2
  <2>5. QED BY <2>3, <2>4
<1>12. \A e \in entries' : e.mismatch = "indexed_rollout_missing" => Excused(e)'
  BY <1>1, <1>3 DEF ListInv, Excused
<1>13. ASSUME NEW s \in Undisturbed'
      PROVE  (Shown(s)' => OfShown(s)') /\ (~Shown(s)' => OfHidden(s)')
  <2>1. /\ s \in Undisturbed /\ s \in Sessions
        /\ (Shown(s) => OfShown(s)) /\ (~Shown(s) => OfHidden(s)) /\ ~Scans(s)'
    BY <1>1 DEF Undisturbed, ListInv, ListedTrue, Scans
  <2>2. CASE s # c.path.session
    <3>1. CandidatesOf(s)' = CandidatesOf(s) BY <1>1 DEF CandidatesOf
    <3>2. EntriesOf(s)' = EntriesOf(s) /\ entries \subseteq entries'
      BY <1>1, <1>5, <1>8, <2>1, <2>2
    <3>3. ~Scans(s) BY <2>2 DEF Scans
    <3>4. s \in listing'.seen <=> s \in listing.seen BY <1>1
    <3>5. QED BY <1>1, <2>1, <3>1, <3>2, <3>3, <3>4, OtherListed
  <2>3. CASE s = c.path.session
    <3>1. Scans(s) BY <1>1, <2>3 DEF Scans
    <3>2. Shown(s) /\ OfShown(s) BY <2>1, <3>1 DEF OfHidden
    <3>3. CandidatesOf(s) = {} /\ EntriesOf(s) = {} /\ c = Own(s) BY <3>1, <3>2 DEF OfShown
    <3>4. There(c.path)
      <4>1. c.path = Put(s) BY <3>3 DEF Own
      <4>2. QED BY <4>1 DEF There, Put
    <3>5. fresh.exists = TRUE /\ IndexTold(fresh, s)
      <4>1. c.indexed = IF InIndex(s) THEN TRUE ELSE FALSE BY <3>3 DEF Own
      <4>2. fresh.indexed \in BOOLEAN /\ (fresh.indexed = TRUE <=> InIndex(s))
        BY <1>3, <4>1
      <4>3. QED BY <1>3, <3>4, <4>2 DEF IndexTold
    <3>6. EntriesOf(s)' = {e0} /\ e0 \in entries' /\ e0.exists = TRUE
      BY <1>1, <1>3, <1>4, <2>3, <3>3, <3>5 DEF EntriesOf
    <3>7. IndexTold(e0, s)' BY <1>1, <1>4, <3>5 DEF IndexTold, InIndex
    <3>8. CandidatesOf(s)' = {} BY <1>1, <3>3 DEF CandidatesOf
    <3>9. OfShown(s)' BY <2>1, <3>6, <3>7, <3>8 DEF OfShown
    <3>10. Shown(s)' BY <1>1, <3>2 DEF Shown
    <3>11. QED BY <3>9, <3>10
  <2>4. QED BY <2>2, <2>3
<1>14. ListedTrue' BY <1>13 DEF ListedTrue
<1>15. QED BY <1>1, <1>9, <1>10, <1>11, <1>12, <1>14 DEF ListInv

\* Both folders, in the order their files are looked at.
LEMMA StatCovers ==
    LET todo == SweepOf(Folders[2]) \o SweepOf(Folders[1]) IN
    todo \in Seq(Paths) /\ \A p \in Paths : p \in Range(todo)
<1> DEFINE one == SweepOf(Folders[2])
           two == SweepOf(Folders[1])
<1>1. /\ Folders[1] \in Range(Folders) /\ Folders[2] \in Range(Folders)
      /\ Folders[1] = "sessions" /\ Folders[2] = "archived_sessions"
  BY DEF Folders, Range
<1>2. /\ one \in Seq(Paths) /\ Range(one) = {p \in Paths : p.folder = "archived_sessions"}
      /\ two \in Seq(Paths) /\ Range(two) = {p \in Paths : p.folder = "sessions"}
  BY <1>1, FolderSweep
<1> HIDE DEF one, two
<1>3. /\ Len(one) \in Nat /\ Len(two) \in Nat /\ DOMAIN one = 1..Len(one)
      /\ DOMAIN two = 1..Len(two) /\ Len(one \o two) = Len(one) + Len(two)
      /\ one \o two \in Seq(Paths) /\ DOMAIN (one \o two) = 1..Len(one) + Len(two)
      /\ \A i \in 1..Len(one) + Len(two) :
            (one \o two)[i] = IF i <= Len(one) THEN one[i] ELSE two[i - Len(one)]
  BY <1>2, ConcatProperties
<1>4. ASSUME NEW p \in Paths PROVE p \in Range(one \o two)
  <2>1. p.folder \in {"sessions", "archived_sessions"} BY FolderNames DEF Paths
  <2>2. CASE p.folder = "archived_sessions"
    <3>1. PICK i \in 1..Len(one) : p = one[i] BY <1>2, <1>3, <2>2 DEF Range
    <3>2. i \in 1..Len(one) + Len(two) /\ (one \o two)[i] = p BY <1>3, <3>1
    <3>3. QED BY <1>3, <3>2 DEF Range
  <2>3. CASE p.folder = "sessions"
    <3>1. PICK i \in 1..Len(two) : p = two[i] BY <1>2, <1>3, <2>3 DEF Range
    <3>2. /\ Len(one) + i \in 1..Len(one) + Len(two) /\ ~(Len(one) + i <= Len(one))
          /\ (Len(one) + i) - Len(one) = i
      BY <1>3, <3>1
    <3>3. (one \o two)[Len(one) + i] = p BY <1>3, <3>1, <3>2
    <3>4. QED BY <1>3, <3>2, <3>3 DEF Range
  <2>4. QED BY <2>1, <2>2, <2>3
<1>5. QED BY <1>3, <1>4 DEF one, two

LEMMA ListingUnderListing == DiscoveryInv /\ DiscoverStep => DiscoveryInv'
<1> SUFFICES ASSUME DiscoveryInv, DiscoverStep PROVE DiscoveryInv' OBVIOUS
<1>1. /\ UNCHANGED home /\ UNCHANGED <<place, row, named, claim>> /\ HomeRows /\ HomeRows'
      /\ ListingIsRecord
  BY DEF DiscoverStep, home, header, DiscoveryInv, HomeRows
<1>2. ASSUME UNCHANGED history
      PROVE  UNCHANGED <<moved, reindexed, away, unread>>
  BY <1>2 DEF history
<1>3. ASSUME UNCHANGED history, AwayIsKnown PROVE AwayIsKnown'
  BY <1>1, <1>2, <1>3 DEF AwayIsKnown
<1>4. ASSUME UNCHANGED history, inventory' = inventory, RowsReadStand, pc # "findSelect",
             pc' # "findSelect"
      PROVE  RowsReadStand'
  BY <1>1, <1>2, <1>4 DEF RowsReadStand
<1>5. Range(<<>>) = {} BY DEF Range
<1>6. ASSUME NEW archived \in BOOLEAN, DiscoverStart(archived) PROVE DiscoveryInv'
  <2>1. /\ inventory' = NoInventory /\ entries' = {} /\ moved' = {} /\ reindexed' = {}
        /\ listing' = [NoListing EXCEPT !.stores = Stores, !.archived = archived]
        /\ away' = {s \in Sessions : place[s] = "nowhere"} /\ unread' = {}
        /\ pc' = "findRows" /\ result' = "none"
    BY <1>6 DEF DiscoverStart
  <2>2. /\ listing'.seen = {} /\ listing'.paths = {} /\ listing'.stated = {}
        /\ listing'.archived = archived /\ ListingIsRecord'
    BY <2>1 DEF ListingIsRecord, NoListing
  <2>3. AwayIsKnown' BY <1>1, <2>1 DEF AwayIsKnown
  <2>4. RowsReadStand' BY <2>1 DEF RowsReadStand, NoInventory, NoRows, Rows
  <2>5. QED BY <1>1, <2>1, <2>2, <2>3, <2>4 DEF DiscoveryInv, Listing, Listed
<1>7. CASE FindTable
  <2>1. /\ pc = "findRows" /\ pc' \in {"findRows", "findSelect"}
        /\ result = "none" /\ result' = "none"
        /\ entries = {} /\ entries' = {} /\ UNCHANGED history
        /\ AwayIsKnown /\ RowsReadStand /\ listing.seen = {} /\ listing.paths = {}
        /\ listing.stated = {} /\ listing.archived \in BOOLEAN
        /\ listing' = listing \/ listing' = [listing EXCEPT !.stores = Tail(@)]
    BY <1>7 DEF FindTable, DiscoveryInv, Listing, Goto
  <2>2. /\ listing'.seen = {} /\ listing'.paths = {} /\ listing'.stated = {}
        /\ listing'.archived = listing.archived /\ ListingIsRecord'
    BY <1>1, <2>1 DEF ListingIsRecord
  <2>3. RowsReadStand'
    <3>1. UNCHANGED <<row, unread, reindexed>> BY <1>1, <1>2, <2>1
    <3>2. CASE inventory' = [inventory EXCEPT !.available = TRUE] /\ pc' = "findSelect"
      BY <2>1, <3>1, <3>2 DEF RowsReadStand
    <3>3. CASE inventory' = [inventory EXCEPT !.error = TRUE] /\ pc' = "findRows"
      <4>1. /\ inventory'.rows = inventory.rows /\ inventory'.available = inventory.available
            /\ inventory' = [rows |-> inventory'.rows, available |-> inventory'.available,
                             error |-> inventory'.error]
        BY <2>1, <3>3 DEF RowsReadStand
      <4>2. QED BY <2>1, <3>1, <3>3, <4>1 DEF RowsReadStand
    <3>4. CASE inventory' = inventory /\ pc' = "findRows"
      BY <2>1, <3>1, <3>4 DEF RowsReadStand
    <3>5. QED BY <1>7, <3>2, <3>3, <3>4 DEF FindTable, Goto
  <2>4. QED BY <1>1, <1>3, <2>1, <2>2, <2>3 DEF DiscoveryInv, Listing, Listed
<1>16. CASE SelectRows
  <2>1. /\ pc = "findSelect" /\ pc' = "findRows" /\ result = "none" /\ result' = "none"
        /\ entries = {} /\ entries' = {} /\ UNCHANGED <<moved, reindexed, away>>
        /\ AwayIsKnown /\ RowsReadStand /\ listing.seen = {} /\ listing.paths = {}
        /\ listing.stated = {} /\ listing.archived \in BOOLEAN
        /\ listing' = [listing EXCEPT !.stores = Tail(@)]
    BY <1>16 DEF SelectRows, DiscoveryInv, Listing, Goto
  <2>2. /\ listing'.seen = {} /\ listing'.paths = {} /\ listing'.stated = {}
        /\ listing'.archived = listing.archived /\ ListingIsRecord'
    BY <1>1, <2>1 DEF ListingIsRecord
  <2>3. RowsReadStand'
    <3>1. inventory.available /\ row \in [Sessions -> Rows] /\ row' = row
      BY <1>1, <2>1 DEF RowsReadStand, HomeRows
    <3>2. CASE inventory' = [inventory EXCEPT !.rows = row] /\ unread' = {}
      <4>1. /\ inventory'.rows = row /\ inventory'.available = inventory.available
            /\ inventory' = [rows |-> inventory'.rows, available |-> inventory'.available,
                             error |-> inventory'.error]
        BY <2>1, <3>2 DEF RowsReadStand
      <4>2. QED BY <2>1, <3>1, <3>2, <4>1 DEF RowsReadStand
    <3>3. ASSUME NEW some \in SUBSET Sessions, unread' = Sessions \ some,
                 inventory' = [inventory EXCEPT
                    !.rows = [s \in Sessions |-> IF s \in some THEN row[s] ELSE "absent"],
                    !.error = TRUE]
          PROVE  RowsReadStand'
      <4> DEFINE rows == [s \in Sessions |-> IF s \in some THEN row[s] ELSE "absent"]
      <4>1. rows \in [Sessions -> Rows] BY <3>1 DEF Rows
      <4>2. \A s \in Sessions : rows[s] = IF s \in unread' THEN "absent" ELSE row[s] BY <3>3
      <4> HIDE DEF rows
      <4>3. /\ inventory'.rows = rows /\ inventory'.available = inventory.available
            /\ inventory' = [rows |-> inventory'.rows, available |-> inventory'.available,
                             error |-> inventory'.error]
        BY <2>1, <3>3 DEF RowsReadStand, rows
      <4>4. QED BY <2>1, <3>1, <4>1, <4>2, <4>3 DEF RowsReadStand
    <3>4. QED BY <1>16, <3>2, <3>3 DEF SelectRows
  <2>4. AwayIsKnown' BY <1>1, <2>1 DEF AwayIsKnown
  <2>5. QED BY <1>1, <2>1, <2>2, <2>3, <2>4 DEF DiscoveryInv, Listing, Listed
<1>8. CASE SweepStart
  <2>1. /\ pc = "findRows" /\ pc' = "findSweep" /\ result = "none" /\ result' = "none"
        /\ entries = {} /\ entries' = {} /\ UNCHANGED history /\ inventory' = inventory
        /\ AwayIsKnown /\ RowsReadStand /\ listing.seen = {} /\ listing.paths = {}
        /\ listing.stated = {} /\ listing.archived \in BOOLEAN
        /\ listing' = [listing EXCEPT
                          !.todo = IF listing.archived THEN Sweep ELSE SweepOf(Folders[1])]
    BY <1>8 DEF SweepStart, DiscoveryInv, Listing, Goto
  <2>2. /\ listing'.seen = {} /\ listing'.paths = {} /\ listing'.stated = {}
        /\ listing'.archived = listing.archived /\ ListingIsRecord'
        /\ listing'.todo = IF listing.archived THEN Sweep ELSE SweepOf(Folders[1])
    BY <1>1, <2>1 DEF ListingIsRecord
  <2>3. /\ Folders[1] = "sessions" /\ "sessions" \in Range(Folders) BY DEF Folders, Range
  <2>4. /\ SweepOf(Folders[1]) \in Seq(Paths)
        /\ Range(SweepOf(Folders[1])) = {p \in Paths : p.folder = "sessions"}
    BY <2>3, FolderSweep
  <2>5. \A s \in Sessions : (Shown(s)' <=> Shown(s)) /\ Put(s)' = Put(s)
    BY <1>1, <2>2 DEF Shown, Put
  <2>6. SweepSees'
    <3>1. OnlyPut(listing.paths)' BY <2>2 DEF OnlyPut
    <3>2. \A s \in Sessions : Shown(s) => Put(s) \in Range(listing'.todo)
      <4> SUFFICES ASSUME NEW s \in Sessions, Shown(s)
                   PROVE  Put(s) \in Range(listing'.todo)
        OBVIOUS
      <4>1. Put(s) \in Paths /\ (~listing.archived => Put(s).folder = "sessions")
        BY FolderNames DEF Shown, Put, Paths
      <4>2. QED BY <2>1, <2>2, <2>4, <4>1, SweepCovers
    <3>3. /\ listing'.todo \in Seq(Paths)
          /\ \A p \in Range(listing'.todo) : listing'.archived \/ p.folder = "sessions"
      BY <2>1, <2>2, <2>4, SweepCovers
    <3>4. QED BY <1>1, <2>2, <2>5, <3>1, <3>2, <3>3 DEF SweepSees
  <2>7. QED BY <1>1, <1>3, <1>4, <2>1, <2>2, <2>6 DEF DiscoveryInv, Listing, Listed
<1>9. CASE FindFile
  <2> DEFINE h == Head(listing.todo)
             new == {p \in {h} : There(p)}
  <2>1. /\ pc = "findSweep" /\ pc' = "findSweep" /\ result = "none" /\ result' = "none"
        /\ entries = {} /\ entries' = {} /\ UNCHANGED history /\ inventory' = inventory
        /\ AwayIsKnown /\ RowsReadStand /\ SweepSees /\ listing.seen = {}
        /\ listing.stated = {} /\ listing.archived \in BOOLEAN /\ listing.todo # <<>>
        /\ listing' = [listing EXCEPT !.todo = Tail(@), !.paths = @ \cup new]
    BY <1>9 DEF FindFile, DiscoveryInv, Listing, Goto
  <2>2. /\ listing'.seen = {} /\ listing'.paths = listing.paths \cup new
        /\ listing'.stated = {} /\ listing'.archived = listing.archived /\ ListingIsRecord'
        /\ listing'.todo = Tail(listing.todo)
    BY <1>1, <2>1 DEF ListingIsRecord
  <2>3. /\ h \in Paths /\ Tail(listing.todo) \in Seq(Paths) /\ h \in Range(listing.todo)
        /\ \A p \in Range(listing.todo) : p = h \/ p \in Range(Tail(listing.todo))
        /\ Range(Tail(listing.todo)) \subseteq Range(listing.todo)
    BY <2>1, TailVisits DEF SweepSees
  <2>4. \A p \in new : p = h /\ There(h) OBVIOUS
  <2>5. There(h) => h \in new OBVIOUS
  <2> HIDE DEF h, new
  <2>6. \A s \in Sessions : (Shown(s)' <=> Shown(s)) /\ Put(s)' = Put(s)
    BY <1>1, <2>2 DEF Shown, Put
  <2>7. There(h) => Shown(h.session) /\ h = Put(h.session)
    <3>1. listing.archived \/ h.folder = "sessions" BY <2>1, <2>3 DEF SweepSees
    <3>2. h.folder \in {"sessions", "archived_sessions"} BY <2>3, FolderNames DEF Paths
    <3>3. QED BY <1>1, <2>3, <3>1, <3>2, ThereIsPut DEF Shown
  <2>8. OnlyPut(listing.paths)'
    <3> SUFFICES ASSUME NEW p \in listing'.paths
                 PROVE  p \in Paths /\ (p.session \notin moved' =>
                                           Shown(p.session)' /\ p = Put(p.session)')
      BY DEF OnlyPut
    <3>1. p \in Paths /\ (p.session \notin moved => Shown(p.session) /\ p = Put(p.session))
      BY <2>1, <2>2, <2>3, <2>4, <2>7 DEF SweepSees, OnlyPut
    <3>2. p.session \in Sessions BY <3>1 DEF Paths
    <3>3. QED BY <1>2, <2>1, <2>6, <3>1, <3>2
  <2>9. SweepSees'
    <3>1. ASSUME NEW s \in Sessions \ moved', Shown(s)'
          PROVE  Put(s)' \in listing'.paths \/ Put(s)' \in Range(listing'.todo)
      <4>1. s \in Sessions \ moved /\ Shown(s) /\ Put(s)' = Put(s) BY <1>2, <2>1, <2>6, <3>1
      <4>2. Put(s) \in listing.paths \/ Put(s) \in Range(listing.todo)
        BY <2>1, <4>1 DEF SweepSees
      <4>3. Put(s) = h => There(h) BY <4>1 DEF There, Put
      <4>4. QED BY <2>2, <2>3, <2>5, <4>1, <4>2, <4>3
    <3>2. \A p \in Range(listing'.todo) : listing'.archived \/ p.folder = "sessions"
      BY <2>1, <2>2, <2>3 DEF SweepSees
    <3>3. QED BY <2>2, <2>3, <2>8, <3>1, <3>2 DEF SweepSees
  <2>10. QED BY <1>1, <1>3, <1>4, <2>1, <2>2, <2>9 DEF DiscoveryInv, Listing, Listed
<1>10. CASE StatStart
  <2>1. /\ pc = "findSweep" /\ pc' = "findStat" /\ result = "none" /\ result' = "none"
        /\ entries = {} /\ entries' = {} /\ UNCHANGED history /\ inventory' = inventory
        /\ AwayIsKnown /\ RowsReadStand /\ SweepSees /\ listing.seen = {}
        /\ listing.stated = {} /\ listing.archived \in BOOLEAN /\ listing.todo = <<>>
        /\ listing' = [listing EXCEPT !.todo = SweepOf(Folders[2]) \o SweepOf(Folders[1])]
    BY <1>10 DEF StatStart, DiscoveryInv, Listing, Goto
  <2>2. /\ listing'.seen = {} /\ listing'.paths = listing.paths
        /\ listing'.stated = {} /\ listing'.archived = listing.archived /\ ListingIsRecord'
        /\ listing'.todo = SweepOf(Folders[2]) \o SweepOf(Folders[1])
    BY <1>1, <2>1 DEF ListingIsRecord
  <2>3. /\ listing'.todo \in Seq(Paths) /\ \A p \in Paths : p \in Range(listing'.todo)
    BY <2>2, StatCovers
  <2>4. \A s \in Sessions : (Shown(s)' <=> Shown(s)) /\ Put(s)' = Put(s)
    BY <1>1, <2>2 DEF Shown, Put
  <2>5. OnlyPut(listing.paths)'
    <3> SUFFICES ASSUME NEW p \in listing'.paths
                 PROVE  p \in Paths /\ (p.session \notin moved' =>
                                           Shown(p.session)' /\ p = Put(p.session)')
      BY DEF OnlyPut
    <3>1. p \in Paths /\ (p.session \notin moved => Shown(p.session) /\ p = Put(p.session))
      BY <2>1, <2>2 DEF SweepSees, OnlyPut
    <3>2. p.session \in Sessions BY <3>1 DEF Paths
    <3>3. QED BY <1>2, <2>1, <2>4, <3>1, <3>2
  <2>6. StatSees'
    <3>1. ASSUME NEW s \in Sessions \ moved', Shown(s)'
          PROVE  Put(s)' \in listing'.paths /\ Put(s)' \in Range(listing'.todo)
      <4>1. s \in Sessions \ moved /\ Shown(s) /\ Put(s)' = Put(s) BY <1>2, <2>1, <2>4, <3>1
      <4>2. Put(s) \in listing.paths BY <1>5, <2>1, <4>1 DEF SweepSees
      <4>3. Put(s) \in Paths BY <2>1, <4>2 DEF SweepSees, OnlyPut
      <4>4. QED BY <2>2, <2>3, <4>1, <4>2, <4>3
    <3>2. OnlyPut(listing.stated)' BY <2>2 DEF OnlyPut
    <3>3. QED BY <2>3, <2>5, <3>1, <3>2 DEF StatSees
  <2>7. QED BY <1>1, <1>3, <1>4, <2>1, <2>2, <2>6 DEF DiscoveryInv, Listing, Listed
<1>11. CASE StatFile
  <2> DEFINE h == Head(listing.todo)
             new == {p \in {h} \cap listing.paths : There(p)}
  <2>1. /\ pc = "findStat" /\ pc' = "findStat" /\ result = "none" /\ result' = "none"
        /\ entries = {} /\ entries' = {} /\ UNCHANGED history /\ inventory' = inventory
        /\ AwayIsKnown /\ RowsReadStand /\ StatSees /\ listing.seen = {}
        /\ listing.archived \in BOOLEAN /\ listing.todo # <<>>
        /\ listing' = [listing EXCEPT !.todo = Tail(@), !.stated = @ \cup new]
    BY <1>11 DEF StatFile, DiscoveryInv, Listing, Goto
  <2>2. /\ listing'.seen = {} /\ listing'.paths = listing.paths
        /\ listing'.stated = listing.stated \cup new
        /\ listing'.archived = listing.archived /\ ListingIsRecord'
        /\ listing'.todo = Tail(listing.todo)
    BY <1>1, <2>1 DEF ListingIsRecord
  <2>3. /\ h \in Paths /\ Tail(listing.todo) \in Seq(Paths)
        /\ \A p \in Range(listing.todo) : p = h \/ p \in Range(Tail(listing.todo))
    BY <2>1, TailVisits DEF StatSees
  <2>4. new \subseteq listing.paths /\ (There(h) /\ h \in listing.paths => h \in new) OBVIOUS
  <2> HIDE DEF h, new
  <2>5. \A s \in Sessions : (Shown(s)' <=> Shown(s)) /\ Put(s)' = Put(s)
    BY <1>1, <2>2 DEF Shown, Put
  <2>6. \A p \in listing.paths \cup listing.stated :
           p \in Paths /\ (p.session \notin moved' => Shown(p.session)' /\ p = Put(p.session)')
    <3> SUFFICES ASSUME NEW p \in listing.paths \cup listing.stated
                 PROVE  p \in Paths /\ (p.session \notin moved' =>
                                           Shown(p.session)' /\ p = Put(p.session)')
      OBVIOUS
    <3>1. p \in Paths /\ (p.session \notin moved => Shown(p.session) /\ p = Put(p.session))
      BY <2>1 DEF StatSees, OnlyPut
    <3>2. p.session \in Sessions BY <3>1 DEF Paths
    <3>3. QED BY <1>2, <2>1, <2>5, <3>1, <3>2
  <2>7. OnlyPut(listing.paths)' /\ OnlyPut(listing.stated)' BY <2>2, <2>4, <2>6 DEF OnlyPut
  <2>8. StatSees'
    <3>1. ASSUME NEW s \in Sessions \ moved', Shown(s)'
          PROVE  \/ Put(s)' \in listing'.stated
                 \/ Put(s)' \in listing'.paths /\ Put(s)' \in Range(listing'.todo)
      <4>1. s \in Sessions \ moved /\ Shown(s) /\ Put(s)' = Put(s) BY <1>2, <2>1, <2>5, <3>1
      <4>2. \/ Put(s) \in listing.stated
            \/ Put(s) \in listing.paths /\ Put(s) \in Range(listing.todo)
        BY <2>1, <4>1 DEF StatSees
      <4>3. Put(s) = h => There(h) BY <4>1 DEF There, Put
      <4>4. QED BY <2>2, <2>3, <2>4, <4>1, <4>2, <4>3
    <3>2. QED BY <2>2, <2>3, <2>7, <3>1 DEF StatSees
  <2>9. QED BY <1>1, <1>3, <1>4, <2>1, <2>2, <2>8 DEF DiscoveryInv, Listing, Listed
<1>12. CASE Merge
  <2>1. /\ pc = "findStat" /\ pc' = "findList" /\ result = "none" /\ result' = "none"
        /\ entries = {} /\ entries' = {} /\ UNCHANGED history /\ inventory' = inventory
        /\ AwayIsKnown /\ RowsReadStand /\ StatSees /\ listing.seen = {}
        /\ listing.archived \in BOOLEAN /\ listing.todo = <<>>
        /\ listing' = [listing EXCEPT !.candidates = Merged]
    BY <1>12 DEF Merge, DiscoveryInv, Listing, Goto
  <2>2. PICK merged : merged = Merged OBVIOUS
  <2>3. /\ listing'.seen = {} /\ listing'.candidates = merged
        /\ listing'.archived = listing.archived /\ ListingIsRecord'
    BY <1>1, <2>1, <2>2 DEF ListingIsRecord
  <2>4. /\ \A c \in merged : OwnThread(c)
        /\ \A c \in merged : c.path.session \in named => c.thread = c.path.session
        /\ \A s \in Sessions \ named : Settled(s) =>
              \A c, d \in merged : c.path.session = s /\ d.path.session = s => c = d
        /\ \A s \in named \ moved :
              Shown(s) => \A c \in merged : c.path.session = s => c.path = Put(s)
        /\ \A s \in Undisturbed :
              Shown(s) => {c \in merged : c.path.session = s} = {Own(s)}
        /\ \A s \in Undisturbed : ~Shown(s) =>
              /\ \A c \in merged : c.path.session = s =>
                    c.thread = s /\ c.indexed = TRUE /\ ~There(c.path) /\ InIndex(s)
              /\ s \in away /\ InIndex(s) /\ listing.archived =>
                    \E c \in merged : c.path.session = s
    BY <1>1, <2>1, <2>2, MergedIsOwn
  <2>5. \A s \in Sessions : /\ (Shown(s)' <=> Shown(s)) /\ Put(s)' = Put(s)
                            /\ (InIndex(s)' <=> InIndex(s)) /\ Own(s)' = Own(s)
    BY <1>1, <1>2, <2>1, <2>3 DEF Shown, Put, InIndex, Own
  <2>6. \A s \in Sessions : EntriesOf(s)' = {} /\ ~Scans(s)'
                            /\ CandidatesOf(s)' = {c \in merged : c.path.session = s}
    BY <2>1, <2>3 DEF EntriesOf, Scans, CandidatesOf
  <2>7. UNCHANGED <<moved, reindexed, away>> BY <1>2, <2>1
  <2>8. ASSUME NEW s \in Undisturbed'
        PROVE  (Shown(s)' => OfShown(s)') /\ (~Shown(s)' => OfHidden(s)')
    <3>1. s \in Undisturbed /\ s \in Sessions BY <1>1, <2>7 DEF Undisturbed
    <3>2. CASE Shown(s)
      <4>1. CandidatesOf(s)' = {Own(s)'} BY <2>4, <2>5, <2>6, <3>1, <3>2
      <4>2. OfShown(s)' BY <2>3, <2>6, <3>1, <4>1 DEF OfShown
      <4>3. QED BY <2>5, <3>1, <3>2, <4>2
    <3>3. CASE ~Shown(s)
      <4>1. /\ \A c \in merged : c.path.session = s =>
                  c.thread = s /\ c.indexed = TRUE /\ ~There(c.path) /\ InIndex(s)
            /\ s \in away /\ InIndex(s) /\ listing.archived =>
                  \E c \in merged : c.path.session = s
        BY <2>4, <3>1, <3>3
      <4>2. \A c \in merged : There(c.path)' <=> There(c.path) BY <1>1 DEF There
      <4>3. PICK cs : CandidatesOf(s)' = cs /\ cs = {c \in merged : c.path.session = s}
        BY <2>6, <3>1
      <4>4. \A c \in cs : c.thread = s /\ c.indexed = TRUE /\ ~There(c.path)' /\ InIndex(s)'
        BY <2>5, <3>1, <4>1, <4>2, <4>3
      <4>5. s \in away' /\ InIndex(s)' /\ listing'.archived =>
               cs # {} /\ s \notin listing'.seen
        BY <2>3, <2>5, <2>7, <3>1, <4>1, <4>3
      <4>6. OfHidden(s)' BY <2>6, <3>1, <4>3, <4>4, <4>5 DEF OfHidden
      <4>7. QED BY <2>5, <3>1, <3>3, <4>6
    <3>4. QED BY <3>2, <3>3
  <2>9. ListedTrue' BY <2>8 DEF ListedTrue
  <2>10. \A s \in named' \ moved' : Shown(s)' => \A c \in CandidatesOf(s)' : c.path = Put(s)'
    BY <1>1, <2>4, <2>5, <2>6, <2>7 DEF HomeRows
  <2>11. MissingOnce' BY <2>1 DEF MissingOnce
  <2>12. NamedOnce'
    <3>1. \A s \in named : s \in Sessions BY <1>1 DEF HomeRows
    <3>2. QED BY <1>1, <2>4, <2>6, <3>1 DEF NamedOnce
  <2>13. SettledOnce'
    <3>1. \A s \in Sessions : Settled(s)' => Settled(s) BY <1>1, <2>7 DEF Settled
    <3>2. QED BY <1>1, <2>4, <2>6, <3>1 DEF SettledOnce
  <2>14. ListInv'
    BY <2>1, <2>3, <2>4, <2>9, <2>10, <2>11, <2>12, <2>13 DEF ListInv, OwnThread
  <2>15. QED BY <1>1, <1>3, <1>4, <2>1, <2>3, <2>14 DEF DiscoveryInv, Listing, Listed
<1>13. ASSUME NEW c \in listing.candidates, ListNext(c) PROVE DiscoveryInv'
  <2>1. /\ pc = "findList" /\ result = "none" /\ result' = "none" /\ UNCHANGED history
        /\ inventory' = inventory /\ AwayIsKnown /\ RowsReadStand
        /\ listing.archived \in BOOLEAN /\ pc' \in {"findList", "findScan"}
        /\ listing' = [listing EXCEPT !.candidates = @ \ {c}, !.chosen = c,
                                      !.seen = @ \cup ({c.thread} \ {"none"})]
    BY <1>13 DEF ListNext, DiscoveryInv, Listing, Goto
  <2>2. listing'.archived = listing.archived /\ ListingIsRecord'
    BY <1>1, <2>1 DEF ListingIsRecord
  <2>3. ListInv' BY <1>1, <1>13, <2>1, NextListed
  <2>4. QED BY <1>1, <1>3, <1>4, <2>1, <2>2, <2>3 DEF DiscoveryInv, Listing, Listed
<1>14. CASE ListScan
  <2>1. /\ pc = "findScan" /\ pc' = "findList" /\ result = "none" /\ result' = "none"
        /\ UNCHANGED history /\ inventory' = inventory /\ AwayIsKnown /\ RowsReadStand
        /\ listing' = listing /\ listing.archived \in BOOLEAN
    BY <1>14 DEF ListScan, DiscoveryInv, Listing, Goto
  <2>2. ListInv' BY <1>1, <1>14, ScanListed
  <2>3. QED
    BY <1>1, <1>3, <1>4, <2>1, <2>2 DEF DiscoveryInv, Listing, Listed, ListingIsRecord
<1>15. CASE DiscoverEnd
  <2>1. /\ pc = "findList" /\ pc' = "idle" /\ result' = "listing" /\ listing.candidates = {}
        /\ UNCHANGED history /\ inventory' = inventory /\ AwayIsKnown /\ RowsReadStand
        /\ listing' = listing /\ entries' = entries /\ ListInv
    BY <1>15 DEF DiscoverEnd, DiscoveryInv, Listing, Listed, Answer, discoveryVars
  <2>2. UNCHANGED <<moved, reindexed, away, unread>> BY <1>2, <2>1
  <2>3. \A s \in Undisturbed' : (Shown(s)' => OfShown(s)') /\ (~Shown(s)' => OfHidden(s)')
    <3> SUFFICES ASSUME NEW s \in Undisturbed'
                 PROVE  (Shown(s)' => OfShown(s)') /\ (~Shown(s)' => OfHidden(s)')
      OBVIOUS
    <3>1. /\ s \in Undisturbed /\ s \in Sessions
          /\ (Shown(s) => OfShown(s)) /\ (~Shown(s) => OfHidden(s))
      BY <1>1, <2>1, <2>2 DEF Undisturbed, ListInv, ListedTrue
    <3>2. /\ CandidatesOf(s)' = CandidatesOf(s) /\ EntriesOf(s)' = EntriesOf(s)
          /\ ~Scans(s) /\ ~Scans(s)' /\ entries \subseteq entries'
          /\ (s \in listing'.seen <=> s \in listing.seen)
          /\ listing'.archived = listing.archived
      BY <2>1 DEF CandidatesOf, EntriesOf, Scans
    <3>3. QED BY <1>1, <2>1, <2>2, <3>1, <3>2, OtherListed
  <2>4. ListedTrue' BY <2>3 DEF ListedTrue
  <2>5. MissingOnce' BY <1>1, <2>1 DEF ListInv, MissingOnce, IdIsOwn
  <2>6. \A s \in Sessions : /\ CandidatesOf(s)' = CandidatesOf(s) /\ EntriesOf(s)' = EntriesOf(s)
                            /\ ~Scans(s)'
    BY <2>1 DEF CandidatesOf, EntriesOf, Scans
  <2>7. NamedOnce'
    <3>1. \A s \in named : s \in Sessions BY <1>1 DEF HomeRows
    <3>2. QED BY <1>1, <2>1, <2>6, <3>1 DEF ListInv, NamedOnce
  <2>8. SettledOnce'
    <3>1. \A s \in Sessions : Settled(s)' => Settled(s) BY <1>1, <2>2 DEF Settled
    <3>2. QED BY <1>1, <2>1, <2>6, <3>1 DEF ListInv, SettledOnce
  <2>9. ListInv'
    BY <1>1, <2>1, <2>2, <2>4, <2>5, <2>7, <2>8
       DEF ListInv, OwnThread, Excused, CandidatesOf, Shown, Put
  <2>10. QED
    BY <1>1, <1>3, <1>4, <2>1, <2>9 DEF DiscoveryInv, Listing, Listed, ListingIsRecord
<1>17. QED
  BY <1>6, <1>7, <1>8, <1>9, <1>10, <1>11, <1>12, <1>13, <1>14, <1>15, <1>16 DEF DiscoverStep

LEMMA ListingKept == DiscoveryInv /\ [ListingNext]_listingAll => DiscoveryInv'
<1> SUFFICES ASSUME DiscoveryInv, [ListingNext]_listingAll PROVE DiscoveryInv' OBVIOUS
<1>1. CASE UNCHANGED listingAll
  <2>1. /\ UNCHANGED <<place, row, readable, named, claim, pc, result, inventory, listing,
                       entries, moved, reindexed, away, unread>>
        /\ HomeRows
    BY <1>1 DEF listingAll, home, header, discoveryVars, history, DiscoveryInv
  <2>2. /\ HomeRows' /\ ListingIsRecord' /\ (Listing' <=> Listing) /\ (Listed' <=> Listed)
    BY <2>1 DEF HomeRows, ListingIsRecord, DiscoveryInv, Listing, Listed
  <2>3. Listing \/ Listed =>
           AwayIsKnown' /\ RowsReadStand' /\ (SweepSees => SweepSees')
           /\ (StatSees => StatSees') /\ (ListInv => ListInv')
    <3>1. ASSUME AwayIsKnown
          PROVE  \A s \in Sessions : s \in away' <=> s \in away \/ place'[s] = "nowhere"
      BY <2>1, <3>1 DEF AwayIsKnown
    <3>2. /\ moved \subseteq moved' /\ reindexed \subseteq reindexed' /\ away \subseteq away'
          /\ \A s \in Sessions \ moved' : place'[s] = place[s]
          /\ \A s \in Sessions \ reindexed' : row'[s] = row[s]
          /\ UNCHANGED <<named, claim, inventory, listing, entries, pc, unread>>
      BY <2>1
    <3>3. Listing \/ Listed => AwayIsKnown /\ RowsReadStand BY DEF DiscoveryInv
    <3>4. ASSUME AwayIsKnown
          PROVE  /\ AwayIsKnown'
                 /\ RowsReadStand => RowsReadStand'
                 /\ SweepSees => SweepSees'
                 /\ StatSees => StatSees'
                 /\ ListInv => ListInv'
      BY <2>1, <3>1, <3>2, <3>4, LeftAlone
    <3>5. QED BY <3>3, <3>4
  <2>4. QED BY <2>1, <2>2, <2>3 DEF DiscoveryInv, Listing
<1>2. QED BY <1>1, ListingUnderCodex, ListingUnderListing DEF ListingNext

\* The listing tells the truth of every session that nobody touched, as far as its row
\* could be read; it lists no session id twice, but for the rollouts ListedTwice names,
\* and reports none missing that was there, however many rollouts are moved under it
\* and wherever the query of the rows breaks off (discover_sessions, _read_inventory,
\* _merge_inventory, _wrap).
THEOREM ListingIsTrueHolds == DiscoverySpec => []ListingIsTrue
<1>1. DiscoveryInv => ListingIsTrue BY ListingTrue DEF ListingIsTrue, DiscoveryInv, Listing
<1>2. QED BY <1>1, ListingInitially, ListingKept, PTL
          DEF DiscoverySpec, ListingBegin, ListingNext, listingAll
=============================================================================
