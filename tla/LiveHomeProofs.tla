----------------------------- MODULE LiveHomeProofs -----------------------------
(***************************************************************************)
(* The run of the read-only commands beside Codex and the commands each by *)
(* itself.  Every variable has its type in each of them, for any sessions, *)
(* stores and bounds; and what the run does with one command is what that  *)
(* command's own specification allows beside a Codex that takes any turn,  *)
(* so that what is proved of the command holds in the run.                 *)
(***************************************************************************)
EXTENDS MCLiveHome, HomeSweepProofs, RolloutReaderProofs

(* The home.                                                               *)
LEMMA HomeTypedInitially == HomeInit => HomeTypeOK
<1> SUFFICES ASSUME HomeInit PROVE HomeTypeOK OBVIOUS
<1>1. Meta \in Records BY DEF Meta, Record, Records, Kinds
<1>2. <<Meta>> \in Seq(Records) /\ Len(<<Meta>>) = 1 BY <1>1
<1>3. 1 \in 1..Lines /\ 0 \in 0..Turns BY HomeAssumption
<1>4. log \in [Sessions -> Seq(Records)] /\ \A s \in Sessions : Len(log[s]) \in 1..Lines
  <2>1. log = [s \in Sessions |-> <<Meta>>] BY DEF HomeInit
  <2>2. QED BY <1>2, <1>3, <2>1
<1>5. cursor \in [Sessions -> [Range(Stores) -> Cursors]]
  <2>1. PICK projected \in SUBSET Range(Stores) :
           cursor = [s \in Sessions |-> [d \in Range(Stores) |->
                       IF d \in projected THEN CursorAfter(1, Meta) ELSE NoCursor]]
    BY DEF HomeInit
  <2>2. NoCursor \in Cursors BY DEF NoCursor, Cursors
  <2>3. CursorAfter(1, Meta) \in Cursors
    <3>1. Meta.ordinal + 1 \in Nat /\ 2 * 1 \in Nat BY <1>1 DEF Records
    <3>2. QED BY <3>1 DEF CursorAfter, Cursors
  <2>4. QED BY <2>1, <2>2, <2>3
<1>6. place \in [Sessions -> Places] /\ row \in [Sessions -> Rows]
  <2>1. PICK here \in [Sessions -> Places] :
          /\ place = here
          /\ row \in [Sessions -> {"absent"} \cup (Range(here) \cap Range(Folders))]
    BY DEF HomeInit
  <2>2. QED BY <2>1 DEF Rows
<1>7. /\ named \subseteq Sessions /\ claim \in [Sessions -> Claims]
      /\ torn \in [Sessions -> BOOLEAN] /\ mtime \in [Sessions -> 0..Turns]
      /\ edge \in [Sessions -> {"unrecorded", "open", "closed"}]
      /\ alive \in [Sessions -> BOOLEAN] /\ readable \in BOOLEAN /\ turns \in 0..Turns
  BY <1>3 DEF HomeInit
<1>8. QED BY <1>4, <1>5, <1>6, <1>7 DEF HomeTypeOK

LEMMA TurnIsCounted ==
    ASSUME turns \in 0..Turns, Turn
    PROVE  turns' \in 0..Turns /\ turns + 1 \in 0..Turns
BY HomeAssumption DEF Turn

\* A turn changes a few variables and leaves each of its type.
LEMMA TurnKeepsHomeType ==
    ASSUME HomeTypeOK, HomeTurn
    PROVE  HomeTypeOK'
<1> USE DEF HomeTypeOK
<1>1. Turn
  BY DEF HomeTurn, WriteLine, Tear, Move, Create, WriteRow, Project, SetEdge, SetAlive, SetReadable
<1>2. turns' \in 0..Turns /\ turns + 1 \in 0..Turns BY <1>1, TurnIsCounted
<1>3. ASSUME NEW s \in Sessions, NEW r \in Records, WriteLine(s, r) PROVE HomeTypeOK'
  <2>1. /\ log' = [log EXCEPT ![s] = log[s] \o <<r>>] /\ torn' = [torn EXCEPT ![s] = FALSE]
        /\ mtime' = [mtime EXCEPT ![s] = turns + 1] /\ Len(log[s]) < Lines
        /\ UNCHANGED <<named, claim, place, row, cursor, edge, alive, readable>>
    BY <1>3 DEF WriteLine, Touch, header
  <2>2. log[s] \o <<r>> \in Seq(Records) /\ Len(log[s] \o <<r>>) = Len(log[s]) + 1
    <3>1. log[s] \in Seq(Records) OBVIOUS
    <3>2. QED BY <3>1
  <2>3. Len(log[s]) + 1 \in 1..Lines
    <3>1. Len(log[s]) \in 1..Lines OBVIOUS
    <3>2. QED BY <2>1, <3>1, HomeAssumption
  <2>4. log' \in [Sessions -> Seq(Records)]
    BY <2>1, <2>2
  <2>5. \A t \in Sessions : Len(log'[t]) \in 1..Lines
    BY <2>1, <2>2, <2>3
  <2>6. torn' \in [Sessions -> BOOLEAN] /\ mtime' \in [Sessions -> 0..Turns]
    BY <1>2, <2>1
  <2>7. QED BY <1>2, <2>1, <2>4, <2>5, <2>6
<1>4. ASSUME NEW s \in Sessions, Tear(s) PROVE HomeTypeOK'
  BY <1>2, <1>4 DEF Tear, Touch, header
<1>5. ASSUME NEW s \in Sessions, Create(s) PROVE HomeTypeOK'
  BY <1>2, <1>5, FolderNames DEF Create, Touch, header, Places
<1>6. ASSUME NEW s \in Sessions, NEW to \in Places, Move(s, to) PROVE HomeTypeOK'
  BY <1>2, <1>6 DEF Move, header, rollout
<1>7. ASSUME NEW s \in Sessions, NEW value \in Rows, WriteRow(s, value) PROVE HomeTypeOK'
  BY <1>2, <1>7 DEF WriteRow, header, rollout
<1>8. ASSUME NEW s \in Sessions, NEW d \in Range(Stores), NEW n \in 1..Lines, Project(s, d, n)
      PROVE  HomeTypeOK'
  <2> DEFINE c == CursorAfter(n, log[s][n])
  <2>1. /\ cursor' = [cursor EXCEPT ![s][d] = c] /\ n \in 1..Len(log[s])
        /\ UNCHANGED <<named, claim, place, log, torn, mtime, row, edge, alive, readable>>
    BY <1>8 DEF Project, header, rollout
  <2>2. c \in Cursors
    <3>1. log[s] \in Seq(Records) OBVIOUS
    <3>2. log[s][n] \in Records BY <2>1, <3>1
    <3>3. log[s][n].ordinal \in Nat BY <3>2 DEF Records
    <3>4. QED BY <3>3 DEF CursorAfter, Cursors
  <2> HIDE DEF c
  <2>3. cursor' \in [Sessions -> [Range(Stores) -> Cursors]] BY <2>1, <2>2
  <2>4. QED BY <1>2, <2>1, <2>3
<1>9. ASSUME NEW s \in Sessions, NEW value \in {"unrecorded", "open", "closed"},
             SetEdge(s, value)
      PROVE  HomeTypeOK'
  BY <1>2, <1>9 DEF SetEdge, header, rollout
<1>10. ASSUME NEW s \in Sessions, NEW value \in BOOLEAN, SetAlive(s, value) PROVE HomeTypeOK'
  BY <1>2, <1>10 DEF SetAlive, header, rollout
<1>11. ASSUME NEW value \in BOOLEAN, SetReadable(value) PROVE HomeTypeOK'
  BY <1>2, <1>11 DEF SetReadable, header, rollout
<1>12. QED BY <1>3, <1>4, <1>5, <1>6, <1>7, <1>8, <1>9, <1>10, <1>11 DEF HomeTurn

LEMMA HomeTypeStill ==
    ASSUME UNCHANGED home
    PROVE  HomeTypeOK' <=> HomeTypeOK
BY DEF home, HomeTypeOK

-----------------------------------------------------------------------------
(* The turns the run takes are turns of Codex.                             *)
LEMMA LineIsTurn ==
    ASSUME HomeTypeOK, NEW s \in Sessions
    PROVE  /\ \A k \in Kinds, i, o \in Nat : WriteLine(s, Record(k, i, o)) => HomeTurn
           /\ \A k \in Kinds : Line(s, k) => HomeTurn
<1>1. ASSUME NEW k \in Kinds, NEW i \in Nat, NEW o \in Nat, WriteLine(s, Record(k, i, o))
      PROVE  HomeTurn
  <2>1. Record(k, i, o) \in Records BY DEF Record, Records
  <2>2. QED BY <1>1, <2>1 DEF HomeTurn
<1>2. 0 \in Nat /\ Len(log[s]) \in Nat BY DEF HomeTypeOK
<1>3. QED BY <1>1, <1>2 DEF Line

LEMMA KindNames ==
    {"note", "call", "output", "start", "end", "bad", "big"} \subseteq Kinds
BY DEF Kinds

LEMMA CallIdsAreIds ==
    ASSUME HomeTypeOK, NEW s \in Sessions
    PROVE  CallIds(s) \subseteq Nat /\ Cardinality(CallIds(s)) \in Nat
<1> DEFINE calls == {j \in DOMAIN log[s] : log[s][j].kind = "call"}
           id(i) == log[s][i].id
<1>1. log[s] \in Seq(Records) /\ Len(log[s]) \in Nat BY DEF HomeTypeOK
<1>2. \A i \in calls : log[s][i].id \in Nat
  <2> TAKE i \in calls
  <2>1. log[s][i] \in Records BY <1>1
  <2>2. QED BY <2>1 DEF Records
<1>3. IsFiniteSet(calls)
  <2>1. calls \subseteq 1..Len(log[s]) BY <1>1
  <2>2. IsFiniteSet(1..Len(log[s])) BY <1>1, FS_Interval
  <2>3. QED BY <2>1, <2>2, FS_Subset
<1>4. CallIds(s) = {log[s][i].id : i \in calls} BY DEF CallIds
<1>5. CallIds(s) \subseteq Nat BY <1>2, <1>4
<1>6. IsFiniteSet(CallIds(s))
  <2> DEFINE f == [i \in calls |-> log[s][i].id]
  <2> HIDE DEF calls
  <2>1. f \in Surjection(calls, CallIds(s)) BY <1>4 DEF Surjection
  <2> HIDE DEF f
  <2>2. QED BY <1>3, <2>1, FS_Surjection
<1>7. QED BY <1>5, <1>6, FS_CardinalityType

LEMMA TurnsAreTurns ==
    ASSUME HomeTypeOK,
           \/ QuickTurn \/ ParityTurn \/ LifeTurn \/ ObserverTurn \/ DiscoverTurn \/ RouterTurn
           \/ DoctorTurn \/ PortTurn
    PROVE  HomeTurn
<1>1. a \in Sessions /\ b \in Sessions BY InstanceAssumption
<1>2. \A k \in Kinds : (Line(a, k) => HomeTurn) /\ (Line(b, k) => HomeTurn)
  BY <1>1, LineIsTurn
<1>3. \A s \in Sessions : (Tear(s) \/ Create(s) \/ (\E to \in Places : Move(s, to))) => HomeTurn
  BY DEF HomeTurn
<1>4. SetReadable(~readable) => HomeTurn BY DEF HomeTurn
<1>5. \A s \in Sessions : \A value : WriteRow(s, value) => HomeTurn
  BY DEF HomeTurn, WriteRow
<1>6. \A s \in Sessions : \A d \in Range(Stores), n \in 1..Len(log[s]) :
         Project(s, d, n) => HomeTurn
  <2> TAKE s \in Sessions
  <2> TAKE d \in Range(Stores), n \in 1..Len(log[s])
  <2>1. Len(log[s]) \in 1..Lines BY DEF HomeTypeOK
  <2>2. n \in 1..Lines BY <2>1, HomeAssumption
  <2>3. QED BY <2>2 DEF HomeTurn
<1>7. CASE QuickTurn
  <2>1. CallIds(a) \subseteq Nat /\ Cardinality(CallIds(a)) + 1 \in Nat /\ Len(log[a]) \in Nat
    BY <1>1, CallIdsAreIds DEF HomeTypeOK
  <2>2. \A k \in Kinds, i, o \in Nat : WriteLine(a, Record(k, i, o)) => HomeTurn
    BY <1>1, LineIsTurn
  <2>3. QED BY <1>1, <1>2, <1>3, <1>7, <2>1, <2>2, KindNames DEF QuickTurn
<1>8. CASE ParityTurn
  <2>1. log[a] \in Seq(Records) /\ Len(log[a]) \in 1..Lines BY <1>1 DEF HomeTypeOK
  <2>2. Last(log[a]).ordinal \in Nat
    <3>1. log[a][Len(log[a])] \in Records BY <2>1
    <3>2. QED BY <3>1 DEF Last, Records
  <2>3. \A d \in 0..3 : Last(log[a]).ordinal + d \in Nat BY <2>2
  <2>4. \A o \in Nat : WriteLine(a, Record("note", 0, o)) => HomeTurn
    BY <1>1, LineIsTurn, KindNames
  <2>5. QED BY <1>1, <1>3, <1>4, <1>6, <1>8, <2>3, <2>4 DEF ParityTurn
<1>9. CASE LifeTurn
  <2>1. "archived_sessions" \in Places BY FolderNames DEF Places
  <2>2. SetAlive(b, ~alive[b]) => HomeTurn
    <3>1. PICK value \in BOOLEAN : value = ~alive[b] OBVIOUS
    <3>2. SetAlive(b, value) => HomeTurn BY <1>1 DEF HomeTurn
    <3>3. QED BY <3>1, <3>2, Zenon
  <2>3. \A e \in {"open", "closed"} : SetEdge(b, e) => HomeTurn BY <1>1 DEF HomeTurn
  <2>4. QED BY <1>1, <1>2, <1>3, <1>4, <1>9, <2>1, <2>2, <2>3, KindNames DEF LifeTurn
<1>10. /\ \A s \in Sessions : MoveTurn(s) => HomeTurn
       /\ DiscoverTurn => HomeTurn
  <2>1. \A s \in Sessions : MoveTurn(s) => HomeTurn BY <1>3 DEF MoveTurn
  <2>2. QED BY <1>1, <1>5, <2>1 DEF DiscoverTurn
<1>11. CASE ObserverTurn
  <2>1. IndexStore \in Range(Stores) /\ Len(log[a]) \in 1..Len(log[a])
    BY <1>1, HomeAssumption DEF HomeTypeOK
  <2>2. QED BY <1>1, <1>2, <1>5, <1>6, <1>10, <1>11, <2>1, KindNames DEF ObserverTurn
<1>12. CASE DiscoverTurn \/ RouterTurn BY <1>4, <1>10, <1>12 DEF RouterTurn
<1>13. CASE DoctorTurn BY <1>1, <1>2, <1>3, <1>10, <1>13, KindNames DEF DoctorTurn
<1>14. CASE PortTurn BY <1>1, <1>2, <1>3, <1>10, <1>14, KindNames DEF PortTurn
<1>15. QED BY <1>7, <1>8, <1>9, <1>11, <1>12, <1>13, <1>14

LEMMA StepsLeaveHome ==
    ASSUME \/ QuickStep \/ ParityStep \/ LifeStep \/ ObserverStep \/ DiscoverStep \/ RouterStep
           \/ DoctorStep \/ PortStep
    PROVE  UNCHANGED home
BY DEF QuickStep, ParityStep, LifeStep, ObserverStep, DiscoverStep, RouterStep, DoctorStep, PortStep

\* Whatever is run, the home keeps its type.
LEMMA HomeTyped == Spec => []HomeTypeOK
<1>1. Init => HomeTypeOK BY HomeTypedInitially DEF Init
<1>2. HomeTypeOK /\ [Next]_vars => HomeTypeOK'
  <2> SUFFICES ASSUME HomeTypeOK, [Next]_vars PROVE HomeTypeOK' OBVIOUS
  <2>1. CASE UNCHANGED home BY <2>1, HomeTypeStill
  <2>2. CASE \/ QuickTurn \/ ParityTurn \/ LifeTurn \/ ObserverTurn \/ DiscoverTurn \/ RouterTurn
             \/ DoctorTurn \/ PortTurn
    BY <2>2, TurnsAreTurns, TurnKeepsHomeType
  <2>3. UNCHANGED vars => UNCHANGED home BY DEF vars
  <2>4. QED BY <2>1, <2>2, <2>3, StepsLeaveHome
            DEF Next, Quick, Parity, Life, Observe, Discover, RouteAll, Doctor, Port
<1>3. QED BY <1>1, <1>2, PTL DEF Spec

-----------------------------------------------------------------------------
(* One command of the run.                                                 *)
Commands == {"quick", "parity", "life", "observer", "discover", "router", "doctor", "port"}
StepOf(t) ==
    CASE t = "quick"    -> QuickNext
      [] t = "parity"   -> ParityNext
      [] t = "life"     -> LifeNext
      [] t = "observer" -> ObserverNext
      [] t = "discover" -> ListingNext
      [] t = "router"   -> RouterNext
      [] t = "doctor"   -> DoctorNext
      [] t = "port"     -> PortNext

LEMMA OneCommand ==
    ASSUME HomeTypeOK, Next
    PROVE  tool' = tool /\ tool \in Commands /\ StepOf(tool)
<1>1. CASE Quick
  <2>1. tool = "quick" /\ tool' = tool BY <1>1 DEF Quick, Runs
  <2>2. QuickNext BY <1>1, TurnsAreTurns DEF Quick, QuickNext
  <2>3. QED BY <2>1, <2>2 DEF StepOf, Commands
<1>2. CASE Parity
  <2>1. tool = "parity" /\ tool' = tool BY <1>2 DEF Parity, Runs
  <2>2. ParityNext BY <1>2, TurnsAreTurns DEF Parity, ParityNext
  <2>3. QED BY <2>1, <2>2 DEF StepOf, Commands
<1>3. CASE Life
  <2>1. tool = "life" /\ tool' = tool BY <1>3 DEF Life, Runs
  <2>2. LifeNext BY <1>3, TurnsAreTurns DEF Life, LifeNext
  <2>3. QED BY <2>1, <2>2 DEF StepOf, Commands
<1>4. CASE Observe
  <2>1. tool = "observer" /\ tool' = tool BY <1>4 DEF Observe, Runs
  <2>2. ObserverNext BY <1>4, TurnsAreTurns DEF Observe, ObserverNext
  <2>3. QED BY <2>1, <2>2 DEF StepOf, Commands
<1>5. CASE Discover
  <2>1. tool = "discover" /\ tool' = tool BY <1>5 DEF Discover, Runs
  <2>2. ListingNext BY <1>5, TurnsAreTurns DEF Discover, ListingNext
  <2>3. QED BY <2>1, <2>2 DEF StepOf, Commands
<1>6. CASE RouteAll
  <2>1. tool = "router" /\ tool' = tool BY <1>6 DEF RouteAll, Runs
  <2>2. RouterNext BY <1>6, TurnsAreTurns DEF RouteAll, RouterNext
  <2>3. QED BY <2>1, <2>2 DEF StepOf, Commands
<1>7. CASE Doctor
  <2>1. tool = "doctor" /\ tool' = tool BY <1>7 DEF Doctor, Runs
  <2>2. DoctorNext BY <1>7, TurnsAreTurns DEF Doctor, DoctorNext
  <2>3. QED BY <2>1, <2>2 DEF StepOf, Commands
<1>8. CASE Port
  <2>1. tool = "port" /\ tool' = tool BY <1>8 DEF Port, Runs
  <2>2. PortNext BY <1>8, TurnsAreTurns DEF Port, PortNext
  <2>3. QED BY <2>1, <2>2 DEF StepOf, Commands
<1>9. QED BY <1>1, <1>2, <1>3, <1>4, <1>5, <1>6, <1>7, <1>8 DEF Next

\* What the run does with a command is a behaviour of that command's specification,
\* which lets Codex take any turn: whatever is proved of the eight commands for any
\* home holds of the run that TLC checks.
THEOREM RunsTheCommands ==
    /\ Spec /\ tool = "quick"    => QuickSpec
    /\ Spec /\ tool = "parity"   => ParitySpec
    /\ Spec /\ tool = "life"     => GraphSpec
    /\ Spec /\ tool = "observer" => ObserverSpec
    /\ Spec /\ tool = "discover" => DiscoverySpec
    /\ Spec /\ tool = "router"   => RouterSpec
    /\ Spec /\ tool = "doctor"   => DoctorSpec
    /\ Spec /\ tool = "port"     => PortSpec
<1>1. ASSUME Init
      PROVE  /\ HomeInit /\ pc = "idle" /\ result = "none" /\ QuickInit /\ ParityInit /\ LifeInit
             /\ ObserverInit /\ DiscoveryInit /\ RouterInit /\ DoctorInit /\ PortInit
  BY <1>1 DEF Init
<1>2. ASSUME HomeTypeOK, [Next]_vars
      PROVE  tool' = tool /\ (StepOf(tool) \/ UNCHANGED vars)
  BY <1>2, OneCommand DEF vars
<1>3. ASSUME UNCHANGED vars
      PROVE  /\ UNCHANGED <<quickAll, parityAll, lifeAll, observerAll>>
             /\ UNCHANGED <<listingAll, routerAll, doctorAll, portAll>>
  BY <1>3 DEF vars, quickAll, parityAll, lifeAll, observerAll, listingAll, routerAll, doctorAll,
     portAll
<1>4. Spec /\ tool = "quick" => QuickSpec
  <2>1. HomeTypeOK /\ tool = "quick" /\ [Next]_vars => (tool = "quick")' /\ [QuickNext]_quickAll
    BY <1>2, <1>3 DEF StepOf
  <2>2. Init => HomeInit /\ pc = "idle" /\ result = "none" /\ QuickInit BY <1>1
  <2>3. QED BY <2>1, <2>2, HomeTyped, PTL DEF Spec, QuickSpec, QuickNext, quickAll
<1>5. Spec /\ tool = "parity" => ParitySpec
  <2>1. HomeTypeOK /\ tool = "parity" /\ [Next]_vars => (tool = "parity")' /\ [ParityNext]_parityAll
    BY <1>2, <1>3 DEF StepOf
  <2>2. Init => HomeInit /\ pc = "idle" /\ result = "none" /\ ParityInit BY <1>1
  <2>3. QED BY <2>1, <2>2, HomeTyped, PTL DEF Spec, ParitySpec, ParityNext, parityAll
<1>6. Spec /\ tool = "life" => GraphSpec
  <2>1. HomeTypeOK /\ tool = "life" /\ [Next]_vars => (tool = "life")' /\ [LifeNext]_lifeAll
    BY <1>2, <1>3 DEF StepOf
  <2>2. Init => HomeInit /\ pc = "idle" /\ result = "none" /\ LifeInit BY <1>1
  <2>3. QED BY <2>1, <2>2, HomeTyped, PTL DEF Spec, GraphSpec, LifeNext, lifeAll
<1>7. Spec /\ tool = "observer" => ObserverSpec
  <2>1. HomeTypeOK /\ tool = "observer" /\ [Next]_vars
        => (tool = "observer")' /\ [ObserverNext]_observerAll
    BY <1>2, <1>3 DEF StepOf
  <2>2. Init => HomeInit /\ pc = "idle" /\ result = "none" /\ ObserverInit BY <1>1
  <2>3. QED BY <2>1, <2>2, HomeTyped, PTL DEF Spec, ObserverSpec, ObserverNext, observerAll
<1>8. Spec /\ tool = "discover" => DiscoverySpec
  <2>1. HomeTypeOK /\ tool = "discover" /\ [Next]_vars
        => (tool = "discover")' /\ [ListingNext]_listingAll
    BY <1>2, <1>3 DEF StepOf
  <2>2. Init => HomeInit /\ pc = "idle" /\ result = "none" /\ DiscoveryInit BY <1>1
  <2>3. QED BY <2>1, <2>2, HomeTyped, PTL DEF Spec, DiscoverySpec, ListingNext, listingAll
<1>9. Spec /\ tool = "router" => RouterSpec
  <2>1. HomeTypeOK /\ tool = "router" /\ [Next]_vars => (tool = "router")' /\ [RouterNext]_routerAll
    BY <1>2, <1>3 DEF StepOf
  <2>2. Init => HomeInit /\ pc = "idle" /\ result = "none" /\ RouterInit BY <1>1
  <2>3. QED BY <2>1, <2>2, HomeTyped, PTL DEF Spec, RouterSpec, RouterNext, routerAll
<1>10. Spec /\ tool = "doctor" => DoctorSpec
  <2>1. HomeTypeOK /\ tool = "doctor" /\ [Next]_vars => (tool = "doctor")' /\ [DoctorNext]_doctorAll
    BY <1>2, <1>3 DEF StepOf
  <2>2. Init => HomeInit /\ pc = "idle" /\ result = "none" /\ DoctorInit BY <1>1
  <2>3. QED BY <2>1, <2>2, HomeTyped, PTL DEF Spec, DoctorSpec, DoctorNext, doctorAll
<1>11. Spec /\ tool = "port" => PortSpec
  <2>1. HomeTypeOK /\ tool = "port" /\ [Next]_vars => (tool = "port")' /\ [PortNext]_portAll
    BY <1>2, <1>3 DEF StepOf
  <2>2. Init => HomeInit /\ pc = "idle" /\ result = "none" /\ PortInit BY <1>1
  <2>3. QED BY <2>1, <2>2, HomeTyped, PTL DEF Spec, PortSpec, PortNext, portAll
<1>12. QED BY <1>4, <1>5, <1>6, <1>7, <1>8, <1>9, <1>10, <1>11

-----------------------------------------------------------------------------
(* The types of each command's own variables.                              *)
LEMMA SizeTyped ==
    ASSUME HomeTypeOK, NEW s \in Sessions
    PROVE  Size(s) \in Nat /\ Stat(s) \in Stats /\ log[s] \in Seq(Records) /\ torn[s] \in BOOLEAN
<1>1. log[s] \in Seq(Records) /\ torn[s] \in BOOLEAN /\ mtime[s] \in 0..Turns BY DEF HomeTypeOK
<1>2. Len(log[s]) \in Nat BY <1>1
<1>3. Size(s) \in Nat BY SizesAreNats DEF HomeTypeOK, HomeShape
<1>4. QED BY <1>1, <1>3 DEF Stat, Stats

LEMMA QuickStepTyped ==
    ASSUME HomeTypeOK, QuickTypeOK, QuickInv, QuickStep
    PROVE  QuickTypeOK'
<1> USE DEF QuickTypeOK
<1>1. CASE \E s \in Sessions : QuickStart(s)
  <2> PICK s \in Sessions : QuickStart(s) BY <1>1
  <2>1. quick' = [session |-> s, size |-> 0, header |-> FALSE, end |-> 0] /\ seen' = <<>>
    BY DEF QuickStart, NoQuick
  <2>2. QED BY <2>1
<1>2. CASE QuickSize
  <2>1. quick.session \in Sessions BY <1>2 DEF QuickSize, QuickInv, Scanning
  <2>2. Size(quick.session) \in Nat BY <2>1, SizeTyped
  <2>3. QED BY <1>2, <2>2 DEF QuickSize
<1>3. CASE QuickHead
  <2>1. /\ quick' = [session |-> quick.session, size |-> quick.size, header |-> HeadLimit >= 2,
                     end |-> quick.end]
        /\ seen' = seen
    BY <1>3 DEF QuickHead
  <2>2. PICK long : long = (HeadLimit >= 2) OBVIOUS
  <2>3. long \in BOOLEAN BY <2>2
  <2>4. quick' = [session |-> quick.session, size |-> quick.size, header |-> long,
                  end |-> quick.end]
    BY <2>1, <2>2, Zenon
  <2>5. QED BY <2>1, <2>3, <2>4
<1>4. CASE QuickTail
  <2>1. quick.session \in Sessions BY <1>4 DEF QuickTail, QuickInv, Scanning, Sizing
  <2>2. Size(quick.session) \in Nat /\ log[quick.session] \in Seq(Records) BY <2>1, SizeTyped
  <2>3. TailLimit \in Nat BY WindowAssumption
  <2>4. Least(Offset + TailLimit, Size(quick.session)) \in Nat
    BY <2>2, <2>3 DEF Least, Offset, Monus
  <2>5. QED BY <1>4, <2>2, <2>4 DEF QuickTail
<1>5. CASE QuickVerdict BY <1>5 DEF QuickVerdict, quickVars
<1>6. QED BY <1>1, <1>2, <1>3, <1>4, <1>5 DEF QuickStep

LEMMA QuickTyped == QuickSpec => []QuickTypeOK
<1>1. QuickBegin => HomeTypeOK /\ QuickTypeOK
  BY HomeTypedInitially DEF QuickBegin, QuickInit, QuickTypeOK, NoQuick
<1>2. /\ HomeTypeOK /\ QuickTypeOK /\ QuickInv
      /\ [QuickNext]_quickAll
      => HomeTypeOK' /\ QuickTypeOK'
  <2> SUFFICES ASSUME HomeTypeOK, QuickTypeOK, QuickInv, [QuickNext]_quickAll
               PROVE  HomeTypeOK' /\ QuickTypeOK'
    OBVIOUS
  <2>1. CASE QuickStep BY <2>1, QuickStepTyped, StepsLeaveHome, HomeTypeStill
  <2>2. CASE HomeTurn /\ UNCHANGED quickVars
    BY <2>2, TurnKeepsHomeType DEF quickVars, QuickTypeOK
  <2>3. CASE UNCHANGED quickAll
    BY <2>3, HomeTypeStill DEF quickAll, quickVars, QuickTypeOK
  <2>4. QED BY <2>1, <2>2, <2>3 DEF QuickNext
<1>3. QED BY <1>1, <1>2, QuickInitially, QuickKept, PTL
          DEF QuickSpec, QuickBegin, QuickNext, quickAll

-----------------------------------------------------------------------------
LEMMA OrdinalTyped ==
    ASSUME HomeTypeOK, NEW s \in Sessions
    PROVE  /\ \A offset \in Nat : \A n \in {1, 2} : OrdinalAt(s, offset, n) \in Nat \cup {NoOrdinal}
           /\ LastOrdinal(s) \in Nat \cup {NoOrdinal}
<1>1. log[s] \in Seq(Records) BY SizeTyped
<1>2. ASSUME NEW i \in Nat \ {0}, i <= Len(log[s]) PROVE log[s][i].ordinal \in Nat
  <2>1. log[s][i] \in Records BY <1>1, <1>2
  <2>2. QED BY <2>1 DEF Records
<1>3. ASSUME NEW offset \in Nat, NEW n \in {1, 2}
      PROVE  OrdinalAt(s, offset, n) \in Nat \cup {NoOrdinal}
  <2>1. offset \div 2 + n \in Nat \ {0} BY <1>3
  <2> HIDE DEF NoOrdinal
  <2>2. QED BY <1>2, <2>1 DEF OrdinalAt
<1>4. 2 * (Len(log[s]) - 1) \in Nat
  <2>1. Len(log[s]) \in 1..Lines BY DEF HomeTypeOK
  <2>2. QED BY <2>1, HomeAssumption
<1>5. QED BY <1>3, <1>4 DEF LastOrdinal

LEMMA ParityStepTyped ==
    ASSUME HomeTypeOK, ParityTypeOK, ParityInv, ParityStep
    PROVE  ParityTypeOK'
<1> USE DEF ParityTypeOK
<1>1. Checking => parity.session \in Sessions BY DEF ParityInv
<1>2. Comparing \/ Closing => Row \in Cursors
  BY DEF ParityInv, Row
<1>3. CASE \E s \in Sessions : ParityStart(s)
  <2> PICK s \in Sessions : ParityStart(s) BY <1>3
  <2>1. Size(s) \in Nat /\ Len(log[s]) \in Nat /\ torn[s] \in BOOLEAN
        /\ Stores \in Seq(Range(Stores))
    BY SizeTyped, StoresAreStores
  <2>2. NoStat \in Stats BY HomeAssumption DEF NoStat, Stats
  <2>3. /\ parity' = [session |-> s, size |-> Size(s), todo |-> Stores, rows |-> {},
                      errors |-> FALSE, before |-> NoStat, first |-> NoOrdinal,
                      second |-> NoOrdinal]
        /\ sized' = [lines |-> Len(log[s]), torn |-> torn[s]] /\ at' = <<>>
    BY DEF ParityStart, NoParity
  <2> HIDE DEF NoOrdinal
  <2>4. parity' \in [session : Sessions \cup {"none"}, size : Nat, todo : Seq(Range(Stores)),
                    rows : SUBSET Cursors, errors : BOOLEAN, before : Stats,
                    first : Nat \cup {NoOrdinal}, second : Nat \cup {NoOrdinal}]
    BY <2>1, <2>2, <2>3
  <2>5. sized' \in [lines : Nat, torn : BOOLEAN]
    <3>1. PICK n \in Nat, half \in BOOLEAN : n = Len(log[s]) /\ half = torn[s] BY <2>1
    <3>2. sized' = [lines |-> n, torn |-> half] BY <2>3, <3>1, Zenon
    <3>3. QED BY <3>2
  <2>6. QED BY <2>3, <2>4, <2>5
<1>4. CASE ParityRows
  <2> DEFINE c == cursor[parity.session][Head(parity.todo)]
  <2>1. parity.session \in Sessions /\ parity.todo \in Seq(Range(Stores)) /\ parity.todo # <<>>
    BY <1>1, <1>4 DEF ParityRows, Checking
  <2>2. Head(parity.todo) \in Range(Stores) /\ Tail(parity.todo) \in Seq(Range(Stores)) BY <2>1
  <2>3. c \in Cursors BY <2>1, <2>2 DEF HomeTypeOK
  <2>4. PICK errors \in BOOLEAN : errors = (parity.errors \/ ~readable) OBVIOUS
  <2> DEFINE rows == parity.rows \cup (IF readable /\ c.present THEN {c} ELSE {})
  <2>5. rows \in SUBSET Cursors BY <2>3
  <2>6. /\ parity' = [parity EXCEPT !.todo = Tail(parity.todo), !.rows = rows, !.errors = errors]
        /\ sized' = sized /\ at' = at
    BY <1>4, <2>4, Zenon DEF ParityRows
  <2> HIDE DEF rows, c
  <2>7. QED BY <2>2, <2>4, <2>5, <2>6
<1>5. CASE ParityCompare \/ SuffixVerdict \/ ExactVerdict
  BY <1>5 DEF ParityCompare, SuffixVerdict, ExactVerdict, parityVars
<1>6. CASE ParityStat("suffixStat", "suffixRead") \/ ParityStat("exactStat", "exactRead")
  <2>1. parity.session \in Sessions BY <1>1, <1>6 DEF ParityStat, Checking, Comparing, Closing
  <2>2. Stat(parity.session) \in Stats BY <2>1, SizeTyped
  <2>3. QED BY <1>6, <2>2 DEF ParityStat
<1>7. CASE SuffixRead
  <2>1. parity.session \in Sessions /\ Row \in Cursors
    BY <1>1, <1>2, <1>7 DEF SuffixRead, Checking, Comparing
  <2>2. Row.offset \in Nat BY <2>1 DEF Cursors
  <2> DEFINE s == parity.session
             first == OrdinalAt(s, Row.offset, 1)
             second == IF first + 1 = Row.ordinal THEN OrdinalAt(s, Row.offset, 2) ELSE NoOrdinal
  <2>3. /\ first \in Nat \cup {NoOrdinal} /\ OrdinalAt(s, Row.offset, 2) \in Nat \cup {NoOrdinal}
        /\ log[s] \in Seq(Records)
    BY <2>1, <2>2, OrdinalTyped, SizeTyped
  <2>4. second \in Nat \cup {NoOrdinal} BY <2>3
  <2>5. /\ parity' = [parity EXCEPT !.first = first, !.second = second]
        /\ at' = log[s] /\ sized' = sized
    BY <1>7 DEF SuffixRead
  <2> HIDE DEF first, second
  <2>6. QED BY <2>3, <2>4, <2>5
<1>8. CASE ExactRead
  <2>1. parity.session \in Sessions BY <1>1, <1>8 DEF ExactRead, Checking, Closing
  <2>2. LastOrdinal(parity.session) \in Nat \cup {NoOrdinal} /\ log[parity.session] \in Seq(Records)
    BY <2>1, OrdinalTyped, SizeTyped
  <2>3. QED BY <1>8, <2>2 DEF ExactRead
<1>9. QED BY <1>3, <1>4, <1>5, <1>6, <1>7, <1>8 DEF ParityStep

LEMMA ParityTyped == ParitySpec => []ParityTypeOK
<1>1. ParityBegin => HomeTypeOK /\ ParityTypeOK
  BY HomeTypedInitially, HomeAssumption
     DEF ParityBegin, ParityInit, ParityTypeOK, NoParity, NoStat, Stats
<1>2. /\ HomeTypeOK /\ ParityTypeOK /\ ParityInv
      /\ [ParityNext]_parityAll
      => HomeTypeOK' /\ ParityTypeOK'
  <2> SUFFICES ASSUME HomeTypeOK, ParityTypeOK, ParityInv, [ParityNext]_parityAll
               PROVE  HomeTypeOK' /\ ParityTypeOK'
    OBVIOUS
  <2>1. CASE ParityStep BY <2>1, ParityStepTyped, StepsLeaveHome, HomeTypeStill
  <2>2. CASE HomeTurn /\ UNCHANGED parityVars
    BY <2>2, TurnKeepsHomeType DEF parityVars, ParityTypeOK
  <2>3. CASE UNCHANGED parityAll
    BY <2>3, HomeTypeStill DEF parityAll, parityVars, ParityTypeOK
  <2>4. QED BY <2>1, <2>2, <2>3 DEF ParityNext
<1>3. QED BY <1>1, <1>2, ParityInitially, ParityKept, PTL
          DEF ParitySpec, ParityBegin, ParityNext, parityAll

-----------------------------------------------------------------------------
\* The graph's own invariant has its types, but for the depth of what is still to
\* be looked for.
LEMMA LifeTypes == GraphSpec => []LifeTypeOK
<1>1. LifeInv => LifeTypeOK
  <2> SUFFICES ASSUME LifeTyped PROVE LifeTypeOK BY DEF LifeInv
  <2>1. 0..MaxDepth \subseteq Nat BY LifecycleAssumption
  <2> DEFINE Asked == [session : Sessions, parent : Ids, depth : Nat, folder : Places]
  <2>2. Todos \subseteq Asked BY <2>1 DEF Todos
  <2> HIDE DEF Asked
  <2>3. todo \in Seq(Asked) BY <2>2 DEF LifeTyped
  <2>4. QED BY <2>3 DEF LifeTyped, LifeTypeOK, Asked
<1>2. QED BY <1>1, LifeInitially, LifeKept, PTL DEF GraphSpec, LifeStart, LifeNext, lifeAll

-----------------------------------------------------------------------------
LEMMA WhereTyped ==
    ASSUME HomeTypeOK, NEW s \in Sessions
    PROVE  Where(s) \in [place : Places, size : Nat]
<1>1. place[s] \in Places BY DEF HomeTypeOK
<1>2. QED BY <1>1, SizeTyped DEF Where

LEMMA PathsTyped ==
    ASSUME NEW files, \A f \in files : f \in Snapshots
    PROVE  PathsOf(files) \subseteq Paths
BY DEF PathsOf, Snapshots

LEMMA NoDbTyped == NoDb \in DbStates
<1>1. NoCursor \in Cursors BY DEF NoCursor, Cursors
<1>2. "absent" \in Rows BY DEF Rows
<1>3. QED BY <1>1, <1>2 DEF NoDb, DbStates

Sweeps == [todo : Seq(Paths), size : Nat, created : SUBSET Paths, deleted : SUBSET Paths,
           at : 1..(Len(Stores) + 1)]

LEMMA NoSweepTyped == NoSweep \in Sweeps
<1>1. <<>> \in Seq(Paths) /\ 1 \in 1..(Len(Stores) + 1) BY StoresInRange
<1>2. QED BY <1>1 DEF NoSweep, Sweeps

LEMMA PollEndsTyped ==
    ASSUME PollEnds
    PROVE  /\ sweep' \in Sweeps /\ found' = {} /\ db' \in DbStates /\ unarchived' = {}
           /\ \A s \in Sessions : been'[s] \subseteq [place : Places, size : Nat]
BY NoSweepTyped, NoDbTyped DEF PollEnds

LEMMA CountTyped ==
    ASSUME db \in DbStates, sweep.at \in 1..Len(Stores), NEW table \in {"threads", "cursors"},
           NEW here, NEW next, CountRows(here, table, next)
    PROVE  db' \in DbStates
<1> DEFINE t == <<Store, table>>
           n == Cardinality(Counted(table))
<1>1. t \in Tables BY StoresInRange DEF Store, Tables
<1>2. n \in Nat
  <2>1. IsFiniteSet(Counted(table)) BY HomeAssumption, FS_Subset DEF Counted
  <2>2. QED BY <2>1, FS_CardinalityType
<1>3. db' = [db EXCEPT !.read = db.read \cup {t}, !.counts[t] = n] BY DEF CountRows
<1> HIDE DEF t, n
<1>4. db.read \in SUBSET Tables /\ db.counts \in [Tables -> Nat] BY DEF DbStates
<1>5. db.read \cup {t} \in SUBSET Tables /\ [db.counts EXCEPT ![t] = n] \in [Tables -> Nat]
  BY <1>1, <1>2, <1>4
<1>6. db' = [db EXCEPT !.read = db.read \cup {t}, !.counts = [db.counts EXCEPT ![t] = n]]
  BY <1>3 DEF DbStates
<1>7. QED BY <1>5, <1>6 DEF DbStates

LEMMA CursorsTyped ==
    ASSUME HomeTypeOK, db \in DbStates, sweep.at \in 1..Len(Stores), ReadCursors
    PROVE  db' \in DbStates
<1> DEFINE read == [s \in Sessions |->
                      IF cursor[s][Store].present THEN cursor[s][Store] ELSE db.cursors[s]]
<1>1. Store \in Range(Stores) BY StoresInRange DEF Store
<1>2. read \in [Sessions -> Cursors] BY <1>1 DEF HomeTypeOK, DbStates
<1>3. db' = [db EXCEPT !.cursors = read] BY DEF ReadCursors
<1> HIDE DEF read
<1>4. QED BY <1>2, <1>3 DEF DbStates

LEMMA ObserverStepTyped ==
    ASSUME HomeTypeOK, ObserverTypeOK, SweepInv, AtIsStore, ObserverStep
    PROVE  ObserverTypeOK'
<1> USE DEF ObserverTypeOK
<1>1. /\ sweep \in Sweeps /\ trouble \subseteq {"moved", "skipped", "gone"}
      /\ Len(Stores) \in Nat
  BY StoresInRange DEF Sweeps
<1>2. CASE PollStart
  <2>1. sweep' = [NoSweep EXCEPT !.todo = Sweep] BY <1>2 DEF PollStart
  <2>2. Sweep \in Seq(Paths) BY SweepCovers
  <2>3. sweep' \in Sweeps BY <2>1, <2>2, NoSweepTyped DEF Sweeps
  <2>4. polls' \in 0..Polls BY <1>2, PollAssumption DEF PollStart
  <2>5. \A s \in Sessions : been'[s] \subseteq [place : Places, size : Nat]
    BY <1>2, WhereTyped DEF PollStart
  <2>6. UNCHANGED <<found, db, fsBase, dbBase, recorded, reported, unarchived, trouble>>
    BY <1>2 DEF PollStart, pollVars
  <2>7. QED BY <2>3, <2>4, <2>5, <2>6 DEF Sweeps
<1>3. CASE WalkFails
  <2>1. PollEnds /\ UNCHANGED <<polls, fsBase, dbBase, recorded, reported, trouble>>
    BY <1>3 DEF WalkFails, pollVars
  <2>2. QED BY <2>1, PollEndsTyped DEF Sweeps
<1>4. CASE SweepStat
  <2>1. sweep.todo \in Seq(Paths) /\ sweep.todo # <<>> BY <1>4 DEF SweepStat
  <2>2. Head(sweep.todo) \in Paths /\ Tail(sweep.todo) \in Seq(Paths) BY <2>1
  <2>3. Size(Head(sweep.todo).session) \in Nat BY <2>2, SizeTyped DEF Paths
  <2>4. \/ sweep' = [sweep EXCEPT !.size = Size(Head(sweep.todo).session)]
        \/ sweep' = [sweep EXCEPT !.todo = Tail(sweep.todo)]
    BY <1>4 DEF SweepStat
  <2>5. sweep' \in Sweeps BY <1>1, <2>2, <2>3, <2>4 DEF Sweeps
  <2>6. QED BY <1>4, <2>5 DEF SweepStat, pollVars, watchVars, Sweeps
<1>5. CASE SweepHash
  <2>1. sweep.todo \in Seq(Paths) /\ sweep.todo # <<>> BY <1>5 DEF SweepHash, SweepInv
  <2>2. Head(sweep.todo) \in Paths /\ Tail(sweep.todo) \in Seq(Paths) BY <2>1
  <2>3. Size(Head(sweep.todo).session) \in Nat /\ sweep.size \in Nat
    BY <2>2, SizeTyped DEF Paths
  <2>4. \A f \in Hashed(Head(sweep.todo)) : f \in Snapshots BY <2>2, <2>3 DEF Hashed, Snapshots
  <2>5. sweep' = [sweep EXCEPT !.todo = Tail(sweep.todo)] BY <1>5 DEF SweepHash
  <2>6. sweep' \in Sweeps BY <1>1, <2>2, <2>5 DEF Sweeps
  <2>7. QED BY <1>5, <2>4, <2>6 DEF SweepHash, pollVars, watchVars, Sweeps
<1>6. CASE SweepEnd
  <2> DEFINE created == PathsOf(found) \ PathsOf(fsBase)
             deleted == PathsOf(fsBase) \ PathsOf(found)
  <2>1. PathsOf(found) \subseteq Paths /\ PathsOf(fsBase) \subseteq Paths BY PathsTyped
  <2>2. created \in SUBSET Paths /\ deleted \in SUBSET Paths BY <2>1
  <2>3. /\ sweep' = [NoSweep EXCEPT !.created = created, !.deleted = deleted]
        /\ recorded' = (recorded \cup created) \ deleted /\ fsBase' = found
        /\ UNCHANGED <<found, db, dbBase, polls, reported, been, unarchived, trouble>>
    BY <1>6 DEF SweepEnd, watchVars
  <2> HIDE DEF created, deleted
  <2>4. sweep' \in Sweeps BY <2>2, <2>3, NoSweepTyped DEF Sweeps
  <2>5. QED BY <2>2, <2>3, <2>4 DEF Sweeps
<1>7. CASE OpenStore
  <2>1. UNCHANGED <<polls, fsBase, dbBase, recorded, reported>> BY <1>7 DEF OpenStore, pollVars
  <2>2. CASE UNCHANGED <<sweep, found, db, watchVars>> BY <2>1, <2>2 DEF watchVars
  <2>3. CASE PollEnds /\ trouble' = trouble \cup {"gone"}
    BY <1>1, <2>1, <2>3, PollEndsTyped DEF Sweeps
  <2>4. QED BY <1>7, <2>2, <2>3 DEF OpenStore
\* The next database, or past the last one.
<1>8. ASSUME sweep' = [sweep EXCEPT !.at = sweep.at + 1], sweep.at \in 1..Len(Stores)
      PROVE  sweep' \in Sweeps
  <2>1. sweep.at + 1 \in 1..(Len(Stores) + 1) BY <1>1, <1>8
  <2>2. QED BY <1>1, <1>8, <2>1 DEF Sweeps
<1>9. CASE PassOver
  <2>1. sweep.at \in 1..Len(Stores) BY <1>1, <1>9 DEF PassOver, Sweeps
  <2>2. sweep' = [sweep EXCEPT !.at = sweep.at + 1] BY <1>9 DEF PassOver
  <2>3. sweep' \in Sweeps BY <1>8, <2>1, <2>2
  <2>4. /\ trouble' = trouble \cup {"skipped"}
        /\ UNCHANGED <<found, db, polls, fsBase, dbBase, recorded, reported, been, unarchived>>
    BY <1>9 DEF PassOver, pollVars
  <2>5. QED BY <1>1, <2>3, <2>4 DEF Sweeps
<1>10. CASE \/ CountRows("pollCount", "threads", "pollRows")
            \/ CountRows("pollCountCursors", "cursors", "pollCursors")
  <2>1. sweep.at \in 1..Len(Stores) BY <1>10 DEF CountRows, AtIsStore, AtAStore
  <2>2. db' \in DbStates BY <1>10, <2>1, CountTyped
  <2>3. UNCHANGED <<sweep, found, polls, pollVars, watchVars>> BY <1>10 DEF CountRows
  <2>4. QED BY <2>2, <2>3 DEF pollVars, watchVars
<1>11. CASE ReadThreads
  <2>1. row \in [Sessions -> Rows] BY DEF HomeTypeOK
  <2>2. db' = [db EXCEPT !.rows = row] BY <1>11 DEF ReadThreads
  <2>3. db' \in DbStates BY <2>1, <2>2 DEF DbStates
  <2>4. QED BY <1>11, <2>3 DEF ReadThreads, pollVars, watchVars
<1>12. CASE ReadCursors
  <2>1. sweep.at \in 1..Len(Stores) BY <1>12 DEF ReadCursors, AtIsStore, AtAStore
  <2>2. db' \in DbStates BY <1>12, <2>1, CursorsTyped
  <2>3. sweep' = [sweep EXCEPT !.at = sweep.at + 1] BY <1>12 DEF ReadCursors
  <2>4. sweep' \in Sweeps BY <1>8, <2>1, <2>3
  <2>5. UNCHANGED <<found, polls, fsBase, dbBase, recorded, reported, been, unarchived, trouble>>
    BY <1>12 DEF ReadCursors, pollVars, watchVars
  <2>6. QED BY <2>2, <2>4, <2>5 DEF Sweeps
<1>13. CASE PollCompare
  <2>1. /\ PollEnds /\ dbBase' \in {db, dbBase}
        /\ reported' \subseteq reported \cup sweep.created
        /\ UNCHANGED <<polls, fsBase, recorded, trouble>>
    BY <1>13 DEF PollCompare
  <2>2. QED BY <1>1, <2>1, PollEndsTyped DEF Sweeps
<1>14. QED
  BY <1>2, <1>3, <1>4, <1>5, <1>6, <1>7, <1>9, <1>10, <1>11, <1>12, <1>13 DEF ObserverStep

LEMMA ObserverBlank == ObserverInit => ObserverTypeOK
<1> SUFFICES ASSUME ObserverInit PROVE ObserverTypeOK OBVIOUS
<1>1. sweep \in Sweeps BY NoSweepTyped DEF ObserverInit
<1>2. polls \in 0..Polls BY PollAssumption DEF ObserverInit
<1>3. db \in DbStates /\ dbBase \in DbStates BY NoDbTyped DEF ObserverInit
<1>4. \A s \in Sessions : been[s] = {} BY DEF ObserverInit
<1>5. /\ found = {} /\ fsBase = {} /\ recorded = {} /\ reported = {} /\ unarchived = {}
      /\ trouble = {}
  BY DEF ObserverInit
<1>6. QED BY <1>1, <1>2, <1>3, <1>4, <1>5 DEF ObserverTypeOK, Sweeps

LEMMA ObserverTyped == ObserverSpec => []ObserverTypeOK
<1>1. ObserverStart => HomeTypeOK /\ ObserverTypeOK
  <2> SUFFICES ASSUME ObserverStart PROVE HomeTypeOK /\ ObserverTypeOK OBVIOUS
  <2>1. QED BY HomeTypedInitially, ObserverBlank DEF ObserverStart
<1>2. /\ HomeTypeOK /\ ObserverTypeOK /\ SweepInv /\ AtIsStore
      /\ [ObserverNext]_observerAll
      => HomeTypeOK' /\ ObserverTypeOK'
  <2> SUFFICES ASSUME HomeTypeOK, ObserverTypeOK, SweepInv, AtIsStore,
                      [ObserverNext]_observerAll
               PROVE  HomeTypeOK' /\ ObserverTypeOK'
    OBVIOUS
  <2>1. CASE ObserverStep BY <2>1, ObserverStepTyped, StepsLeaveHome, HomeTypeStill
  <2>2. CASE HomeTurn /\ ObserverWatch
    <3>1. HomeTypeOK' BY <2>2, TurnKeepsHomeType
    <3>2. \A s \in Sessions : Where(s)' \in [place : Places, size : Nat]
      <4>1. \A s \in Sessions : place'[s] \in Places BY <3>1 DEF HomeTypeOK
      <4>2. \A s \in Sessions : Size(s)' \in Nat
        BY <3>1 DEF HomeTypeOK, Size
      <4>3. QED BY <4>1, <4>2 DEF Where
    <3>3. \A s \in Sessions : been'[s] \subseteq [place : Places, size : Nat]
      BY <2>2, <3>2 DEF ObserverWatch, ObserverTypeOK
    <3>4. unarchived' \subseteq Sessions BY <2>2 DEF ObserverWatch, ObserverTypeOK
    <3>5. trouble' \subseteq {"moved", "skipped", "gone"}
      BY <2>2 DEF ObserverWatch, ObserverTypeOK
    <3>6. QED BY <2>2, <3>1, <3>3, <3>4, <3>5 DEF ObserverWatch, ObserverTypeOK, pollVars
  <2>3. CASE UNCHANGED observerAll
    BY <2>3, HomeTypeStill DEF observerAll, observerVars, pollVars, watchVars, ObserverTypeOK
  <2>4. QED BY <2>1, <2>2, <2>3 DEF ObserverNext
<1>3. LostInv => AtIsStore BY DEF LostInv
<1>4. QED BY <1>1, <1>2, <1>3, SweepInitially, SweepKept, LostInitially, LostKept, PTL
          DEF ObserverSpec, ObserverStart, ObserverNext, observerAll

-----------------------------------------------------------------------------
LEMMA ContentTyped ==
    ASSUME HomeTypeOK, NEW s \in Sessions
    PROVE  Content(s) \in Contents
<1>1. PICK half \in BOOLEAN : half = torn[s] BY SizeTyped
<1>2. Content(s) = [lines |-> log[s], torn |-> half] BY <1>1, Zenon DEF Content
<1>3. QED BY <1>2, SizeTyped DEF Contents

LEMMA NothingTyped ==
    /\ NoContent \in Contents /\ [lines |-> <<>>, torn |-> TRUE] \in Contents
    /\ NoManifest \in Manifests /\ NoPackage \in [manifest : Manifests, payload : Contents]
<1>1. <<>> \in Seq(Records) OBVIOUS
<1>2. NoContent \in Contents /\ [lines |-> <<>>, torn |-> TRUE] \in Contents
  BY <1>1 DEF NoContent, Contents
<1>3. NoManifest \in Manifests BY <1>2 DEF NoManifest, Manifests, Statuses
<1>4. QED BY <1>2, <1>3 DEF NoPackage

\* While an export is under way it is that of a session.
ExportOf == pc \in {"exportHash", "exportPack"} => export.session \in Sessions

LEMMA ManifestTyped ==
    ASSUME NEW m \in Manifests
    PROVE  Classified(m) \in Manifests
<1> DEFINE known == MigrationSafe(m.status)
                    /\ ResolveThread(m.session, FALSE) \notin
                          {NoThread, [NoThread EXCEPT !.conflict = TRUE]}
<1>1. Classified(m) = [m EXCEPT !.safe = known] BY DEF Classified
<1> HIDE DEF known
<1>2. PICK safe \in BOOLEAN : safe <=> known
  <2>1. CASE known BY <2>1
  <2>2. CASE ~known BY <2>2
  <2>3. QED BY <2>1, <2>2
<1>3. known \in BOOLEAN BY DEF known
<1>4. QED BY <1>1, <1>3 DEF Manifests

LEMMA PortStepTyped ==
    ASSUME HomeTypeOK, PortTypeOK, PortInv, ExportOf, PortStep
    PROVE  PortTypeOK' /\ ExportOf'
<1> USE DEF PortTypeOK, ExportOf
<1>1. ASSUME NEW s \in Sessions, ExportScan(s) PROVE PortTypeOK' /\ ExportOf'
  <2>1. Content(s) \in Contents BY ContentTyped
  <2>2. ScanStatus(Content(s)) \in Statuses BY DEF ScanStatus, Statuses
  <2>3. export' = [session |-> s, status |-> ScanStatus(Content(s)), hash |-> NoContent,
                   safe |-> FALSE]
    BY <1>1 DEF ExportScan, NoManifest
  <2>4. export' \in Manifests BY <2>2, <2>3, NothingTyped DEF Manifests
  <2>5. exports' \in 0..Exports BY <1>1, ExportAssumption DEF ExportScan
  <2>6. QED BY <1>1, <2>1, <2>3, <2>4, <2>5 DEF ExportScan
<1>2. CASE ExportHash
  <2>1. export.session \in Sessions BY <1>2 DEF ExportHash
  <2>2. Content(export.session) \in Contents BY <2>1, ContentTyped
  <2>3. [export EXCEPT !.hash = Content(export.session)] \in Manifests BY <2>2 DEF Manifests
  <2>4. Classified([export EXCEPT !.hash = Content(export.session)]) \in Manifests
    BY <2>3, ManifestTyped
  <2>5. export' \in Manifests /\ drifted' \subseteq Contents
    BY <1>2, <2>2, <2>4 DEF ExportHash
  <2>6. pc' = "exportPack" => export'.session = export.session
    BY <1>2, <2>3 DEF ExportHash, Gone, Answer, Classified, Manifests
  <2>7. pc' # "exportHash" BY <1>2 DEF ExportHash, Goto, Gone, Answer
  <2>8. QED BY <1>2, <2>1, <2>5, <2>6, <2>7 DEF ExportHash
<1>3. CASE ExportPack
  <2>1. export.session \in Sessions BY <1>3 DEF ExportPack
  <2>2. Content(export.session) \in Contents BY <2>1, ContentTyped
  <2>3. package' \in [manifest : Manifests, payload : Contents]
    BY <1>3, <2>2, NothingTyped DEF ExportPack
  <2>4. export' \in Manifests /\ pc' = "idle" BY <1>3, NothingTyped DEF ExportPack, Gone, Answer
  <2>5. QED BY <1>3, <2>3, <2>4 DEF ExportPack
<1>4. CASE \E dry \in BOOLEAN : PlanImport(dry)
  <2>1. plan' \in BOOLEAN /\ given' \in BOOLEAN BY <1>4 DEF PlanImport
  <2>2. pc' \in {"importRefused", "importDry", "importRead"} BY <1>4 DEF PlanImport
  <2>3. QED BY <1>4, <2>1, <2>2 DEF PlanImport
<1>5. CASE ImportAsPlanned \/ ImportRefused
  BY <1>5 DEF ImportAsPlanned, ImportRefused, portVars, Answer
<1>6. CASE ImportRead
  <2>1. manifest' \in Manifests /\ pc' \in {"importCopy", "idle"}
    BY <1>6 DEF ImportRead, Goto, Answer
  <2>2. QED BY <1>6, <2>1 DEF ImportRead
<1>7. CASE ImportCopy
  <2>1. staged' \in Contents /\ pc' \in {"importVerify", "idle"}
    BY <1>7, NothingTyped DEF ImportCopy, Goto, Answer
  <2>2. QED BY <1>7, <2>1 DEF ImportCopy
<1>8. CASE \E stageOnly \in BOOLEAN : ImportVerify(stageOnly)
  <2>1. staged' \in Contents /\ pc' = "idle"
    BY <1>8, NothingTyped DEF ImportVerify, Answer
  <2>2. QED BY <1>8, <2>1 DEF ImportVerify
<1>9. ASSUME NEW s \in Sessions, SalvageScan(s) PROVE PortTypeOK' /\ ExportOf'
  <2>1. Content(s) \in Contents BY ContentTyped
  <2>2. Content(s).lines \in Seq(Records) BY <2>1 DEF Contents
  <2>3. CleanLines(Content(s)) \in Nat BY <2>2, CleanLinesEnd DEF Ends
  <2>4. QED BY <1>9, <2>1, <2>3 DEF SalvageScan
<1>10. CASE SalvageCopy
  <2>1. pc = "salvageCopy" /\ pc' = "idle" BY <1>10 DEF SalvageCopy, Gone, Answer
  <2>2. /\ prefix.session \in Sessions /\ scanned.lines \in Seq(Records)
        /\ prefix.lines \in 0..Len(scanned.lines)
        /\ Len(scanned.lines) <= Len(log[prefix.session])
    BY <2>1 DEF PortInv, Salvaging, Ends, Begins
  <2>3. log[prefix.session] \in Seq(Records) BY <2>2, SizeTyped
  <2>4. SubSeq(log[prefix.session], 1, prefix.lines) \in Seq(Records) BY <2>2, <2>3
  <2>5. target' \in Contents
    <3>1. target' = target \/ target' = [lines |-> SubSeq(log[prefix.session], 1, prefix.lines),
                                         torn |-> FALSE]
      BY <1>10 DEF SalvageCopy
    <3> DEFINE copied == SubSeq(log[prefix.session], 1, prefix.lines)
    <3>2. copied \in Seq(Records) BY <2>4
    <3> HIDE DEF copied
    <3>3. [lines |-> copied, torn |-> FALSE] \in Contents BY <3>2 DEF Contents
    <3>4. QED BY <3>1, <3>3 DEF copied
  <2>6. QED BY <1>10, <2>1, <2>5 DEF SalvageCopy
<1>11. QED BY <1>1, <1>2, <1>3, <1>4, <1>5, <1>6, <1>7, <1>8, <1>9, <1>10 DEF PortStep

LEMMA PortTyped == PortSpec => []PortTypeOK
<1>1. HomeInit /\ pc = "idle" /\ result = "none" /\ PortInit
      => HomeTypeOK /\ PortTypeOK /\ ExportOf
  <2> SUFFICES ASSUME HomeInit, pc = "idle", PortInit
               PROVE  HomeTypeOK /\ PortTypeOK /\ ExportOf
    OBVIOUS
  <2>1. /\ HomeTypeOK /\ NoContent \in Contents /\ NoManifest \in Manifests
        /\ NoPackage \in [manifest : Manifests, payload : Contents] /\ 0 \in 0..Exports
    BY HomeTypedInitially, NothingTyped, ExportAssumption
  <2>2. prefix \in [session : Sessions \cup {"none"}, lines : Nat] BY DEF PortInit
  <2>3. QED BY <2>1, <2>2 DEF PortInit, PortTypeOK, ExportOf
<1>2. /\ HomeTypeOK /\ PortTypeOK /\ ExportOf /\ PortInv
      /\ [PortNext]_portAll
      => HomeTypeOK' /\ PortTypeOK' /\ ExportOf'
  <2> SUFFICES ASSUME HomeTypeOK, PortTypeOK, ExportOf, PortInv, [PortNext]_portAll
               PROVE  HomeTypeOK' /\ PortTypeOK' /\ ExportOf'
    OBVIOUS
  <2>1. CASE PortStep BY <2>1, PortStepTyped, StepsLeaveHome, HomeTypeStill
  <2>2. CASE HomeTurn /\ UNCHANGED portVars
    BY <2>2, TurnKeepsHomeType, TurnKeeps DEF portVars, PortTypeOK, ExportOf
  <2>3. CASE UNCHANGED portAll
    BY <2>3, HomeTypeStill DEF portAll, portVars, PortTypeOK, ExportOf
  <2>4. QED BY <2>1, <2>2, <2>3 DEF PortNext
<1>3. QED BY <1>1, <1>2, PortInitial, PortKept, PTL DEF PortSpec, PortNext, portAll

-----------------------------------------------------------------------------
Batched == [todo : SUBSET Paths, now : Paths \cup {NoPath}, print : Prints, parsed : Verdicts,
            before : Stats, header : BOOLEAN]

LEMMA BlanksTyped ==
    /\ NoPrint \in Prints /\ NoStat \in Stats /\ NoBatch \in Batched
    /\ NoServed \in [paths : SUBSET Paths, status : Verdicts]
<1>1. NoPrint \in Prints /\ NoStat \in Stats
  BY HomeAssumption DEF NoPrint, Prints, NoStat, Stats
<1>2. NoBatch \in Batched BY <1>1 DEF NoBatch, Batched, Verdicts
<1>3. QED BY <1>1, <1>2 DEF NoServed, Verdicts

LEMMA VerdictTyped ==
    ASSUME NEW s
    PROVE  /\ Parsed(s) \in Verdicts /\ Verdict(s) \in Verdicts
           /\ \A parsed \in Verdicts : \A changed, alone :
                 Worst(parsed, changed, alone) \in Verdicts
BY DEF Parsed, Verdict, Worst, Verdicts

LEMMA ReportTyped ==
    ASSUME DoctorTypeOK, Now \in Paths, NEW status \in Verdicts, Report(status)
    PROVE  batch' \in Batched /\ newCache' \subseteq CacheEntries
<1>1. batch \in Batched BY DEF DoctorTypeOK, Batched
<1>2. batch' \in Batched BY <1>1, BlanksTyped DEF Report, Batched
<1>3. [path |-> Now, print |-> Kept, status |-> status] \in CacheEntries
  BY <1>1 DEF CacheEntries, Kept, Batched
<1>4. QED BY <1>2, <1>3 DEF Report, DoctorTypeOK

LEMMA DoctorStepTyped ==
    ASSUME HomeTypeOK, DoctorTypeOK, CacheInv, DoctorStep
    PROVE  DoctorTypeOK'
<1>1. /\ batch \in Batched /\ cache \subseteq CacheEntries /\ newCache \subseteq CacheEntries
      /\ served \in [paths : SUBSET Paths, status : Verdicts]
      /\ batches \in 0..Batches /\ printed \in Verdicts
  BY DEF DoctorTypeOK, Batched
<1>2. SUFFICES /\ batch' \in Batched /\ cache' \subseteq CacheEntries
               /\ newCache' \subseteq CacheEntries
               /\ served' \in [paths : SUBSET Paths, status : Verdicts]
               /\ batches' \in 0..Batches /\ printed' \in Verdicts
  BY DEF DoctorTypeOK, Batched
<1>3. pc \in Examining => /\ Now \in Paths /\ Size(S) \in Nat /\ Stat(S) \in Stats
                          /\ batch.parsed \in Verdicts
  <2> SUFFICES ASSUME pc \in Examining
               PROVE  /\ Now \in Paths /\ Size(S) \in Nat /\ Stat(S) \in Stats
                      /\ batch.parsed \in Verdicts
    OBVIOUS
  <2>1. Now \in Paths BY DEF CacheInv, NowIsPath
  <2>2. S \in Sessions BY <2>1 DEF S, Paths
  <2>3. QED BY <1>1, <2>1, <2>2, SizeTyped DEF Batched
<1>4. CASE \E whole \in BOOLEAN : BatchStart(whole)
  <2>1. batch' \in Batched
    <3>1. NoBatch \in Batched /\ {p \in Paths : There(p)} \in SUBSET Paths BY BlanksTyped
    <3>2. batch' = [NoBatch EXCEPT !.todo = {p \in Paths : There(p)}] BY <1>4 DEF BatchStart
    <3> DEFINE paths == {p \in Paths : There(p)}
    <3> HIDE DEF paths
    <3>3. QED BY <3>1, <3>2 DEF Batched, paths
  <2>2. batches' \in 0..Batches BY <1>1, <1>4, BatchAssumption DEF BatchStart
  <2>3. QED BY <1>1, <1>4, <2>1, <2>2, BlanksTyped DEF BatchStart
<1>5. CASE \E p \in batch.todo : DoctorPrint(p)
  <2> PICK p \in batch.todo : DoctorPrint(p) BY <1>5
  <2>1. p \in Paths /\ p.session \in Sessions BY <1>1 DEF Batched, Paths
  <2>2. Size(p.session) \in Nat /\ mtime[p.session] \in 0..Turns
    BY <2>1, SizeTyped DEF HomeTypeOK
  <2> DEFINE next == [NoBatch EXCEPT !.todo = batch.todo \ {p}, !.now = p]
             print == [NoPrint EXCEPT !.size = Size(p.session), !.mtime = mtime[p.session]]
  <2>3. next \in Batched BY <1>1, <2>1, BlanksTyped DEF Batched
  <2>4. print \in Prints BY <2>2, BlanksTyped DEF Prints
  <2>5. batch' = next \/ batch' = [next EXCEPT !.print = print] BY DEF DoctorPrint
  <2> HIDE DEF next, print
  <2>6. batch' \in Batched BY <2>3, <2>4, <2>5 DEF Batched
  <2>7. printed' \in Verdicts /\ served' = NoServed
        /\ UNCHANGED <<cache, newCache, batches>>
    BY <1>1, VerdictTyped DEF DoctorPrint
  <2>8. QED BY <1>1, <2>6, <2>7, BlanksTyped
<1>6. CASE DoctorSample
  <2>1. Size(S) \in Nat BY <1>3, <1>6 DEF DoctorSample, Examining
  <2>2. batch.print \in Prints /\ batch.print.size \in Nat BY <1>1 DEF Batched, Prints
  <2>3. \A sample \in {batch.print.size, Size(S)} :
           [batch.print EXCEPT !.sample = sample] \in Prints
    BY <2>1, <2>2 DEF Prints
  <2>4. PICK print \in Prints : batch' = [batch EXCEPT !.print = print]
    BY <1>6, <2>3, BlanksTyped DEF DoctorSample
  <2>5. batch' \in Batched BY <1>1, <2>4 DEF Batched
  <2>6. QED BY <1>1, <1>6, <2>5 DEF DoctorSample
<1>7. CASE DoctorLookup
  <2>1. Now \in Paths BY <1>3, <1>7 DEF DoctorLookup, Examining
  <2>2. \A e \in Hits : e \in CacheEntries /\ e.status \in Verdicts
    BY <1>1 DEF Hits, CacheEntries
  <2>3. /\ newCache' \subseteq newCache \cup Hits
        /\ \/ served' = served
           \/ \E e \in Hits : served' = [paths |-> {Now}, status |-> e.status]
        /\ UNCHANGED <<batch, cache, batches, printed>>
    BY <1>7 DEF DoctorLookup
  <2>4. QED BY <1>1, <2>1, <2>2, <2>3
<1>8. ASSUME UNCHANGED <<cache, served, batches, printed>>, pc \in Examining,
             NEW status \in Verdicts, Report(status)
      PROVE  /\ batch' \in Batched /\ newCache' \subseteq CacheEntries
             /\ UNCHANGED <<cache, served, batches, printed>>
  BY <1>3, <1>8, ReportTyped
<1>9. "SCAN_EXCEPTION" \in Verdicts BY DEF Verdicts
<1>10. CASE DoctorParse
  <2>1. Parsed(S) \in Verdicts BY VerdictTyped
  <2>2. CASE batch' = [batch EXCEPT !.parsed = Parsed(S)] /\ newCache' = newCache
    <3>1. batch' \in Batched BY <1>1, <2>1, <2>2 DEF Batched
    <3>2. QED BY <1>1, <1>10, <2>2, <3>1 DEF DoctorParse
  <2>3. CASE Report("SCAN_EXCEPTION")
    BY <1>1, <1>8, <1>9, <1>10, <2>3 DEF DoctorParse, Examining
  <2>4. QED BY <1>10, <2>2, <2>3 DEF DoctorParse
<1>11. CASE DoctorBefore
  <2>1. Stat(S) \in Stats BY <1>3, <1>11 DEF DoctorBefore, Examining
  <2>2. CASE batch' = [batch EXCEPT !.before = Stat(S)] /\ newCache' = newCache
    <3>1. batch' \in Batched BY <1>1, <2>1, <2>2 DEF Batched
    <3>2. QED BY <1>1, <1>11, <2>2, <3>1 DEF DoctorBefore
  <2>3. CASE Report("SCAN_EXCEPTION")
    BY <1>1, <1>8, <1>9, <1>11, <2>3 DEF DoctorBefore, Examining
  <2>4. QED BY <1>11, <2>2, <2>3 DEF DoctorBefore
<1>12. CASE DoctorScan
  <2>1. CASE batch' = [batch EXCEPT !.header = HeaderOnly(S)] /\ newCache' = newCache
    <3>1. PICK only : only = HeaderOnly(S) OBVIOUS
    <3>2. only \in BOOLEAN BY <3>1 DEF HeaderOnly
    <3>3. batch' = [batch EXCEPT !.header = only] BY <2>1, <3>1, Zenon
    <3>4. batch' \in Batched BY <1>1, <3>2, <3>3 DEF Batched
    <3>5. QED BY <1>1, <1>12, <2>1, <3>4 DEF DoctorScan
  <2>2. CASE Report("SCAN_EXCEPTION")
    BY <1>1, <1>8, <1>9, <1>12, <2>2 DEF DoctorScan, Examining
  <2>3. QED BY <1>12, <2>1, <2>2 DEF DoctorScan
<1>13. CASE DoctorAfter
  <2> DEFINE status == IF There(Now) THEN Worst(batch.parsed, Stat(S) # batch.before, batch.header)
                       ELSE "SCAN_EXCEPTION"
  <2>1. batch.parsed \in Verdicts BY <1>1 DEF Batched
  <2>2. status \in Verdicts BY <1>9, <2>1, VerdictTyped
  <2>3. Report(status) /\ UNCHANGED <<cache, served, batches, printed>> BY <1>13 DEF DoctorAfter
  <2> HIDE DEF status
  <2>4. QED BY <1>1, <1>8, <1>13, <2>2, <2>3 DEF DoctorAfter, Examining
<1>14. CASE BatchEnd BY <1>1, <1>14, BlanksTyped DEF BatchEnd
<1>15. QED
  BY <1>4, <1>5, <1>6, <1>7, <1>10, <1>11, <1>12, <1>13, <1>14 DEF DoctorStep

LEMMA DoctorTyped == DoctorSpec => []DoctorTypeOK
<1>1. HomeInit /\ pc = "idle" /\ result = "none" /\ DoctorInit
      => HomeTypeOK /\ DoctorTypeOK /\ CacheInv
  <2> SUFFICES ASSUME HomeInit, pc = "idle", DoctorInit
               PROVE  HomeTypeOK /\ DoctorTypeOK /\ CacheInv
    OBVIOUS
  <2>1. 0 \in 0..Batches BY BatchAssumption
  <2>2. DoctorTypeOK
    BY <2>1, BlanksTyped DEF DoctorInit, DoctorTypeOK, Batched, Verdicts
  <2>3. QED BY <2>2, HomeTypedInitially, CacheInitial
<1>2. /\ HomeTypeOK /\ DoctorTypeOK /\ CacheInv
      /\ [DoctorNext]_doctorAll
      => HomeTypeOK' /\ DoctorTypeOK'
  <2> SUFFICES ASSUME HomeTypeOK, DoctorTypeOK, CacheInv, [DoctorNext]_doctorAll
               PROVE  HomeTypeOK' /\ DoctorTypeOK'
    OBVIOUS
  <2>1. CASE DoctorStep BY <2>1, DoctorStepTyped, StepsLeaveHome, HomeTypeStill
  <2>2. CASE HomeTurn /\ UNCHANGED doctorVars
    BY <2>2, TurnKeepsHomeType DEF doctorVars, DoctorTypeOK
  <2>3. CASE UNCHANGED doctorAll
    BY <2>3, HomeTypeStill DEF doctorAll, doctorVars, DoctorTypeOK
  <2>4. QED BY <2>1, <2>2, <2>3 DEF DoctorNext
<1>3. QED BY <1>1, <1>2, CacheKept, PTL DEF DoctorSpec, DoctorNext, doctorAll

-----------------------------------------------------------------------------
RouteStatuses == {"none", "CONSISTENT", "DIVERGED", "UNKNOWN", "UNRECORDED"}
Routes == [thread : Threads, todo : Seq(Paths), target : SUBSET Paths, exists : BOOLEAN,
           stores : Seq(Range(Stores)), status : RouteStatuses, error : BOOLEAN, cause : Causes]
Pilots == [on : BOOLEAN, repair : BOOLEAN, sweep : Seq(Paths),
           found : SUBSET [path : Paths, thread : Threads], threads : SUBSET Threads,
           target : SUBSET Paths]

LEMMA RouterTypes ==
    RouterTypeOK <=> /\ route \in Routes /\ Cardinality(route.target) <= 1 /\ pilot \in Pilots
                     /\ stayed \subseteq Sessions /\ couldRead \in BOOLEAN
BY DEF RouterTypeOK, Routes, Pilots, RouteStatuses

LEMMA AtMostOne ==
    ASSUME NEW p, NEW T, T \subseteq {p}
    PROVE  Cardinality(T) <= 1
<1>1. T = {} \/ T = {p} OBVIOUS
<1>2. Cardinality({}) = 0 /\ Cardinality({p}) = 1 BY FS_EmptySet, FS_Singleton
<1>3. QED BY <1>1, <1>2

LEMMA NoRouteTyped == NoRoute \in Routes /\ NoRoute.target = {} /\ NoPilot \in Pilots
BY DEF NoRoute, Routes, NoPilot, Pilots, Threads, RouteStatuses, Causes

LEMMA LookTyped ==
    ASSUME NEW t \in Threads, Look(t)
    PROVE  route' \in Routes /\ Cardinality(route'.target) <= 1
<1>1. Sweep \in Seq(Paths) BY SweepCovers
<1>2. route' \in Routes /\ route'.target = {} BY <1>1, NoRouteTyped DEF Look, Routes
<1>3. QED BY <1>2, AtMostOne

LEMMA StatusTyped == \A t, p : RowStatus(t, p) \in RouteStatuses
<1> SUFFICES ASSUME NEW t, NEW p PROVE RowStatus(t, p) \in RouteStatuses OBVIOUS
<1> DEFINE r == Relation([folder |-> row[t], session |-> t], p)
           c == CASE r = "EQUIVALENT" -> "CONSISTENT"
                  [] r = "DIFFERENT"  -> "DIVERGED"
                  [] OTHER            -> "UNKNOWN"
<1>1. c \in RouteStatuses BY Zenon DEF RouteStatuses
<1>2. RowStatus(t, p) \in {c, "CONSISTENT", "UNRECORDED"} BY DEF RowStatus
<1> HIDE DEF c
<1>3. QED BY <1>1, <1>2 DEF RouteStatuses

LEMMA FreshTyped ==
    ASSUME HomeTypeOK, Fresh
    PROVE  stayed' \subseteq Sessions /\ couldRead' \in BOOLEAN
BY DEF Fresh, HomeTypeOK

LEMMA RouterStepTyped ==
    ASSUME HomeTypeOK, RouterTypeOK, RouterInv, RouterStep
    PROVE  RouterTypeOK'
<1> DEFINE Target == Cardinality(route.target) <= 1
           Kind == stayed \subseteq Sessions /\ couldRead \in BOOLEAN
<1>1. route \in Routes /\ Target /\ pilot \in Pilots /\ Kind BY RouterTypes
<1>2. SUFFICES route' \in Routes /\ Target' /\ pilot' \in Pilots /\ Kind'
  BY DEF RouterTypeOK, Routes, Pilots, RouteStatuses
<1>3. kept' = kept => Kind' BY <1>1 DEF kept
<1>4. Fresh => Kind' BY FreshTyped
<1>5. \A p \in Paths : ThreadOf(p) \in Threads BY ThreadIsName DEF Threads, Paths
<1>6. ASSUME NEW s \in Sessions, RouteStart(s)
      PROVE  route' \in Routes /\ Target' /\ pilot' \in Pilots /\ Kind'
  <2>1. s \in Threads BY DEF Threads
  <2>2. route' \in Routes /\ Target' BY <1>6, <2>1, LookTyped DEF RouteStart
  <2>3. QED BY <1>4, <1>6, <2>2, NoRouteTyped DEF RouteStart
<1>7. ASSUME NEW p \in Paths, RoutePath(p)
      PROVE  route' \in Routes /\ Target' /\ pilot' \in Pilots /\ Kind'
  <2> DEFINE t == IF There(p) THEN ThreadOf(p) ELSE "none"
             here == {q \in {p} : There(q)}
  <2>1. t \in Threads /\ here \in SUBSET Paths /\ here \subseteq {p} BY <1>5 DEF Threads
  <2>2. route' = [NoRoute EXCEPT !.thread = t, !.target = here] BY <1>7 DEF RoutePath
  <2> HIDE DEF t, here
  <2>3. route' \in Routes /\ route'.target = here BY <2>1, <2>2, NoRouteTyped DEF Routes
  <2>4. Target' BY <2>1, <2>3, AtMostOne
  <2>5. QED BY <1>4, <1>7, <2>3, <2>4, NoRouteTyped DEF RoutePath
<1>8. CASE RouteLook
  <2>1. route.todo \in Seq(Paths) /\ route.todo # <<>> BY <1>1, <1>8 DEF RouteLook, Routes
  <2>2. Head(route.todo) \in Paths /\ Tail(route.todo) \in Seq(Paths) BY <2>1
  <2>3. CASE route' = [route EXCEPT !.target = {Head(route.todo)}]
    <3>1. route' \in Routes /\ route'.target = {Head(route.todo)} BY <1>1, <2>2, <2>3 DEF Routes
    <3>2. Target' BY <3>1, AtMostOne
    <3>3. QED BY <1>1, <1>3, <1>8, <3>1, <3>2 DEF RouteLook
  <2>4. CASE route' = [route EXCEPT !.todo = Tail(route.todo)]
    <3>1. route' \in Routes /\ route'.target = route.target BY <1>1, <2>2, <2>4 DEF Routes
    <3>2. QED BY <1>1, <1>3, <1>8, <3>1 DEF RouteLook
  <2>5. QED BY <1>8, <2>3, <2>4 DEF RouteLook
<1>9. CASE RouteNoFile \/ PilotSelect
  BY <1>1, <1>3, <1>9 DEF RouteNoFile, PilotSelect, routerVars
<1>10. CASE RouteExists
  <2> DEFINE there == \E p \in route.target : There(p)
  <2>1. PICK exists \in BOOLEAN : exists = there
    <3>1. there \in BOOLEAN OBVIOUS
    <3>2. QED BY <3>1
  <2>2. route' = [route EXCEPT !.exists = there, !.stores = Stores] BY <1>10 DEF RouteExists
  <2> HIDE DEF there
  <2>3. route' = [route EXCEPT !.exists = exists, !.stores = Stores] BY <2>1, <2>2
  <2>4. route' \in Routes /\ route'.target = route.target
    BY <1>1, <2>3, StoresAreStores DEF Routes
  <2>5. QED BY <1>1, <1>3, <1>10, <2>4 DEF RouteExists
<1>11. CASE RouteStore
  <2>1. CASE route.stores = <<>>
    <3>1. \/ route' = [route EXCEPT !.status = "UNKNOWN"]
          \/ route' = [route EXCEPT !.status = "UNRECORDED"]
      BY <1>11, <2>1 DEF RouteStore
    <3>2. route' \in Routes /\ route'.target = route.target
      BY <1>1, <3>1 DEF Routes, RouteStatuses
    <3>3. QED BY <1>1, <1>3, <1>11, <3>2 DEF RouteStore
  <2>2. CASE route.stores # <<>>
    <3> DEFINE status == IF readable /\ Head(route.stores) = IndexStore
                         THEN RowStatus(route.thread, CHOOSE p \in route.target : TRUE)
                         ELSE "none"
    <3>1. status \in RouteStatuses BY StatusTyped DEF RouteStatuses
    <3>2. route.stores \in Seq(Range(Stores)) BY <1>1 DEF Routes
    <3>3. Tail(route.stores) \in Seq(Range(Stores)) BY <2>2, <3>2
    <3>4. PICK error : error = (route.error \/ ~readable) OBVIOUS
    <3>5. error \in BOOLEAN BY <3>4
    <3>6. /\ \/ route' = [route EXCEPT !.stores = Tail(route.stores),
                                       !.error = route.error \/ ~readable]
             \/ route' = [route EXCEPT !.status = status]
          /\ UNCHANGED <<pilot, kept>>
      BY <1>11, <2>2 DEF RouteStore
    <3> HIDE DEF status
    <3>7. \/ route' = [route EXCEPT !.stores = Tail(route.stores), !.error = error]
          \/ route' = [route EXCEPT !.status = status]
      BY <3>4, <3>6, Zenon
    <3>8. route' \in Routes /\ route'.target = route.target
      BY <1>1, <3>1, <3>3, <3>5, <3>7 DEF Routes
    <3>9. QED BY <1>1, <1>3, <3>6, <3>8
  <2>3. QED BY <2>1, <2>2
<1>12. CASE RouteVerdict
  <2> DEFINE blamed == CASE route.exists /\ ~Recorded  -> {"DERIVED_SQLITE_INDEX"}
                         [] ~route.exists /\ Recorded  -> {"SOURCE_ROLLOUT"}
                         [] ~route.exists /\ ~Recorded -> {"NOT_FOUND"}
                         [] route.exists /\ Recorded   -> Aligned
  <2>1. blamed \in {{"DERIVED_SQLITE_INDEX"}, {"SOURCE_ROLLOUT"}, {"NOT_FOUND"}, Aligned} BY Zenon
  <2>2. blamed \subseteq Causes BY <2>1 DEF Causes
  <2>3. PICK cause \in blamed : route' = [route EXCEPT !.cause = cause] BY <1>12 DEF RouteVerdict
  <2> HIDE DEF blamed
  <2>4. route' \in Routes /\ route'.target = route.target BY <1>1, <2>2, <2>3 DEF Routes
  <2>5. QED BY <1>1, <1>3, <1>12, <2>4 DEF RouteVerdict
<1>13. CASE \E repair \in BOOLEAN : PilotStart(repair)
  <2> PICK repair \in BOOLEAN : PilotStart(repair) BY <1>13
  <2>1. pilot' = [NoPilot EXCEPT !.on = TRUE, !.repair = repair, !.sweep = Sweep]
        /\ route' = NoRoute /\ Fresh
    BY DEF PilotStart
  <2>2. pilot' \in Pilots BY <2>1, NoRouteTyped, SweepCovers DEF Pilots
  <2>3. QED BY <1>4, <2>1, <2>2, NoRouteTyped, AtMostOne
<1>14. CASE PilotSweep
  <2>1. pilot.sweep \in Seq(Paths) /\ pilot.sweep # <<>> BY <1>1, <1>14 DEF PilotSweep, Pilots
  <2>2. Head(pilot.sweep) \in Paths /\ Tail(pilot.sweep) \in Seq(Paths) BY <2>1
  <2> DEFINE more == {[path |-> p, thread |-> ThreadOf(p)] :
                         p \in {q \in {Head(pilot.sweep)} : There(q)}}
  <2>3. more \subseteq [path : Paths, thread : Threads] BY <1>5, <2>2
  <2>4. pilot' = [pilot EXCEPT !.sweep = Tail(pilot.sweep), !.found = pilot.found \cup more]
        /\ route' = route /\ kept' = kept
    BY <1>14 DEF PilotSweep
  <2> HIDE DEF more
  <2>5. pilot' \in Pilots BY <1>1, <2>2, <2>3, <2>4 DEF Pilots
  <2>6. QED BY <1>1, <1>3, <2>4, <2>5
<1>15. CASE PilotGraph
  <2> DEFINE all == {f.thread : f \in pilot.found}
  <2>1. all \subseteq Threads BY <1>1 DEF Pilots
  <2>2. pilot' = [pilot EXCEPT !.threads = all] /\ route' = route /\ kept' = kept
    BY <1>15 DEF PilotGraph
  <2> HIDE DEF all
  <2>3. pilot' \in Pilots BY <1>1, <2>1, <2>2 DEF Pilots
  <2>4. QED BY <1>1, <1>3, <2>2, <2>3
<1>16. CASE \E t \in pilot.threads : PilotRoute(t)
  <2> PICK t \in pilot.threads : PilotRoute(t) BY <1>16
  <2>1. t \in Threads BY <1>1 DEF Pilots
  <2>2. route' \in Routes /\ Target' BY <2>1, LookTyped DEF PilotRoute
  <2>3. pilot' = [pilot EXCEPT !.threads = pilot.threads \ {t}] /\ kept' = kept BY DEF PilotRoute
  <2>4. pilot' \in Pilots BY <1>1, <2>3 DEF Pilots
  <2>5. QED BY <1>3, <2>2, <2>3, <2>4
<1>17. CASE PilotRepair
  <2>1. Repairable \in SUBSET Paths BY <1>1 DEF Repairable, Pilots
  <2>2. pilot' = pilot \/ pilot' = [pilot EXCEPT !.target = Repairable] BY <1>17 DEF PilotRepair
  <2>3. pilot' \in Pilots BY <1>1, <2>1, <2>2 DEF Pilots
  <2>4. QED BY <1>1, <1>3, <1>17, <2>3 DEF PilotRepair
<1>18. QED
  BY <1>6, <1>7, <1>8, <1>9, <1>10, <1>11, <1>12, <1>13, <1>14, <1>15, <1>16, <1>17
     DEF RouterStep

LEMMA RouterTyped == RouterSpec => []RouterTypeOK
<1>1. RouterBegin => HomeTypeOK /\ RouterTypeOK
  <2> SUFFICES ASSUME RouterBegin PROVE HomeTypeOK /\ RouterTypeOK OBVIOUS
  <2>1. HomeTypeOK BY HomeTypedInitially DEF RouterBegin
  <2>2. route = NoRoute /\ pilot = NoPilot /\ stayed = {} /\ couldRead = TRUE
    BY DEF RouterBegin, RouterInit
  <2>3. Cardinality(route.target) <= 1 BY <2>2, NoRouteTyped, AtMostOne
  <2>4. QED BY <2>1, <2>2, <2>3, NoRouteTyped, RouterTypes
<1>2. /\ HomeTypeOK /\ RouterTypeOK /\ RouterInv
      /\ [RouterNext]_routerAll
      => HomeTypeOK' /\ RouterTypeOK'
  <2> SUFFICES ASSUME HomeTypeOK, RouterTypeOK, RouterInv, [RouterNext]_routerAll
               PROVE  HomeTypeOK' /\ RouterTypeOK'
    OBVIOUS
  <2>1. CASE RouterStep BY <2>1, RouterStepTyped, StepsLeaveHome, HomeTypeStill
  <2>2. CASE HomeTurn /\ RouterWatch
    <3>1. HomeTypeOK' BY <2>2, TurnKeepsHomeType
    <3>2. stayed' \subseteq Sessions /\ couldRead' \in BOOLEAN
      BY <2>2 DEF RouterWatch, RouterTypeOK
    <3>3. QED BY <2>2, <3>1, <3>2 DEF RouterWatch, RouterTypeOK
  <2>3. CASE UNCHANGED routerAll
    BY <2>3, HomeTypeStill DEF routerAll, routerVars, kept, RouterTypeOK
  <2>4. QED BY <2>1, <2>2, <2>3 DEF RouterNext
<1>3. QED BY <1>1, <1>2, RouterInitially, RouterKept, PTL
          DEF RouterSpec, RouterBegin, RouterNext, routerAll

-----------------------------------------------------------------------------
Inventories == [rows : [Sessions -> Rows], available : BOOLEAN, error : BOOLEAN]
Listings == [stores : Seq(Range(Stores)), todo : Seq(Paths), paths : SUBSET Paths,
             stated : SUBSET Paths, candidates : SUBSET Candidates, seen : SUBSET Sessions,
             chosen : Candidates, archived : BOOLEAN]
Noticed ==
    /\ moved \subseteq Sessions /\ reindexed \subseteq Sessions /\ away \subseteq Sessions
    /\ unread \subseteq Sessions
DiscoveryTyped ==
    inventory \in Inventories /\ listing \in Listings /\ entries \subseteq Entries /\ Noticed

LEMMA DiscoveryTypes ==
    /\ DiscoveryTyped => DiscoveryTypeOK /\ ListingIsRecord
    /\ DiscoveryTypeOK /\ ListingIsRecord => DiscoveryTyped
<1>1. ASSUME DiscoveryTyped PROVE DiscoveryTypeOK /\ ListingIsRecord
  <2>1. ListingIsRecord BY <1>1 DEF DiscoveryTyped, Listings, ListingIsRecord
  <2>2. DiscoveryTypeOK
    BY <1>1 DEF DiscoveryTyped, Noticed, Inventories, Listings, DiscoveryTypeOK
  <2>3. QED BY <2>1, <2>2
<1>2. ASSUME DiscoveryTypeOK, ListingIsRecord PROVE DiscoveryTyped
  <2>1. /\ listing.stores \in Seq(Range(Stores)) /\ listing.todo \in Seq(Paths)
        /\ listing.paths \in SUBSET Paths /\ listing.stated \in SUBSET Paths
        /\ listing.candidates \in SUBSET Candidates /\ listing.seen \in SUBSET Sessions
        /\ listing.chosen \in Candidates /\ listing.archived \in BOOLEAN
    BY <1>2 DEF DiscoveryTypeOK
  <2>2. listing \in Listings
    BY <1>2, <2>1 DEF ListingIsRecord, Listings
  <2>3. QED BY <1>2, <2>2 DEF DiscoveryTyped, DiscoveryTypeOK, Noticed, Inventories
<1>3. QED BY <1>1, <1>2

LEMMA NothingListed == NoInventory \in Inventories /\ NoListing \in Listings
<1>1. NoRows \in [Sessions -> Rows] BY DEF NoRows, Rows
<1>2. NoInventory \in Inventories BY <1>1 DEF NoInventory, Inventories
<1>3. Sweep[1] \in Paths
  <2>1. Sweep \in Seq(Paths) /\ Range(Sweep) = Paths BY SweepCovers
  <2>2. Paths # {}
    <3>1. "sessions" \in Range(Folders) BY FolderNames
    <3>2. [folder |-> "sessions", session |-> b] \in Paths BY <3>1, InstanceAssumption DEF Paths
    <3>3. QED BY <3>2
  <2>3. Sweep # <<>> BY <2>1, <2>2 DEF Range
  <2>4. QED BY <2>1, <2>3
<1>4. NoCandidate \in Candidates BY <1>3 DEF NoCandidate, Candidates
<1>5. QED BY <1>2, <1>4 DEF NoListing, Listings

LEMMA MergedTyped ==
    ASSUME DiscoveryTyped
    PROVE  Merged \subseteq Candidates
<1>1. listing.stated \subseteq Paths /\ inventory.rows \in [Sessions -> Rows]
  BY DEF DiscoveryTyped, Listings, Inventories
<1>2. ASSUME NEW p \in listing.stated
      PROVE  [Candidate(p) EXCEPT !.indexed = \E s \in RowsRead : p \in RowOwner(s)] \in Candidates
  <2>1. PICK mine : mine = (\E s \in RowsRead : p \in RowOwner(s)) OBVIOUS
  <2>2. mine \in BOOLEAN BY <2>1
  <2>3. [Candidate(p) EXCEPT !.indexed = mine] \in Candidates
    BY <1>1, <2>2 DEF Candidate, NameOf, Candidates, Paths
  <2>4. QED BY <2>1, <2>3
<1>3. ASSUME NEW s \in Missing
      PROVE  [path |-> [folder |-> inventory.rows[s], session |-> s], thread |-> s,
              indexed |-> TRUE] \in Candidates
  <2>1. s \in Sessions /\ inventory.rows[s] # "absent" BY DEF Missing, RowsRead
  <2>2. inventory.rows[s] \in Range(Folders) BY <1>1, <2>1 DEF Rows
  <2>3. QED BY <2>1, <2>2 DEF Candidates, Paths
<1>4. QED BY <1>2, <1>3 DEF Merged

LEMMA EntryTyped ==
    ASSUME NEW c \in Candidates, NEW id \in Sessions \cup {"none", "other"},
           NEW exists \in BOOLEAN,
           NEW mismatch \in {"none", "rollout_not_indexed", "inventory_unreadable",
                             "rollout_inaccessible", "indexed_rollout_missing"}
    PROVE  Entry(c, id, exists, mismatch) \in Entries
BY DEF Entry, Entries, Candidates

\* The rows are selected from a store that is still to be read.
Selecting == pc = "findSelect" => listing.stores # <<>>

LEMMA SelectingStays ==
    ASSUME DiscoverStep
    PROVE  Selecting'
<1>1. CASE FindTable BY <1>1 DEF FindTable, Goto, Selecting
<1>2. CASE ~FindTable
  <2>1. pc' # "findSelect"
    BY <1>2 DEF DiscoverStep, DiscoverStart, SelectRows, SweepStart, FindFile, StatStart,
                StatFile, Merge, ListNext, ListScan, DiscoverEnd, Goto, Answer
  <2>2. QED BY <2>1 DEF Selecting
<1>3. QED BY <1>1, <1>2

LEMMA DiscoverStepTyped ==
    ASSUME HomeTypeOK, DiscoveryTyped, Selecting, DiscoverStep
    PROVE  DiscoveryTyped'
<1>1. inventory \in Inventories /\ listing \in Listings /\ entries \subseteq Entries /\ Noticed
  BY DEF DiscoveryTyped
<1>2. ASSUME UNCHANGED <<inventory, entries, history>>, listing' \in Listings
      PROVE  DiscoveryTyped'
  BY <1>1, <1>2 DEF DiscoveryTyped, Noticed, history
<1>3. ASSUME NEW archived \in BOOLEAN, DiscoverStart(archived) PROVE DiscoveryTyped'
  <2>1. listing' = [NoListing EXCEPT !.stores = Stores, !.archived = archived]
    BY <1>3 DEF DiscoverStart
  <2>2. listing' \in Listings BY <2>1, NothingListed, StoresAreStores DEF Listings
  <2>3. QED BY <1>3, <2>2, NothingListed DEF DiscoverStart, DiscoveryTyped, Noticed
<1>4. CASE FindTable
  <2>1. listing.stores \in Seq(Range(Stores)) /\ listing.stores # <<>>
    BY <1>1, <1>4 DEF FindTable, Listings
  <2>2. Tail(listing.stores) \in Seq(Range(Stores)) BY <2>1
  <2>3. [listing EXCEPT !.stores = Tail(listing.stores)] \in Listings BY <1>1, <2>2 DEF Listings
  <2>4. listing' \in Listings BY <1>1, <1>4, <2>3 DEF FindTable
  <2>5. /\ [inventory EXCEPT !.available = TRUE] \in Inventories
        /\ [inventory EXCEPT !.error = TRUE] \in Inventories
    BY <1>1 DEF Inventories
  <2>6. inventory' \in Inventories BY <1>1, <1>4, <2>5 DEF FindTable
  <2>7. QED BY <1>1, <1>4, <2>4, <2>6 DEF FindTable, DiscoveryTyped, Noticed, history
<1>5. CASE SelectRows
  <2>1. listing.stores \in Seq(Range(Stores)) BY <1>1 DEF Listings
  <2>2. listing.stores # <<>> BY <1>5 DEF Selecting, SelectRows
  <2>3. Tail(listing.stores) \in Seq(Range(Stores)) BY <2>1, <2>2
  <2>4. listing' = [listing EXCEPT !.stores = Tail(listing.stores)] BY <1>5 DEF SelectRows
  <2>5. listing' \in Listings BY <1>1, <2>3, <2>4 DEF Listings
  <2>6. row \in [Sessions -> Rows] BY DEF HomeTypeOK
  <2>7. inventory' \in Inventories /\ unread' \subseteq Sessions
    <3>1. CASE inventory' = [inventory EXCEPT !.rows = row] /\ unread' = {}
      BY <1>1, <2>6, <3>1 DEF Inventories
    <3>2. ASSUME NEW some \in SUBSET Sessions,
                 inventory' = [inventory EXCEPT
                    !.rows = [s \in Sessions |-> IF s \in some THEN row[s] ELSE "absent"],
                    !.error = TRUE],
                 unread' = Sessions \ some
          PROVE  inventory' \in Inventories /\ unread' \subseteq Sessions
      <4> DEFINE rows == [s \in Sessions |-> IF s \in some THEN row[s] ELSE "absent"]
      <4>1. rows \in [Sessions -> Rows] BY <2>6 DEF Rows
      <4>2. inventory' = [inventory EXCEPT !.rows = rows, !.error = TRUE] BY <3>2
      <4> HIDE DEF rows
      <4>3. QED BY <1>1, <3>2, <4>1, <4>2 DEF Inventories
    <3>3. QED BY <1>5, <3>1, <3>2 DEF SelectRows
  <2>8. QED BY <1>1, <1>5, <2>5, <2>7 DEF SelectRows, DiscoveryTyped, Noticed
<1>6. CASE SweepStart
  <2>1. Sweep \in Seq(Paths) /\ SweepOf(Folders[1]) \in Seq(Paths)
    BY SweepCovers, FolderSweep, FolderNames DEF Folders
  <2>2. listing' = [listing EXCEPT !.todo = IF listing.archived THEN Sweep ELSE SweepOf(Folders[1])]
    BY <1>6 DEF SweepStart
  <2>3. \/ listing' = [listing EXCEPT !.todo = Sweep]
        \/ listing' = [listing EXCEPT !.todo = SweepOf(Folders[1])]
    BY <2>2
  <2>4. listing' \in Listings BY <1>1, <2>1, <2>3 DEF Listings
  <2>5. QED BY <1>2, <1>6, <2>4 DEF SweepStart
<1>7. CASE FindFile
  <2>1. listing.todo \in Seq(Paths) /\ listing.todo # <<>> BY <1>1, <1>7 DEF FindFile, Listings
  <2>2. Head(listing.todo) \in Paths /\ Tail(listing.todo) \in Seq(Paths) BY <2>1
  <2> DEFINE more == listing.paths \cup {p \in {Head(listing.todo)} : There(p)}
  <2>3. more \in SUBSET Paths BY <1>1, <2>2 DEF Listings
  <2>4. listing' = [listing EXCEPT !.todo = Tail(listing.todo), !.paths = more]
    BY <1>7 DEF FindFile
  <2> HIDE DEF more
  <2>5. listing' \in Listings BY <1>1, <2>2, <2>3, <2>4 DEF Listings
  <2>6. QED BY <1>2, <1>7, <2>5 DEF FindFile
<1>8. CASE StatStart
  <2>1. SweepOf(Folders[2]) \in Seq(Paths) /\ SweepOf(Folders[1]) \in Seq(Paths)
    BY FolderSweep, FolderNames DEF Folders
  <2>2. SweepOf(Folders[2]) \o SweepOf(Folders[1]) \in Seq(Paths) BY <2>1
  <2>3. listing' \in Listings BY <1>1, <1>8, <2>2 DEF StatStart, Listings
  <2>4. QED BY <1>2, <1>8, <2>3 DEF StatStart
<1>9. CASE StatFile
  <2>1. listing.todo \in Seq(Paths) /\ listing.todo # <<>> BY <1>1, <1>9 DEF StatFile, Listings
  <2>2. Tail(listing.todo) \in Seq(Paths) BY <2>1
  <2> DEFINE more == listing.stated \cup {p \in {Head(listing.todo)} \cap listing.paths : There(p)}
  <2>3. more \in SUBSET Paths BY <1>1 DEF Listings
  <2>4. listing' = [listing EXCEPT !.todo = Tail(listing.todo), !.stated = more]
    BY <1>9 DEF StatFile
  <2> HIDE DEF more
  <2>5. listing' \in Listings BY <1>1, <2>2, <2>3, <2>4 DEF Listings
  <2>6. QED BY <1>2, <1>9, <2>5 DEF StatFile
<1>10. CASE Merge
  <2>1. listing' = [listing EXCEPT !.candidates = Merged] BY <1>10 DEF Merge
  <2>2. listing' \in Listings BY <1>1, <2>1, MergedTyped DEF Listings
  <2>3. QED BY <1>2, <1>10, <2>2 DEF Merge
<1>11. CASE \E c \in listing.candidates : ListNext(c)
  <2> PICK c \in listing.candidates : ListNext(c) BY <1>11
  <2>1. c \in Candidates BY <1>1 DEF Listings
  <2>2. c.thread \in Sessions \cup {"none"} BY <2>1 DEF Candidates
  <2> DEFINE rest == listing.candidates \ {c}
             met  == listing.seen \cup ({c.thread} \ {"none"})
  <2>3. rest \in SUBSET Candidates /\ met \in SUBSET Sessions BY <1>1, <2>2 DEF Listings
  <2>4. listing' = [listing EXCEPT !.candidates = rest, !.chosen = c, !.seen = met]
    BY DEF ListNext
  <2> HIDE DEF rest, met
  <2>5. listing' \in Listings BY <1>1, <2>1, <2>3, <2>4 DEF Listings
  <2>6. Entry(c, c.thread, FALSE, "indexed_rollout_missing") \in Entries
    BY <2>1, <2>2, EntryTyped
  <2>7. entries' \subseteq Entries BY <1>1, <2>6 DEF ListNext
  <2>8. QED BY <1>1, <2>5, <2>7 DEF ListNext, DiscoveryTyped, Noticed, history
<1>12. CASE ListScan
  <2> DEFINE c == listing.chosen
             gone == IF c.indexed THEN "rollout_inaccessible" ELSE "none"
             told == IF c.indexed THEN "none"
                     ELSE IF inventory.available THEN "rollout_not_indexed"
                     ELSE IF inventory.error THEN "inventory_unreadable" ELSE "none"
  <2>1. c \in Candidates BY <1>1 DEF Listings
  <2>2. c.thread \in Sessions \cup {"none"} /\ c.path.session \in Sessions
    BY <2>1 DEF Candidates, Paths
  <2>3. PICK head \in BOOLEAN :
           entries' \subseteq entries \cup
              {Entry(c, c.thread, FALSE, gone),
               Entry(c, ResolveThread(c.path.session, head).thread, TRUE, told)}
    BY <1>12 DEF ListScan
  <2>4. ResolveThread(c.path.session, head).thread \in Sessions \cup {"none", "other"}
    BY <2>2, ScannedId
  <2>5. /\ Entry(c, c.thread, FALSE, gone) \in Entries
        /\ Entry(c, ResolveThread(c.path.session, head).thread, TRUE, told) \in Entries
    BY <2>1, <2>2, <2>4, EntryTyped
  <2>6. UNCHANGED <<inventory, listing, history>> BY <1>12 DEF ListScan
  <2> HIDE DEF c, gone, told
  <2>7. QED BY <1>1, <2>3, <2>5, <2>6 DEF DiscoveryTyped, Noticed, history
<1>13. CASE DiscoverEnd
  BY <1>1, <1>13 DEF DiscoverEnd, discoveryVars, DiscoveryTyped, Noticed, history
<1>14. QED
  BY <1>3, <1>4, <1>5, <1>6, <1>7, <1>8, <1>9, <1>10, <1>11, <1>12, <1>13 DEF DiscoverStep

LEMMA ListingTyped == DiscoverySpec => []DiscoveryTypeOK
<1>1. ListingBegin => HomeTypeOK /\ DiscoveryTyped /\ Selecting
  BY HomeTypedInitially, NothingListed
     DEF ListingBegin, DiscoveryInit, DiscoveryTyped, Noticed, Selecting
<1>2. /\ HomeTypeOK /\ DiscoveryTyped /\ Selecting
      /\ [ListingNext]_listingAll
      => HomeTypeOK' /\ DiscoveryTyped' /\ Selecting'
  <2> SUFFICES ASSUME HomeTypeOK, DiscoveryTyped, Selecting, [ListingNext]_listingAll
               PROVE  HomeTypeOK' /\ DiscoveryTyped' /\ Selecting'
    OBVIOUS
  <2>1. CASE DiscoverStep
    BY <2>1, DiscoverStepTyped, SelectingStays, StepsLeaveHome, HomeTypeStill
  <2>2. CASE HomeTurn /\ DiscoverWatch
    <3>1. HomeTypeOK' BY <2>2, TurnKeepsHomeType
    <3>2. Noticed' BY <2>2 DEF DiscoverWatch, DiscoveryTyped, Noticed
    <3>3. Selecting' BY <2>2, TurnKeeps DEF DiscoverWatch, Selecting
    <3>4. QED BY <2>2, <3>1, <3>2, <3>3 DEF DiscoverWatch, DiscoveryTyped
  <2>3. CASE UNCHANGED listingAll
    BY <2>3, HomeTypeStill
       DEF listingAll, discoveryVars, history, DiscoveryTyped, Noticed, Selecting
  <2>4. QED BY <2>1, <2>2, <2>3 DEF ListingNext
<1>3. DiscoveryTyped => DiscoveryTypeOK BY DiscoveryTypes
<1>4. QED BY <1>1, <1>2, <1>3, PTL DEF DiscoverySpec, ListingBegin, ListingNext, listingAll

-----------------------------------------------------------------------------
\* The variables of the commands that are not run stay as they were.
Idle ==
    /\ tool # "quick"    => QuickInit
    /\ tool # "parity"   => ParityInit
    /\ tool # "life"     => LifeInit
    /\ tool # "observer" => ObserverInit
    /\ tool # "discover" => DiscoveryInit
    /\ tool # "router"   => RouterInit
    /\ tool # "doctor"   => DoctorInit
    /\ tool # "port"     => PortInit

LEMMA IdleStays == Spec => []Idle
<1>1. Init => Idle BY DEF Init, Idle
<1>2. Idle /\ [Next]_vars => Idle'
  <2> SUFFICES ASSUME Idle, [Next]_vars PROVE Idle' OBVIOUS
  <2>1. /\ QuickInit /\ UNCHANGED quickVars => QuickInit'
        /\ ParityInit /\ UNCHANGED parityVars => ParityInit'
        /\ LifeInit /\ UNCHANGED lifeVars => LifeInit'
        /\ ObserverInit /\ UNCHANGED observerVars => ObserverInit'
    BY DEF QuickInit, quickVars, ParityInit, parityVars, LifeInit, lifeVars, ObserverInit,
           observerVars, pollVars, watchVars
  <2>2. /\ DiscoveryInit /\ UNCHANGED discoveryVars => DiscoveryInit'
        /\ RouterInit /\ UNCHANGED routerVars => RouterInit'
        /\ DoctorInit /\ UNCHANGED doctorVars => DoctorInit'
        /\ PortInit /\ UNCHANGED portVars => PortInit'
    BY DEF DiscoveryInit, discoveryVars, history, RouterInit, routerVars, kept, DoctorInit,
           doctorVars, PortInit, portVars
  <2>3. CASE Quick BY <2>1, <2>2, <2>3 DEF Quick, Runs, Idle
  <2>4. CASE Parity BY <2>1, <2>2, <2>4 DEF Parity, Runs, Idle
  <2>5. CASE Life BY <2>1, <2>2, <2>5 DEF Life, Runs, Idle
  <2>6. CASE Observe BY <2>1, <2>2, <2>6 DEF Observe, Runs, Idle
  <2>7. CASE Discover BY <2>1, <2>2, <2>7 DEF Discover, Runs, Idle
  <2>8. CASE RouteAll BY <2>1, <2>2, <2>8 DEF RouteAll, Runs, Idle
  <2>9. CASE Doctor BY <2>1, <2>2, <2>9 DEF Doctor, Runs, Idle
  <2>10. CASE Port BY <2>1, <2>2, <2>10 DEF Port, Runs, Idle
  <2>11. CASE UNCHANGED vars BY <2>1, <2>2, <2>11 DEF vars, Idle
  <2>12. QED
    BY <2>3, <2>4, <2>5, <2>6, <2>7, <2>8, <2>9, <2>10, <2>11 DEF Next
<1>3. QED BY <1>1, <1>2, PTL DEF Spec

LEMMA BlanksHaveTypes ==
    /\ QuickInit => QuickTypeOK
    /\ ParityInit => ParityTypeOK
    /\ LifeInit => LifeTypeOK
    /\ ObserverInit => ObserverTypeOK
    /\ DiscoveryInit => DiscoveryTypeOK
    /\ RouterInit => RouterTypeOK
    /\ DoctorInit => DoctorTypeOK
    /\ PortInit => PortTypeOK
<1>1. QuickInit => QuickTypeOK BY DEF QuickInit, QuickTypeOK, NoQuick
<1>2. ParityInit => ParityTypeOK
  BY HomeAssumption DEF ParityInit, ParityTypeOK, NoParity, NoStat, Stats
<1>3. ASSUME LifeInit PROVE LifeTypeOK
  <2>1. visit \in Visits BY <1>3 DEF LifeInit, NoVisit, Visits, Ids, Places
  <2>2. QED BY <1>3, <2>1 DEF LifeInit, LifeTypeOK
<1>4. ObserverInit => ObserverTypeOK BY ObserverBlank
<1>5. DiscoveryInit => DiscoveryTypeOK
  BY NothingListed, DiscoveryTypes DEF DiscoveryInit, DiscoveryTyped, Noticed
<1>6. ASSUME RouterInit PROVE RouterTypeOK
  <2>1. route = NoRoute /\ pilot = NoPilot /\ stayed = {} /\ couldRead = TRUE
    BY <1>6 DEF RouterInit
  <2>2. Cardinality(route.target) <= 1 BY <2>1, NoRouteTyped, AtMostOne
  <2>3. QED BY <2>1, <2>2, NoRouteTyped, RouterTypes
<1>7. DoctorInit => DoctorTypeOK
  <2>1. 0 \in 0..Batches BY BatchAssumption
  <2>2. QED BY <2>1, BlanksTyped DEF DoctorInit, DoctorTypeOK, Batched, Verdicts
<1>8. ASSUME PortInit PROVE PortTypeOK
  <2>1. /\ NoContent \in Contents /\ NoManifest \in Manifests
        /\ NoPackage \in [manifest : Manifests, payload : Contents] /\ 0 \in 0..Exports
    BY NothingTyped, ExportAssumption
  <2>2. prefix \in [session : Sessions \cup {"none"}, lines : Nat] BY <1>8 DEF PortInit
  <2>3. QED BY <1>8, <2>1, <2>2 DEF PortInit, PortTypeOK
<1>9. QED BY <1>1, <1>2, <1>3, <1>4, <1>5, <1>6, <1>7, <1>8

\* Whichever command is run beside Codex, the home, that command's variables and the
\* variables of all the others have their types in every state, for any sessions,
\* index databases and bounds: what quick_scan (discovery.py:203-383), the projection
\* check, the lifecycle graph, the observer, discover, the router, the doctor's cache
\* and the portable package keep between two of their steps.
THEOREM TypeCorrect == Spec => []TypeOK
<1>1. [Next]_vars => tool' = tool
  BY DEF Next, Quick, Parity, Life, Observe, Discover, RouteAll, Doctor, Port, Runs, vars
<1>2. Spec => []QuickTypeOK
  <2>1. Spec /\ tool = "quick" => []QuickTypeOK BY RunsTheCommands, QuickTyped, PTL
  <2>2. ~(tool = "quick") /\ [Next]_vars => ~(tool = "quick")' BY <1>1
  <2>3. Idle /\ ~(tool = "quick") => QuickTypeOK BY BlanksHaveTypes DEF Idle
  <2>4. QED BY <2>1, <2>2, <2>3, IdleStays, PTL DEF Spec
<1>3. Spec => []ParityTypeOK
  <2>1. Spec /\ tool = "parity" => []ParityTypeOK BY RunsTheCommands, ParityTyped, PTL
  <2>2. ~(tool = "parity") /\ [Next]_vars => ~(tool = "parity")' BY <1>1
  <2>3. Idle /\ ~(tool = "parity") => ParityTypeOK BY BlanksHaveTypes DEF Idle
  <2>4. QED BY <2>1, <2>2, <2>3, IdleStays, PTL DEF Spec
<1>4. Spec => []LifeTypeOK
  <2>1. Spec /\ tool = "life" => []LifeTypeOK BY RunsTheCommands, LifeTypes, PTL
  <2>2. ~(tool = "life") /\ [Next]_vars => ~(tool = "life")' BY <1>1
  <2>3. Idle /\ ~(tool = "life") => LifeTypeOK BY BlanksHaveTypes DEF Idle
  <2>4. QED BY <2>1, <2>2, <2>3, IdleStays, PTL DEF Spec
<1>5. Spec => []ObserverTypeOK
  <2>1. Spec /\ tool = "observer" => []ObserverTypeOK BY RunsTheCommands, ObserverTyped, PTL
  <2>2. ~(tool = "observer") /\ [Next]_vars => ~(tool = "observer")' BY <1>1
  <2>3. Idle /\ ~(tool = "observer") => ObserverTypeOK BY BlanksHaveTypes DEF Idle
  <2>4. QED BY <2>1, <2>2, <2>3, IdleStays, PTL DEF Spec
<1>6. Spec => []DiscoveryTypeOK
  <2>1. Spec /\ tool = "discover" => []DiscoveryTypeOK BY RunsTheCommands, ListingTyped, PTL
  <2>2. ~(tool = "discover") /\ [Next]_vars => ~(tool = "discover")' BY <1>1
  <2>3. Idle /\ ~(tool = "discover") => DiscoveryTypeOK BY BlanksHaveTypes DEF Idle
  <2>4. QED BY <2>1, <2>2, <2>3, IdleStays, PTL DEF Spec
<1>7. Spec => []RouterTypeOK
  <2>1. Spec /\ tool = "router" => []RouterTypeOK BY RunsTheCommands, RouterTyped, PTL
  <2>2. ~(tool = "router") /\ [Next]_vars => ~(tool = "router")' BY <1>1
  <2>3. Idle /\ ~(tool = "router") => RouterTypeOK BY BlanksHaveTypes DEF Idle
  <2>4. QED BY <2>1, <2>2, <2>3, IdleStays, PTL DEF Spec
<1>8. Spec => []DoctorTypeOK
  <2>1. Spec /\ tool = "doctor" => []DoctorTypeOK BY RunsTheCommands, DoctorTyped, PTL
  <2>2. ~(tool = "doctor") /\ [Next]_vars => ~(tool = "doctor")' BY <1>1
  <2>3. Idle /\ ~(tool = "doctor") => DoctorTypeOK BY BlanksHaveTypes DEF Idle
  <2>4. QED BY <2>1, <2>2, <2>3, IdleStays, PTL DEF Spec
<1>9. Spec => []PortTypeOK
  <2>1. Spec /\ tool = "port" => []PortTypeOK BY RunsTheCommands, PortTyped, PTL
  <2>2. ~(tool = "port") /\ [Next]_vars => ~(tool = "port")' BY <1>1
  <2>3. Idle /\ ~(tool = "port") => PortTypeOK BY BlanksHaveTypes DEF Idle
  <2>4. QED BY <2>1, <2>2, <2>3, IdleStays, PTL DEF Spec
<1>10. HomeTypeOK /\ QuickTypeOK /\ ParityTypeOK /\ LifeTypeOK /\ ObserverTypeOK
       /\ DiscoveryTypeOK /\ RouterTypeOK /\ DoctorTypeOK /\ PortTypeOK => TypeOK
  BY DEF TypeOK
<1>11. QED
  BY HomeTyped, <1>2, <1>3, <1>4, <1>5, <1>6, <1>7, <1>8, <1>9, <1>10, PTL

\* What the run checks of each command, said of the one that runs.
AnswersAreTrue ==
    /\ tool = "quick"    => HealthyTailIsClosed
    /\ tool = "parity"   => ParityIsTrue
    /\ tool = "life"     => GraphIsTrue
    /\ tool = "observer" => SweepIsTrue /\ LostOnlyToDrift
    /\ tool = "discover" => ListingIsTrue
    /\ tool = "router"   => RouteIsTrue /\ RepairsTheOnlyOne
    /\ tool = "doctor"   => CacheIsFaithful
    /\ tool = "port"     => CopiesAreClean

\* Whichever command reads the home, what the run checks of it holds in every state,
\* for any sessions, windows and turns: the eight commands' theorems, put together.
THEOREM EveryCommandIsTrue == Spec => []AnswersAreTrue
<1>1. [Next]_vars => tool' = tool
  BY DEF Next, Quick, Parity, Life, Observe, Discover, RouteAll, Doctor, Port, Runs, vars
<1>2. Spec => [](tool = "quick" => HealthyTailIsClosed)
  <2>1. Spec /\ tool = "quick" => []HealthyTailIsClosed
    BY RunsTheCommands, HealthyTailHolds, PTL
  <2>2. ~(tool = "quick") /\ [Next]_vars => ~(tool = "quick")'
    BY <1>1
  <2>3. QED BY <2>1, <2>2, PTL DEF Spec
<1>3. Spec => [](tool = "parity" => ParityIsTrue)
  <2>1. Spec /\ tool = "parity" => []ParityIsTrue
    BY RunsTheCommands, ParityIsTrueHolds, PTL
  <2>2. ~(tool = "parity") /\ [Next]_vars => ~(tool = "parity")'
    BY <1>1
  <2>3. QED BY <2>1, <2>2, PTL DEF Spec
<1>4. Spec => [](tool = "life" => GraphIsTrue)
  <2>1. Spec /\ tool = "life" => []GraphIsTrue
    BY RunsTheCommands, GraphIsTrueHolds, PTL
  <2>2. ~(tool = "life") /\ [Next]_vars => ~(tool = "life")'
    BY <1>1
  <2>3. QED BY <2>1, <2>2, PTL DEF Spec
<1>5. Spec => [](tool = "observer" => SweepIsTrue /\ LostOnlyToDrift)
  <2>1. Spec /\ tool = "observer" => [](SweepIsTrue /\ LostOnlyToDrift)
    BY RunsTheCommands, SweepIsTrueHolds, LostOnlyToDriftHolds, PTL
  <2>2. ~(tool = "observer") /\ [Next]_vars => ~(tool = "observer")'
    BY <1>1
  <2>3. QED BY <2>1, <2>2, PTL DEF Spec
<1>6. Spec => [](tool = "discover" => ListingIsTrue)
  <2>1. Spec /\ tool = "discover" => []ListingIsTrue
    BY RunsTheCommands, ListingIsTrueHolds, PTL
  <2>2. ~(tool = "discover") /\ [Next]_vars => ~(tool = "discover")'
    BY <1>1
  <2>3. QED BY <2>1, <2>2, PTL DEF Spec
<1>7. Spec => [](tool = "router" => RouteIsTrue /\ RepairsTheOnlyOne)
  <2>1. Spec /\ tool = "router" => [](RouteIsTrue /\ RepairsTheOnlyOne)
    BY RunsTheCommands, RouteIsTrueHolds, RepairsTheOnlyOneHolds, PTL
  <2>2. ~(tool = "router") /\ [Next]_vars => ~(tool = "router")'
    BY <1>1
  <2>3. QED BY <2>1, <2>2, PTL DEF Spec
<1>8. Spec => [](tool = "doctor" => CacheIsFaithful)
  <2>1. Spec /\ tool = "doctor" => []CacheIsFaithful
    BY RunsTheCommands, CacheIsFaithfulHolds, PTL
  <2>2. ~(tool = "doctor") /\ [Next]_vars => ~(tool = "doctor")'
    BY <1>1
  <2>3. QED BY <2>1, <2>2, PTL DEF Spec
<1>9. Spec => [](tool = "port" => CopiesAreClean)
  <2>1. Spec /\ tool = "port" => []CopiesAreClean
    BY RunsTheCommands, CopiesAreCleanHolds, PTL
  <2>2. ~(tool = "port") /\ [Next]_vars => ~(tool = "port")'
    BY <1>1
  <2>3. QED BY <2>1, <2>2, PTL DEF Spec
<1>10. /\ (tool = "quick" => HealthyTailIsClosed)
       /\ (tool = "parity" => ParityIsTrue)
       /\ (tool = "life" => GraphIsTrue)
       /\ (tool = "observer" => SweepIsTrue /\ LostOnlyToDrift)
       /\ (tool = "discover" => ListingIsTrue)
       /\ (tool = "router" => RouteIsTrue /\ RepairsTheOnlyOne)
       /\ (tool = "doctor" => CacheIsFaithful)
       /\ (tool = "port" => CopiesAreClean)
       => AnswersAreTrue
  BY DEF AnswersAreTrue
<1>11. QED
  BY <1>2, <1>3, <1>4, <1>5, <1>6, <1>7, <1>8, <1>9, <1>10, PTL
=============================================================================
