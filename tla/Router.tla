-------------------------------- MODULE Router --------------------------------
(***************************************************************************)
(* What the autopilot concludes about a home that Codex writes to.         *)
(* route_session of router.py looks for a thread's rollout by its name,    *)
(* asks the thread store about it and names the layer to blame;            *)
(* run_autopilot of autopilot.py discovers all sessions, routes each, and  *)
(* repairs one only if it is the only one to repair.                       *)
(***************************************************************************)
EXTENDS CodexHome

Aligned == {"HEALTHY_MULTISURFACE", "APP_SERVER_UNKNOWN", "DERIVED_DESKTOP_PROJECTION"}
Causes == {"none", "DERIVED_SQLITE_INDEX", "SOURCE_ROLLOUT", "NOT_FOUND"} \cup Aligned
Threads == Sessions \cup {"none"}

VARIABLES
    route,      \* the thread, the paths still to look at, target_path, fs_exists, the
                \* stores still to ask, the status of the thread store and whether one
                \* could not be read, and the root cause
    pilot,      \* whether the autopilot runs, --repair-safe, discovered_sessions, the
                \* threads still to route and the rollout repaired

    \* history, for the properties only
    stayed,     \* sessions that kept their place and their row since the start
    couldRead   \* the databases could be read since the start

kept       == <<stayed, couldRead>>
routerVars == <<route, pilot, kept>>
NoRoute == [thread |-> "none", todo |-> <<>>, target |-> {}, exists |-> FALSE,
            stores |-> <<>>, status |-> "none", error |-> FALSE, cause |-> "none"]
NoPilot == [on |-> FALSE, repair |-> FALSE, sweep |-> <<>>, found |-> {}, threads |-> {},
            target |-> {}]

RouterTypeOK ==
    /\ route \in [thread : Threads, todo : Seq(Paths), target : SUBSET Paths, exists : BOOLEAN,
                  stores : Seq(Range(Stores)),
                  status : {"none", "CONSISTENT", "DIVERGED", "UNKNOWN", "UNRECORDED"},
                  error : BOOLEAN, cause : Causes]
    /\ Cardinality(route.target) <= 1
    /\ pilot \in [on : BOOLEAN, repair : BOOLEAN, sweep : Seq(Paths),
                  found : SUBSET [path : Paths, thread : Threads],
                  threads : SUBSET Threads, target : SUBSET Paths]
    /\ stayed \subseteq Sessions /\ couldRead \in BOOLEAN

RouterInit == route = NoRoute /\ pilot = NoPilot /\ stayed = {} /\ couldRead = TRUE

Fresh == stayed' = Sessions /\ couldRead' = readable
ThreadOf(p) == ResolveThread(p.session, FALSE).thread      \* headers are not read

-----------------------------------------------------------------------------
(* route_session                                                           *)
Look(t) == route' = [NoRoute EXCEPT !.thread = t, !.todo = Sweep]

RouteStart(s) ==
    /\ pc = "idle"
    /\ Look(s) /\ pilot' = NoPilot /\ Fresh
    /\ pc' = "routeLook" /\ result' = "none"

\* A path is asked about: of a file that has no thread no more is said.
RoutePath(p) ==
    /\ pc = "idle" /\ pilot' = NoPilot /\ Fresh
    /\ route' = [NoRoute EXCEPT !.thread = IF There(p) THEN ThreadOf(p) ELSE "none",
                                !.target = {q \in {p} : There(q)}]
    /\ \/ ~There(p) /\ pc' = "routeVerdict" /\ result' = "none"
       \/ There(p) /\ ThreadOf(p) # "none" /\ pc' = "routeExists" /\ result' = "none"
       \/ There(p) /\ ThreadOf(p) = "none" /\ Answer("IDENTITY_UNKNOWN")

\* The first file that carries the thread in its name.
RouteLook ==
    /\ pc = "routeLook" /\ route.todo # <<>>
    /\ LET p == Head(route.todo) IN
       IF There(p) /\ route.thread # "none" /\ ThreadOf(p) = route.thread
       THEN route' = [route EXCEPT !.target = {p}] /\ Goto("routeExists")
       ELSE route' = [route EXCEPT !.todo = Tail(@)] /\ Goto("routeLook")
    /\ UNCHANGED <<pilot, kept>>

\* Without a file the thread store is not asked.
RouteNoFile ==
    /\ pc = "routeLook" /\ route.todo = <<>>
    /\ Goto("routeVerdict") /\ UNCHANGED routerVars

RouteExists ==
    /\ pc = "routeExists"
    /\ route' = [route EXCEPT !.exists = \E p \in route.target : There(p), !.stores = Stores]
    /\ Goto("routeStore") /\ UNCHANGED <<pilot, kept>>

\* inspect_thread_store: the row of the thread, or else one that names the file.
RowStatus(t, p) ==
    IF t \in Sessions /\ row[t] # "absent"
    THEN (CASE Relation([folder |-> row[t], session |-> t], p) = "EQUIVALENT" -> "CONSISTENT"
            [] Relation([folder |-> row[t], session |-> t], p) = "DIFFERENT"  -> "DIVERGED"
            [] OTHER                                                      -> "UNKNOWN")
    ELSE IF Windows /\ row[p.session] = p.folder THEN "CONSISTENT" ELSE "UNRECORDED"

\* A store that cannot be read, or has no such table, is passed over.
RouteStore ==
    /\ pc = "routeStore"
    /\ IF route.stores = <<>>
       THEN /\ route' = [route EXCEPT !.status = IF route.error THEN "UNKNOWN" ELSE "UNRECORDED"]
            /\ Goto("routeVerdict")
       ELSE LET d == Head(route.stores)
                status == IF readable /\ d = IndexStore
                          THEN RowStatus(route.thread, CHOOSE p \in route.target : TRUE)
                          ELSE "none"
            IN  IF status \in {"none", "UNRECORDED"}
                THEN /\ route' = [route EXCEPT !.stores = Tail(@), !.error = @ \/ ~readable]
                     /\ Goto("routeStore")
                ELSE route' = [route EXCEPT !.status = status] /\ Goto("routeVerdict")
    /\ UNCHANGED <<pilot, kept>>

RecordedUnlessUnrecorded == route.status \notin {"none", "UNRECORDED"}
                                \* mutant: a status that is not known counts as a row
\* A status that is not known counts as no row; what the app server shows is open.
Recorded == route.status \in {"CONSISTENT", "DIVERGED"}
RouteVerdict ==
    /\ pc = "routeVerdict"
    /\ \E cause \in
          CASE route.exists /\ ~Recorded  -> {"DERIVED_SQLITE_INDEX"}
            [] ~route.exists /\ Recorded  -> {"SOURCE_ROLLOUT"}
            [] ~route.exists /\ ~Recorded -> {"NOT_FOUND"}
            [] route.exists /\ Recorded   -> Aligned :
       route' = [route EXCEPT !.cause = cause]
    /\ IF pilot.on THEN Goto("pilotRoute") ELSE Answer("routed")
    /\ UNCHANGED <<pilot, kept>>

-----------------------------------------------------------------------------
(* run_autopilot                                                           *)

\* The surface: the one asked for or the only one there is; else, if there may be a
\* prompt, what the user chooses in three tries at a terminal.
Prompted(tty, answers) ==
    LET valid == {i \in 1..Len(answers) : answers[i] \in {"cli", "all"}} IN
    IF ~tty THEN "SURFACE_SELECTION_REQUIRED"
    ELSE IF valid = {} THEN "CANCELLED" ELSE answers[CHOOSE i \in valid : \A j \in valid : i <= j]
SelectSurface(asked, detected, noPrompt, tty, answers) ==
    IF asked # "auto" THEN asked
    ELSE IF Cardinality(detected) = 1 THEN CHOOSE d \in detected : TRUE
    ELSE IF detected = {} \/ noPrompt THEN "all" ELSE Prompted(tty, answers)
Surfaces ==
    {SelectSurface(asked, detected, noPrompt, tty, answers) :
        asked \in {"auto", "all", "cli"}, detected \in SUBSET {"cli", "desktop"},
        noPrompt \in BOOLEAN, tty \in BOOLEAN,
        answers \in {<<>>, <<"other", "all">>, <<"other", "other", "other">>}}

PilotStart(repair) ==
    /\ pc = "idle"
    /\ pilot' = [NoPilot EXCEPT !.on = TRUE, !.repair = repair, !.sweep = Sweep]
    /\ route' = NoRoute /\ Fresh
    /\ pc' = "pilotSelect" /\ result' = "none"

PilotSelect ==
    /\ pc = "pilotSelect"
    /\ \E surface \in Surfaces :
          IF surface \in {"SURFACE_SELECTION_REQUIRED", "CANCELLED"}
          THEN Answer(surface) ELSE Goto("pilotSweep")
    /\ UNCHANGED routerVars

\* discover_all_sessions
PilotSweep ==
    /\ pc = "pilotSweep" /\ pilot.sweep # <<>>
    /\ pilot' = [pilot EXCEPT
          !.sweep = Tail(@),
          !.found = @ \cup {[path |-> p, thread |-> ThreadOf(p)] :
                               p \in {q \in {Head(pilot.sweep)} : There(q)}}]
    /\ Goto("pilotSweep") /\ UNCHANGED <<route, kept>>

\* The surfaces' observations go into the report only.
PilotGraph ==
    /\ pc = "pilotSweep" /\ pilot.sweep = <<>>
    /\ pilot' = [pilot EXCEPT !.threads = {f.thread : f \in pilot.found}]
    /\ Goto("pilotRoute") /\ UNCHANGED <<route, kept>>

PilotRoute(t) ==
    /\ pc = "pilotRoute" /\ t \in pilot.threads
    /\ pilot' = [pilot EXCEPT !.threads = @ \ {t}]
    /\ Look(t)
    /\ Goto("routeLook") /\ UNCHANGED kept

RepairableUnrecorded ==         \* mutant: what is recorded now needs no repair
    {f.path : f \in {g \in pilot.found : g.thread \notin Sessions \/ row[g.thread] = "absent"}}
\* get_session_diff asks for three id columns no table has together and never finds
\* a row, so every session discovered is repairable, and what its route says, or
\* blocks, is not asked.
Repairable == {f.path : f \in pilot.found}
PilotRepair ==
    /\ pc = "pilotRoute" /\ pilot.threads = {}
    /\ \/ ~pilot.repair /\ Answer("INSPECTED") /\ UNCHANGED pilot
       \/ pilot.repair /\ Repairable = {} /\ Answer("NO_REPAIRABLE_TARGETS") /\ UNCHANGED pilot
       \/ /\ pilot.repair /\ Cardinality(Repairable) = 1
          /\ pilot' = [pilot EXCEPT !.target = Repairable] /\ Answer("repair")
       \/ /\ pilot.repair /\ Cardinality(Repairable) > 1
          /\ Answer("MULTIPLE_REPAIR_TARGETS") /\ UNCHANGED pilot
    /\ UNCHANGED <<route, kept>>

RouterStep ==
    /\ \/ \E s \in Sessions : RouteStart(s)
       \/ \E p \in Paths : RoutePath(p)
       \/ RouteLook \/ RouteNoFile \/ RouteExists \/ RouteStore \/ RouteVerdict
       \/ \E repair \in BOOLEAN : PilotStart(repair)
       \/ PilotSelect \/ PilotSweep \/ PilotGraph \/ PilotRepair
       \/ \E t \in pilot.threads : PilotRoute(t)
    /\ UNCHANGED home

\* A turn of Codex, as the history keeps it.
RouterWatch ==
    /\ stayed' = {s \in stayed : place'[s] = place[s] /\ row'[s] = row[s]}
    /\ couldRead' = (couldRead /\ readable')
    /\ UNCHANGED <<route, pilot>>

\* The autopilot and the router beside a Codex that takes any turn.
RouterSpec ==
    /\ HomeInit /\ pc = "idle" /\ result = "none" /\ RouterInit
    /\ [][RouterStep \/ (HomeTurn /\ RouterWatch)]_<<home, pc, result, routerVars>>

-----------------------------------------------------------------------------
Routed == result = "routed" \/ (pc = "pilotRoute" /\ route.cause # "none")
OnDisk(s) == place[s] # "nowhere"

\* Of a thread whose rollout and row Codex left alone, and whose file carries its id,
\* the truth is told: data loss is only suspected of a rollout that was found and
\* then moved or deleted under the route, the index is blamed for a row that names
\* another file, or none, or could not be read, and for no other, and what is called
\* aligned has a row that names it, or, where paths can be told apart, another.
RouteIsTrue ==
    Routed /\ route.thread \in stayed \cap named =>
       LET s == route.thread IN
       /\ route.cause # "SOURCE_ROLLOUT"
       /\ OnDisk(s) <=> route.cause # "NOT_FOUND"
       /\ route.cause = "DERIVED_SQLITE_INDEX" => row[s] # place[s] \/ ~couldRead
       /\ route.cause \in Aligned => row[s] # "absent" /\ (Windows \/ row[s] = place[s])

\* The autopilot repairs a rollout by itself only if no other one stayed in either
\* folder while it looked: a session that is moved under the sweep may go unseen.
RepairsTheOnlyOne ==
    result = "repair" =>
       \A s \in stayed : OnDisk(s) => \E p \in pilot.target : p.session = s
=============================================================================
