---------------------------- MODULE LifecycleCheck ----------------------------
(***************************************************************************)
(* build_session_graph of graph.py: the family of a session, each member   *)
(* with what lifecycle_truth.py makes of it.  A rollout says whether its   *)
(* last turn ended, a lock whether its writer lives, and a row of          *)
(* thread_spawn_edges whether the parent closed it.  The three are read    *)
(* one after the other, and Codex may change each at any time.             *)
(***************************************************************************)
EXTENDS CodexHome

CONSTANTS
    Hints,      \* the subagents a rollout names
    Spawned,    \* the parent its spawn edge names
    MaxDepth,   \* max_depth
    MaxLines    \* max_lines of a scan

ASSUME LifecycleAssumption ==
    /\ Hints \in [Sessions -> Seq(Sessions)]
    /\ Spawned \in [Sessions -> Sessions \cup {"none"}]
    /\ {MaxDepth, MaxLines} \subseteq Nat

\* What is the case with a session: its writer, its last turn and its edge.
Truths == [alive : BOOLEAN, turn : {"NON_TERMINAL", "TERMINAL", "UNKNOWN"},
           edge : {"unrecorded", "open", "closed"}]

VARIABLES
    visit,      \* the session looked at, its thread, its parent and depth, the folder the
                \* parent is in, whether the rollout was there to name subagents, what
                \* lock and rollout said, the stores still to ask, whether the edge
                \* could be read, and the class it got
    todo,       \* sessions to look for next, depth first
    nodes,      \* the members of the graph
    during      \* history: what was the case with the session since the visit began

lifeVars == <<visit, todo, nodes, during>>

Classes == {"WORKING", "DONE", "INACTIVE", "UNKNOWN"}
Ids == Sessions \cup {"none", "other"}           \* "other": a thread with no rollout here
Visits == [session : Sessions \cup {"none"}, id : Ids, parent : Ids, depth : Nat,
           folder : Places, there : BOOLEAN, alive : BOOLEAN,
           turn : {"NON_TERMINAL", "TERMINAL", "UNKNOWN"}, stores : Seq(Range(Stores)),
           edgeRead : BOOLEAN, class : Classes \cup {"none"}]
NoVisit == [session |-> "none", id |-> "none", parent |-> "none", depth |-> 0,
            folder |-> "nowhere", there |-> FALSE, alive |-> FALSE, turn |-> "UNKNOWN",
            stores |-> <<>>, edgeRead |-> FALSE, class |-> "none"]
Nodes   == [session : Sessions, parent : Ids, depth : Nat]

LifeTypeOK ==
    /\ visit \in Visits
    /\ todo \in Seq([session : Sessions, parent : Ids, depth : Nat, folder : Places])
    /\ \A n \in nodes : n \in Nodes
    /\ during \subseteq Truths

LifeInit == visit = NoVisit /\ todo = <<>> /\ nodes = {} /\ during = {}

\* scan_durable_lifecycle: the last marker counts; what cannot be read to its end,
\* or has as many lines as the limit, is unknown.
Markers(l) == SelectSeq(l, LAMBDA r : r.kind \in {"start", "end"})
LastTurn(s) ==
    LET m == Markers(log[s]) IN
    IF m = <<>> THEN "UNKNOWN"
    ELSE IF Last(m).kind = "start" THEN "NON_TERMINAL" ELSE "TERMINAL"
Scannable(s) ==
    ~torn[s] /\ Len(log[s]) < MaxLines /\ \A i \in 1..Len(log[s]) : log[s][i].kind # "bad"
DurableStateFirst(s) ==                       \* mutant: the first marker counts
    IF Scannable(s) /\ Markers(log[s]) # <<>>
    THEN (IF Markers(log[s])[1].kind = "start" THEN "NON_TERMINAL" ELSE "TERMINAL") ELSE "UNKNOWN"
DurableState(s) == IF Scannable(s) THEN LastTurn(s) ELSE "UNKNOWN"

Truth(s) == [alive |-> alive[s], turn |-> LastTurn(s), edge |-> edge[s]]

ClassRolloutFirst(turn, live, status) ==      \* mutant: the rollout outranks the edge
    IF turn = "TERMINAL" THEN "DONE"
    ELSE IF live THEN "WORKING" ELSE IF status = "closed" THEN "INACTIVE" ELSE "UNKNOWN"
\* classify_subagent_lifecycle: a dead or missing writer is never taken for proof.
Class(turn, live, status) ==
    CASE status = "closed"                       -> IF live THEN "UNKNOWN" ELSE "INACTIVE"
      [] status # "closed" /\ live               ->
            IF turn = "NON_TERMINAL" THEN "WORKING" ELSE "UNKNOWN"
      [] status # "closed" /\ ~live              ->
            IF turn = "TERMINAL" THEN "DONE" ELSE "UNKNOWN"

-----------------------------------------------------------------------------
Visit(s, parent, depth, folder) ==
    /\ visit' = [NoVisit EXCEPT !.session = s, !.parent = parent, !.depth = depth,
                                !.folder = folder]
    /\ during' = {Truth(s)}

GraphStart(s) ==
    /\ pc = "idle" /\ place[s] # "nowhere"
    /\ Visit(s, "none", 0, place[s])
    /\ todo' = <<>> /\ nodes' = {}
    /\ pc' = "lifeEvidence" /\ result' = "none"

\* _attach_children: a subagent is looked for once, in its parent's folder.
Unseen(t) == t.session \notin {n.session : n \in nodes}
NextChild ==
    /\ pc = "lifeNext" /\ todo # <<>>
    /\ LET t == Head(todo)
           found == Unseen(t) /\ t.session \in named /\ place[t.session] = t.folder
       IN  IF found
           THEN Visit(t.session, t.parent, t.depth, t.folder) /\ Goto("lifeEvidence")
           ELSE UNCHANGED <<visit, during>> /\ Goto("lifeNext")
    /\ todo' = Tail(todo)
    /\ UNCHANGED nodes

\* collect_session_evidence: the rollout for its identity and the subagents it
\* names, then the lock.  A child whose rollout claims another id is left out, the
\* root is not; its parent is whichever its own rollout names.
LifeEvidence ==
    /\ pc = "lifeEvidence"
    /\ LET s     == visit.session
           there == place[s] = visit.folder
           id    == ResolveThread(s, there).thread
       IN  /\ \E parent \in IF visit.depth = 0 /\ there THEN {"none", Spawned[s], "other"}
                                                         ELSE {visit.parent} :
                /\ visit' = [visit EXCEPT !.id = id, !.parent = parent, !.there = there,
                                          !.alive = alive[s]]
           /\ Goto(IF visit.depth = 0 \/ id = s THEN "lifeScan" ELSE "lifeNext")
    /\ UNCHANGED <<todo, nodes, during>>

LifeScan ==
    /\ pc = "lifeScan"
    /\ visit' = [visit EXCEPT
          !.turn = IF place[visit.session] = visit.folder
                   THEN DurableState(visit.session) ELSE "UNKNOWN",
          !.stores = Stores]
    /\ Goto("lifeEdge")
    /\ UNCHANGED <<todo, nodes, during>>

Children ==
    LET s == visit.session IN
    IF visit.depth >= MaxDepth \/ ~visit.there THEN <<>>
    ELSE [i \in DOMAIN Hints[s] |-> [session |-> Hints[s][i], parent |-> visit.id,
                                     depth |-> visit.depth + 1, folder |-> visit.folder]]

\* inspect_thread_spawn_edge, of a thread that is known: an unreadable store, or one
\* without the table, is passed over; the first with it decides.
EdgeStatus(d) ==
    LET s == visit.session IN
    IF visit.id = "none" THEN "unknown"
    ELSE IF ~readable \/ d # IndexStore THEN "next"
    ELSE IF visit.id # s \/ edge[s] = "unrecorded" THEN "unrecorded"
    ELSE IF visit.parent \notin {"none", Spawned[s]} THEN "unknown"
    ELSE edge[s]

LifeEdge ==
    /\ pc = "lifeEdge"
    /\ LET status == IF visit.stores = <<>> THEN "unknown" ELSE EdgeStatus(Head(visit.stores))
       IN  \/ /\ status = "next"
              /\ visit' = [visit EXCEPT !.stores = Tail(@)]
              /\ Goto("lifeEdge") /\ UNCHANGED <<todo, nodes>>
           \/ /\ status # "next"
              /\ visit' = [visit EXCEPT
                    !.edgeRead = status # "unknown" /\ visit.id = visit.session,
                    !.class = Class(visit.turn, visit.alive, status)]
              /\ nodes' = nodes \cup
                    {[session |-> visit.session, parent |-> visit.parent,
                      depth |-> visit.depth]}
              /\ todo' = Children \o todo
              /\ Goto("lifeNext")
    /\ UNCHANGED during

LifeDone ==
    /\ pc = "lifeNext" /\ todo = <<>>
    /\ Answer("graph")
    /\ UNCHANGED lifeVars

LifeStep ==
    /\ \/ \E s \in Sessions : GraphStart(s)
       \/ NextChild \/ LifeEvidence \/ LifeScan \/ LifeEdge \/ LifeDone
    /\ UNCHANGED home

\* A turn of Codex during a visit adds to what was the case.
LifeWatch ==
    /\ UNCHANGED <<visit, todo, nodes>>
    /\ during' = IF visit.session = "none" THEN during
                 ELSE during \cup {Truth(visit.session)'}

\* The command beside a Codex that takes any turn.
GraphSpec ==
    /\ HomeInit /\ pc = "idle" /\ result = "none" /\ LifeInit
    /\ [][LifeStep \/ (HomeTurn /\ LifeWatch)]_<<home, pc, result, lifeVars>>

-----------------------------------------------------------------------------
Always(P(_)) == \A t \in during : P(t)
Once(P(_))   == \E t \in during : P(t)
IsClosed(t)  == t.edge = "closed"
IsWorking(t) == t.alive /\ t.turn = "NON_TERMINAL" /\ ~IsClosed(t)

\* However the lock, the rollout and the edge change while they are read in turn:
\* a member shown as working had a live writer and an open turn at some time of the
\* visit, one shown as done had ended a turn, one shown as inactive was closed; one
\* that was closed, or was working, all the time is never shown as the contrary,
\* closed ones provided their edge could be read: the code takes an edge it could
\* not read for one that is not closed.  No member is shown twice or too deep.
GraphIsTrue ==
    /\ pc = "lifeNext" =>
          /\ visit.class = "WORKING" =>
                /\ Once(LAMBDA t : t.alive)
                /\ Once(LAMBDA t : t.turn = "NON_TERMINAL")
          /\ visit.class = "DONE" => Once(LAMBDA t : t.turn = "TERMINAL")
          /\ visit.class = "INACTIVE" => Once(IsClosed)
          /\ visit.edgeRead /\ Always(IsClosed) => visit.class \in {"INACTIVE", "UNKNOWN"}
          /\ Always(IsWorking) => visit.class \in {"none", "WORKING", "UNKNOWN"}
    /\ \A m, n \in nodes : m.session = n.session => m = n
    /\ \A n \in nodes : n.depth <= MaxDepth
=============================================================================
