------------------------------ MODULE MCLiveHome ------------------------------
(***************************************************************************)
(* The read-only commands beside a Codex that goes on writing.  They write *)
(* to nothing the others read, so one behaviour runs one of them, chosen   *)
(* at the start, and only the turns of Codex it can notice are taken.      *)
(***************************************************************************)
EXTENDS QuickScan, ProjectionCheck, LifecycleCheck, Observer, Discovery, Router, DoctorCache,
        PortableSession

CONSTANTS a, b, Tools

ASSUME InstanceAssumption == a \in Sessions /\ b \in Sessions

TurnsFor ==
    [quick |-> 4, parity |-> 4, life |-> 3, observer |-> 3, discover |-> 2, router |-> 2,
     doctor |-> 3, port |-> 2]
MCSessions == {a, b}
MCStores   == <<"state", "other">>
MCHints    == [s \in Sessions |-> IF s = a THEN <<b, a>> ELSE <<a, b>>]
MCSpawned  == [s \in Sessions |-> IF s = b THEN a ELSE "none"]

VARIABLE tool
vars == <<home, pc, result, tool, quickVars, parityVars, lifeVars, observerVars, discoveryVars,
          routerVars, doctorVars, portVars>>

Line(s, k) == WriteLine(s, Record(k, 0, Len(log[s])))
CallIds(s) == {log[s][i].id : i \in {j \in DOMAIN log[s] : log[s][j].kind = "call"}}
QuickTurn ==
    \/ Line(a, "note") \/ Line(a, "bad") \/ Tear(a)
    \/ WriteLine(a, Record("call", Cardinality(CallIds(a)) + 1, Len(log[a])))
    \/ \E i \in CallIds(a) : WriteLine(a, Record("output", i, Len(log[a])))
ParityTurn ==
    \/ \E o \in {Last(log[a]).ordinal + d : d \in 0..3} : WriteLine(a, Record("note", 0, o))
    \/ Tear(a)
    \/ \E n \in 1..Len(log[a]), d \in Range(Stores) : Project(a, d, n)
    \/ SetReadable(~readable)
LifeTurn ==
    \/ Line(b, "start") \/ Line(b, "end") \/ Tear(b) \/ SetAlive(b, ~alive[b])
    \/ \E e \in {"open", "closed"} : SetEdge(b, e)
    \/ SetReadable(~readable)
    \/ Move(b, "archived_sessions")
MoveTurn(s) == (\E to \in Places : Move(s, to)) \/ Create(s)
ObserverTurn ==
    \/ MoveTurn(a) \/ WriteRow(a, place[a]) \/ Line(a, "note")
    \/ \E d \in Range(Stores) : Project(a, d, Len(log[a]))
DiscoverTurn == (\E s \in Sessions : MoveTurn(s)) \/ WriteRow(a, place[a])
RouterTurn == DiscoverTurn \/ SetReadable(~readable)
DoctorTurn ==
    \/ MoveTurn(a) \/ Line(a, "note") \/ Line(a, "bad") \/ Tear(a)
PortTurn ==
    \/ MoveTurn(a) \/ Line(a, "note") \/ Line(a, "bad") \/ Line(a, "big") \/ Tear(a)

All(x) == [s \in Sessions |-> x]
OnlyA == place[b] = "nowhere" /\ b \in named /\ claim[b] = "own"
StartIn ==
    [quick    |-> OnlyA /\ place[a] = "sessions" /\ row = All("absent"),
     parity   |-> OnlyA /\ place[a] = "sessions" /\ row = All("absent")
                  /\ named = Sessions /\ claim = All("own"),
     life     |-> place = All("sessions") /\ row = All("absent") /\ a \in named
                  /\ claim[a] = "own" /\ claim[b] \in {"own", "other", "absent"}
                  /\ edge[a] = "unrecorded",
     observer |-> OnlyA /\ named = Sessions /\ claim = All("own") /\ row[b] = "absent"
                  /\ place[a] # "archived_sessions",
     discover |-> /\ row[b] = "absent" /\ place[b] # "archived_sessions"
                  /\ \/ b \in named /\ claim = All("own")
                     \/ named = {} /\ claim = All("other"),
     router   |-> b \in named /\ claim = All("own") /\ row[b] = "absent",
     doctor   |-> OnlyA /\ named = Sessions /\ claim = All("own") /\ row = All("absent"),
     port     |-> OnlyA /\ claim[a] = "own" /\ row = All("absent")]

Init ==
    /\ HomeInit /\ pc = "idle" /\ result = "none"
    /\ QuickInit /\ ParityInit /\ LifeInit /\ ObserverInit /\ DiscoveryInit /\ RouterInit
    /\ DoctorInit /\ PortInit
    /\ tool \in Tools /\ StartIn[tool]
    /\ tool # "life" => edge = All("unrecorded")
    /\ \A d \in Range(Stores) : cursor[a][d].present <=> tool = "observer"

Bounded == turns < TurnsFor[tool]
Runs(t) == tool = t /\ UNCHANGED tool
Quick == /\ Runs("quick") /\ (QuickStep \/ (Bounded /\ QuickTurn /\ UNCHANGED quickVars))
         /\ UNCHANGED <<parityVars, lifeVars, observerVars, discoveryVars, routerVars, doctorVars,
                        portVars>>
Parity == /\ Runs("parity") /\ (ParityStep \/ (Bounded /\ ParityTurn /\ UNCHANGED parityVars))
          /\ UNCHANGED <<quickVars, lifeVars, observerVars, discoveryVars, routerVars, doctorVars,
                         portVars>>
Life == /\ Runs("life") /\ (LifeStep \/ (Bounded /\ LifeTurn /\ LifeWatch))
        /\ UNCHANGED <<quickVars, parityVars, observerVars, discoveryVars, routerVars, doctorVars,
                       portVars>>
\* One database is passed over, once.
Observe == /\ Runs("observer")
           /\ \/ ObserverStep /\ (PassOver => "skipped" \notin trouble)
              \/ Bounded /\ ObserverTurn /\ ObserverWatch
           /\ UNCHANGED <<quickVars, parityVars, lifeVars, discoveryVars, routerVars, doctorVars,
                          portVars>>
Discover == /\ Runs("discover") /\ (DiscoverStep \/ (Bounded /\ DiscoverTurn /\ DiscoverWatch))
            /\ UNCHANGED <<quickVars, parityVars, lifeVars, observerVars, routerVars, doctorVars,
                           portVars>>
RouteAll == /\ Runs("router") /\ (RouterStep \/ (Bounded /\ RouterTurn /\ RouterWatch))
            /\ UNCHANGED <<quickVars, parityVars, lifeVars, observerVars, discoveryVars,
                           doctorVars, portVars>>
Doctor == /\ Runs("doctor") /\ (DoctorStep \/ (Bounded /\ DoctorTurn /\ UNCHANGED doctorVars))
          /\ UNCHANGED <<quickVars, parityVars, lifeVars, observerVars, discoveryVars, routerVars,
                         portVars>>
Port == /\ Runs("port") /\ (PortStep \/ (Bounded /\ PortTurn /\ UNCHANGED portVars))
        /\ UNCHANGED <<quickVars, parityVars, lifeVars, observerVars, discoveryVars, routerVars,
                       doctorVars>>
Next == Quick \/ Parity \/ Life \/ Observe \/ Discover \/ RouteAll \/ Doctor \/ Port
Spec == Init /\ [][Next]_vars

TypeOK ==
    /\ HomeTypeOK /\ QuickTypeOK /\ ParityTypeOK /\ LifeTypeOK /\ ObserverTypeOK
    /\ DiscoveryTypeOK /\ RouterTypeOK /\ DoctorTypeOK /\ PortTypeOK
=============================================================================
