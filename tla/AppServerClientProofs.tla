----------------------- MODULE AppServerClientProofs -----------------------
(* What holds of AppServerClient for any threads, pipes and bounds. *)
EXTENDS AppServerClient, FiniteSetTheorems, TLAPS

-----------------------------------------------------------------------------
(* The inductive invariant.                                                *)

Registering == {d \in Callers : pc[d] = "register"}

\* The bound on requests counts the calls that have not taken their id yet.
Bounded ==
    /\ IsFiniteSet(Registering)
    /\ requestId + Cardinality(Registering) <= MaxRequests

\* The requests that were sent and whose answer the reader has not routed.
Travelling(r) == r \in Requests /\ (Holds(stdin, r) \/ r \in owed \/ Holds(stdout, r))

\* The callers whose request has an id and is not finished.
Pending(c) == pc[c] = "write" \/ Waiting(c)

IdsAreIssued ==
    /\ DOMAIN events \subseteq 1..requestId
    /\ DOMAIN responses \subseteq 1..requestId
    /\ \A c \in Callers : current[c] <= requestId
    /\ \A r \in Requests : Travelling(r) => r.id <= requestId
    /\ \A i \in Ids : i > requestId => outcome[i] = "none"

\* No two callers have the same id, and a pending one owns its event.
IdsAreOwn ==
    /\ \A c, d \in Callers : current[c] = current[d] /\ current[c] # 0 => c = d
    /\ \A c \in Callers : Pending(c) =>
          current[c] > 0 /\ current[c] \in DOMAIN events /\ events[current[c]] = c

\* An id is on the way in one place only.
UniqueIn(seq) ==
    \A j, k \in 1..Len(seq) :
        seq[j] \in Requests /\ seq[k] \in Requests /\ seq[j].id = seq[k].id => j = k

SentOnce ==
    /\ UniqueIn(stdin)
    /\ UniqueIn(stdout)
    /\ \A r, s \in Requests : r.id = s.id =>
          /\ r \in owed /\ s \in owed => r = s
          /\ ~(Holds(stdin, r) /\ s \in owed)
          /\ ~(Holds(stdin, r) /\ Holds(stdout, s))
          /\ ~(r \in owed /\ Holds(stdout, s))

\* What is on the way or stored for a caller's id is that caller's.
AnswersAreOwn ==
    \A c \in Callers :
        /\ \A r \in Requests : Travelling(r) /\ r.id = current[c] => r.caller = c
        /\ current[c] \in DOMAIN responses => responses[current[c]] = c

\* What is on the way is unanswered, and either awaited or given up.
Unanswered ==
    \A r \in Requests : Travelling(r) =>
        /\ r.id \notin DOMAIN responses
        /\ r.id \in DOMAIN events =>
              /\ Waiting(events[r.id]) /\ current[events[r.id]] = r.id
        /\ r.id \notin DOMAIN events => outcome[r.id] \in {"timeout", "exited"}

NotYetSent ==
    \A c \in Callers : pc[c] = "write" =>
        /\ current[c] \notin DOMAIN responses
        /\ \A r \in Requests : Travelling(r) => r.id # current[c]

\* An answer stored for a waiting request has set its event.
NoLostWakeup ==
    \A c \in Callers : Waiting(c) /\ c \notin signalled => current[c] \notin DOMAIN responses

\* A caller woken without an answer, already before it waits.
WokenByTheEnd ==
    \A c \in Callers :
        Pending(c) /\ c \in signalled /\ current[c] \notin DOMAIN responses
            => reader = "stopped"

\* A request that is not finished has not ended.
PendingUnended == \A c \in Callers : Pending(c) => outcome[current[c]] = "none"

ReaderGone == reader \in {"waking", "stopped"} => ~running

IInv ==
    /\ TypeOK /\ Bounded
    /\ IdsAreIssued /\ IdsAreOwn /\ SentOnce
    /\ AnswersAreOwn /\ Unanswered /\ NotYetSent
    /\ NoLostWakeup /\ WokenByTheEnd /\ ReaderGone
    /\ LeftoversAreAbandoned /\ PendingUnended

-----------------------------------------------------------------------------
(* Types, and the bound on requests.                                       *)

USE AppServerAssumption

\* A line of the server's own is not an answer, and the refusal not a request.
LEMMA LinesDiffer ==
    /\ \A r \in Requests : r \notin Noise /\ r # Refusal
    /\ \A n \in Noise : n \notin Requests
    /\ Refusal \notin Requests
<1>1. \A r \in Requests : DOMAIN r = {"id", "caller"}
  BY DEF Requests
<1>2. \A n \in Noise : DOMAIN n = {"noise"}
  BY DEF Noise
<1>3. DOMAIN Refusal = {"noise"}
  BY DEF Refusal
<1>4. {"id", "caller"} # {"noise"}
  OBVIOUS
<1>5. QED
  BY <1>1, <1>2, <1>3, <1>4

\* A call takes its place under the bound before it takes its id.
LEMMA BoundedStep == ASSUME TypeOK, Bounded, [Next]_vars PROVE Bounded'
<1> USE DEF Bounded, Registering
<1>0. Cardinality(Registering) \in Nat
  BY FS_CardinalityType
<1>1. ASSUME NEW c \in Callers, Call(c) PROVE Bounded'
  <2>1. Registering' = Registering \cup {c} /\ c \notin Registering
    BY <1>1 DEF Call, Goto, TypeOK
  <2>2. /\ IsFiniteSet(Registering \cup {c})
        /\ Cardinality(Registering \cup {c}) = Cardinality(Registering) + 1
    BY <2>1, FS_AddElement
  <2>3. requestId' = requestId /\ requestId + Cardinality(Registering) < MaxRequests
    BY <1>1 DEF Call, table
  <2>4. requestId \in Nat
    BY DEF TypeOK
  <2> HIDE DEF Registering
  <2>5. QED
    BY <1>0, <2>1, <2>2, <2>3, <2>4
<1>2. ASSUME NEW c \in Callers, Register(c) PROVE Bounded'
  <2>1. Registering' = Registering \ {c} /\ c \in Registering
    BY <1>2 DEF Register, Goto, TypeOK
  <2>2. /\ IsFiniteSet(Registering \ {c})
        /\ Cardinality(Registering \ {c}) = Cardinality(Registering) - 1
    BY <2>1, FS_RemoveElement
  <2>3. requestId' = requestId + 1
    BY <1>2 DEF Register, NextId
  <2>4. requestId \in Nat
    BY DEF TypeOK
  <2> HIDE DEF Registering
  <2>5. QED
    BY <1>0, <2>1, <2>2, <2>3, <2>4
<1>3. ASSUME UNCHANGED <<requestId, pc>> PROVE Bounded'
  BY <1>3
<1>4. ASSUME NEW c \in Callers, Write(c) \/ Wait(c) \/ Collect(c) PROVE Bounded'
  <2>1. Registering' = Registering
    BY <1>4 DEF Write, Wait, Collect, Goto, Return, TypeOK
  <2>2. requestId' = requestId
    BY <1>4 DEF Write, Wait, Collect, table
  <2> HIDE DEF Registering
  <2>3. QED
    BY <2>1, <2>2
<1>5. CASE ReaderStep \/ Close \/ Server \/ UNCHANGED vars
  BY <1>5, <1>3 DEF ReaderStep, CheckRunning, ReadLine, ReadEof, Reply, StopRunning, WakeAll,
     Close, Server, vars, table, callerVars
<1>6. QED
  BY <1>1, <1>2, <1>4, <1>5 DEF Next, CallerStep

\* A registering thread finds an id left under the bound.
LEMMA IdLeft ==
    ASSUME TypeOK, Bounded, NEW c \in Callers, pc[c] = "register"
    PROVE  NextId \in Ids /\ NextId = requestId + 1
<1>1. c \in Registering
  BY DEF Registering
<1>2. Cardinality(Registering) \in Nat /\ Cardinality(Registering \ {c}) \in Nat
      /\ Cardinality(Registering \ {c}) = Cardinality(Registering) - 1
  BY <1>1, FS_RemoveElement, FS_CardinalityType DEF Bounded
<1>3. QED
  BY <1>2 DEF Bounded, TypeOK, NextId, Ids

\* A pending request's id is one of the bounded ids.
LEMMA PendingId ==
    ASSUME TypeOK, IdsAreOwn, NEW c \in Callers, Pending(c)
    PROVE  current[c] \in Ids /\ [id |-> current[c], caller |-> c] \in Requests
BY DEF TypeOK, IdsAreOwn, Ids, Requests

\* The pipes hold lines of the kinds listed, and never more than fit.
LEMMA PipesStep ==
    ASSUME TypeOK, IdsAreOwn, [Next]_vars
    PROVE  /\ stdin' \in Seq(Requests \cup {Refusal}) /\ Len(stdin') <= PipeCapacity
           /\ stdout' \in Seq(Requests \cup Noise) /\ Len(stdout') <= PipeCapacity
           /\ owed' \subseteq Requests
<1> USE DEF TypeOK
<1>1. ASSUME NEW c \in Callers, Write(c)
      PROVE  /\ stdin' \in Seq(Requests \cup {Refusal}) /\ Len(stdin') <= PipeCapacity
             /\ UNCHANGED <<stdout, owed>>
  <2>1. [id |-> current[c], caller |-> c] \in Requests
    BY <1>1, PendingId DEF Write, Pending
  <2>2. UNCHANGED <<stdout, owed>>
    BY <1>1 DEF Write, serverVars
  <2>3. CASE UNCHANGED stdin
    BY <2>2, <2>3
  <2>4. CASE /\ stdin' = Append(stdin, [id |-> current[c], caller |-> c])
             /\ Len(stdin) < PipeCapacity
    BY <2>1, <2>2, <2>4
  <2>5. QED
    BY <2>3, <2>4, <1>1 DEF Write, HasRoom
<1>2. CASE Reply
  BY <1>2 DEF Reply, HasRoom, serverVars
<1>3. CASE ReadLine
  BY <1>3 DEF ReadLine, serverVars
<1>4. CASE ServerRead /\ UNCHANGED stdinOpen
  <2>1. Head(stdin) \in Requests \cup {Refusal}
    BY <1>4 DEF ServerRead
  <2>2. owed' \subseteq Requests
    BY <2>1, <1>4 DEF ServerRead
  <2>3. stdin' = Tail(stdin) /\ stdin # <<>> /\ UNCHANGED stdout
    BY <1>4 DEF ServerRead
  <2>4. QED
    BY <2>2, <2>3
<1>5. ASSUME NEW line \in Requests \cup Noise, Emit(line)
      PROVE  /\ stdout' \in Seq(Requests \cup Noise) /\ Len(stdout') <= PipeCapacity
             /\ UNCHANGED stdin
  BY <1>5 DEF Emit
<1>6. CASE ServerAnswer \/ ServerNoise \/ ServerEnd
  BY <1>5, <1>6 DEF ServerAnswer, ServerNoise, ServerEnd
<1>7. ASSUME UNCHANGED <<stdin, stdout, owed>>
      PROVE  /\ stdin' \in Seq(Requests \cup {Refusal}) /\ Len(stdin') <= PipeCapacity
             /\ stdout' \in Seq(Requests \cup Noise) /\ Len(stdout') <= PipeCapacity
             /\ owed' \subseteq Requests
  BY <1>7
<1>8. ASSUME NEW c \in Callers, Call(c) \/ Register(c) \/ Wait(c) \/ Collect(c)
      PROVE  UNCHANGED <<stdin, stdout, owed>>
  BY <1>8 DEF Call, Register, Wait, Collect, serverVars
<1>9. ASSUME CheckRunning \/ ReadEof \/ StopRunning \/ WakeAll \/ Close \/ UNCHANGED vars
      PROVE  UNCHANGED <<stdin, stdout, owed>>
  BY <1>9 DEF CheckRunning, ReadEof, StopRunning, WakeAll, Close, vars, serverVars
<1>10. QED
  BY <1>1, <1>2, <1>3, <1>4, <1>6, <1>7, <1>8, <1>9 DEF Next, CallerStep, ReaderStep, Server

LEMMA TypeStep ==
    ASSUME TypeOK, Bounded, IdsAreOwn, [Next]_vars PROVE TypeOK'
<1> USE DEF TypeOK, Goto, Return, table, callerVars, serverVars
<1>0. /\ stdin' \in Seq(Requests \cup {Refusal}) /\ Len(stdin') <= PipeCapacity
      /\ stdout' \in Seq(Requests \cup Noise) /\ Len(stdout') <= PipeCapacity
      /\ owed' \subseteq Requests
  BY PipesStep
<1>1. ASSUME NEW c \in Callers, Call(c) PROVE TypeOK'
  BY <1>0, <1>1 DEF Call
<1>2. ASSUME NEW c \in Callers, Register(c) PROVE TypeOK'
  <2>1. requestId' \in 0..MaxRequests /\ current' \in [Callers -> 0..MaxRequests]
    BY <1>2, IdLeft DEF Register, Ids
  <2>2. /\ DOMAIN events' \subseteq Ids
        /\ \A i \in DOMAIN events' : events'[i] \in Callers
    <3>1. events' = Put(events, NextId, c) /\ NextId \in Ids
      BY <1>2, IdLeft DEF Register
    <3>2. QED
      BY <3>1 DEF Put
  <2>3. QED
    BY <1>0, <2>1, <2>2, <1>2 DEF Register, FreshEvent
<1>3. ASSUME NEW c \in Callers, Write(c) PROVE TypeOK'
  <2>1. current[c] \in Ids
    BY <1>3, PendingId DEF Write, Pending
  <2>2. outcome' \in [Ids -> Outcomes] /\ pc' \in [Callers ->
            {"idle", "register", "write", "wait", "collectSignalled", "collectTimedOut"}]
    BY <2>1, <1>3 DEF Write, Outcomes
  <2>3. QED
    BY <1>0, <2>2, <1>3 DEF Write
<1>4. ASSUME NEW c \in Callers, Wait(c) PROVE TypeOK'
  BY <1>0, <1>4 DEF Wait
<1>5. ASSUME NEW c \in Callers, Collect(c) PROVE TypeOK'
  <2>1. current[c] \in Ids
    BY <1>5, PendingId DEF Collect, Pending, Waiting
  <2>2. outcome' \in [Ids -> Outcomes] /\ pc' \in [Callers ->
            {"idle", "register", "write", "wait", "collectSignalled", "collectTimedOut"}]
    BY <2>1, <1>5 DEF Collect, Outcomes, Result, Failure
  <2>3. responses' = Pop(responses, current[c]) /\ events' = Pop(events, current[c])
    BY <1>5 DEF Collect, ForgetEvent
  <2>4. QED
    <3>1. /\ DOMAIN events' \subseteq Ids
          /\ \A i \in DOMAIN events' : events'[i] \in Callers
      BY <2>3 DEF Pop
    <3>2. /\ DOMAIN responses' \subseteq Ids
          /\ \A i \in DOMAIN responses' : responses'[i] \in Callers
      BY <2>3 DEF Pop
    <3>3. QED
      BY <1>0, <2>2, <3>1, <3>2, <1>5 DEF Collect
<1>6. CASE ReadLine
  <2>1. CASE Head(stdout) \in Noise
    BY <1>0, <1>6, <2>1 DEF ReadLine
  <2>2. CASE Head(stdout) \notin Noise
    <3>1. Head(stdout) \in Requests
      BY <1>6, <2>2 DEF ReadLine
    <3>2. Head(stdout).id \in Ids /\ Head(stdout).caller \in Callers
      BY <3>1 DEF Requests
    <3>3. responses' = Put(responses, Head(stdout).id, Head(stdout).caller)
      BY <1>6, <2>2 DEF ReadLine, Route
    <3>4. /\ DOMAIN responses' \subseteq Ids
          /\ \A i \in DOMAIN responses' : responses'[i] \in Callers
      BY <3>2, <3>3 DEF Put
    <3>5. signalled' \subseteq Callers /\ reader' = "loop"
      BY <1>6, <2>2 DEF ReadLine, Route, Woken
    <3>6. QED
      BY <1>0, <3>4, <3>5, <1>6 DEF ReadLine
  <2>3. QED
    BY <2>1, <2>2
<1>7. CASE CheckRunning \/ ReadEof \/ Reply \/ StopRunning
  BY <1>0, <1>7 DEF CheckRunning, ReadEof, Reply, StopRunning
<1>8. CASE WakeAll
  BY <1>0, <1>8 DEF WakeAll
<1>9. CASE Close
  BY <1>0, <1>9 DEF Close
<1>10. CASE Server
  <2>1. noise' \in 0..MaxNoise
    <3>1. CASE ServerNoise
      BY <3>1 DEF ServerNoise
    <3>2. CASE ServerRead \/ ServerAnswer \/ ServerEnd
      BY <3>2 DEF ServerRead, ServerAnswer, ServerEnd
    <3>3. QED
      BY <3>1, <3>2, <1>10 DEF Server
  <2>2. stdoutOpen' \in BOOLEAN /\ exited' \in BOOLEAN
    <3>1. CASE ServerEnd
      BY <3>1 DEF ServerEnd
    <3>2. CASE ServerRead \/ ServerAnswer \/ ServerNoise
      BY <3>2 DEF ServerRead, ServerAnswer, ServerNoise, Emit
    <3>3. QED
      BY <3>1, <3>2, <1>10 DEF Server
  <2>3. QED
    BY <1>0, <2>1, <2>2, <1>10 DEF Server
<1>11. CASE UNCHANGED vars
  BY <1>0, <1>11 DEF vars
<1>12. QED
  BY <1>1, <1>2, <1>3, <1>4, <1>5, <1>6, <1>7, <1>8, <1>9, <1>10, <1>11
  DEF Next, CallerStep, ReaderStep

-----------------------------------------------------------------------------
(* Lines on the way.                                                       *)

LEMMA HoldsAppend ==
    ASSUME NEW S, NEW seq \in Seq(S), NEW e \in S, NEW line
    PROVE  Holds(Append(seq, e), line) <=> Holds(seq, line) \/ line = e
<1>1. /\ Len(Append(seq, e)) = Len(seq) + 1 /\ Len(seq) \in Nat
      /\ \A k \in 1..Len(seq) : Append(seq, e)[k] = seq[k]
      /\ Append(seq, e)[Len(seq) + 1] = e
  OBVIOUS
<1>2. QED
  BY <1>1 DEF Holds

LEMMA HoldsTail ==
    ASSUME NEW S, NEW seq \in Seq(S), seq # <<>>, NEW line
    PROVE  /\ Holds(Tail(seq), line) => Holds(seq, line)
           /\ Holds(seq, Head(seq))
<1>1. /\ Len(Tail(seq)) = Len(seq) - 1 /\ Len(seq) \in Nat \ {0}
      /\ \A k \in 1..Len(seq) - 1 : Tail(seq)[k] = seq[k + 1]
      /\ Head(seq) = seq[1]
  OBVIOUS
<1>2. QED
  BY <1>1 DEF Holds

LEMMA UniqueAppend ==
    ASSUME NEW S, NEW seq \in Seq(S), NEW e \in S, UniqueIn(seq),
           \A r \in Requests : Holds(seq, r) /\ e \in Requests => r.id # e.id
    PROVE  UniqueIn(Append(seq, e))
<1>1. /\ Len(Append(seq, e)) = Len(seq) + 1 /\ Len(seq) \in Nat
      /\ \A k \in 1..Len(seq) : Append(seq, e)[k] = seq[k]
      /\ Append(seq, e)[Len(seq) + 1] = e
  OBVIOUS
<1>2. \A k \in 1..Len(seq) : seq[k] \in Requests /\ e \in Requests => seq[k].id # e.id
  BY DEF Holds
<1>3. QED
  BY <1>1, <1>2 DEF UniqueIn

LEMMA UniqueTail ==
    ASSUME NEW S, NEW seq \in Seq(S), seq # <<>>, UniqueIn(seq)
    PROVE  /\ UniqueIn(Tail(seq))
           /\ Head(seq) \in Requests =>
                 \A r \in Requests : Holds(Tail(seq), r) => r.id # Head(seq).id
<1>1. /\ Len(Tail(seq)) = Len(seq) - 1 /\ Len(seq) \in Nat \ {0}
      /\ \A k \in 1..Len(seq) - 1 : Tail(seq)[k] = seq[k + 1]
      /\ Head(seq) = seq[1]
  OBVIOUS
<1>2. QED
  BY <1>1 DEF Holds, UniqueIn

\* A request is written once, and from then on only moves or is taken away.
LEMMA WriteTravels ==
    ASSUME TypeOK, IdsAreOwn, NEW c \in Callers, Write(c)
    PROVE  \/ Return(c, "writeFailed") /\ UNCHANGED <<stdin, owed, stdout>>
           \/ /\ pc[c] = "write" /\ pc' = [pc EXCEPT ![c] = "wait"]
              /\ [id |-> current[c], caller |-> c] \in Requests
              /\ \A r : Holds(stdin', r) <=>
                           Holds(stdin, r) \/ r = [id |-> current[c], caller |-> c]
              /\ UNCHANGED <<owed, stdout, outcome>>
              /\ stdin' = Append(stdin, [id |-> current[c], caller |-> c])
<1>1. [id |-> current[c], caller |-> c] \in Requests
  BY PendingId DEF Write, Pending
<1>2. UNCHANGED <<owed, stdout>>
  BY DEF Write, serverVars
<1>3. CASE Return(c, "writeFailed") /\ UNCHANGED stdin
  BY <1>2, <1>3
<1>4. CASE /\ stdin' = Append(stdin, [id |-> current[c], caller |-> c])
           /\ Goto(c, "wait") /\ UNCHANGED outcome
  <2>1. stdin \in Seq(Requests \cup {Refusal})
    BY DEF TypeOK
  <2>2. \A r : Holds(stdin', r) <=>
                  Holds(stdin, r) \/ r = [id |-> current[c], caller |-> c]
    BY <1>1, <1>4, <2>1, HoldsAppend
  <2>3. QED
    BY <1>1, <1>2, <1>4, <2>2 DEF Write, Goto
<1>5. QED
  BY <1>3, <1>4 DEF Write

\* The routed line leaves the pipe; nothing else changes place.
LEMMA ReadLineTravels ==
    ASSUME TypeOK, SentOnce, ReadLine
    PROVE  /\ UNCHANGED <<stdin, owed>>
           /\ Head(stdout) \in Requests \cup Noise
           /\ \A r : Holds(stdout', r) => Holds(stdout, r)
           /\ Holds(stdout, Head(stdout))
           /\ UniqueIn(stdout')
           /\ Head(stdout) \in Requests =>
                 \A r \in Requests : Holds(stdout', r) => r.id # Head(stdout).id
<1>1. stdout \in Seq(Requests \cup Noise) /\ stdout # <<>> /\ stdout' = Tail(stdout)
  BY DEF ReadLine, TypeOK
<1>2. UNCHANGED <<stdin, owed>>
  BY DEF ReadLine, serverVars
<1>3. Head(stdout) \in Requests \cup Noise
  BY <1>1
<1>4. QED
  BY <1>1, <1>2, <1>3, HoldsTail, UniqueTail DEF SentOnce

LEMMA ServerTravels ==
    ASSUME TypeOK, SentOnce, Server
    PROVE  SentOnce' /\ \A r : Travelling(r)' => Travelling(r)
<1> USE DEF SentOnce, Travelling
<1>0. /\ stdin \in Seq(Requests \cup {Refusal}) /\ stdout \in Seq(Requests \cup Noise)
      /\ owed \subseteq Requests
  BY DEF TypeOK
<1>1. CASE ServerRead
  <2>1. /\ stdin # <<>> /\ stdin' = Tail(stdin) /\ UNCHANGED stdout
        /\ owed' = IF Head(stdin) = Refusal THEN owed ELSE owed \cup {Head(stdin)}
    BY <1>1 DEF ServerRead
  <2>2. Head(stdin) \in Requests \cup {Refusal}
    BY <1>0, <2>1
  <2>3. /\ \A r : Holds(stdin', r) => Holds(stdin, r)
        /\ Holds(stdin, Head(stdin))
        /\ UniqueIn(stdin')
        /\ Head(stdin) \in Requests =>
                 \A r \in Requests : Holds(stdin', r) => r.id # Head(stdin).id
    BY <1>0, <2>1, HoldsTail, UniqueTail
  <2>4. PICK h \in Requests \cup {Refusal} : h = Head(stdin)
    BY <2>2
  <2>5. CASE h = Refusal
    BY <2>1, <2>3, <2>4, <2>5
  <2>6. CASE h \in Requests /\ h # Refusal
    BY <2>1, <2>3, <2>4, <2>6
  <2>7. QED
    BY <2>4, <2>5, <2>6
<1>2. CASE ServerAnswer
  <2>1. PICK a \in owed : Emit(a) /\ owed' = owed \ {a}
    BY <1>2 DEF ServerAnswer
  <2>2. a \in Requests /\ UNCHANGED stdin /\ stdout' = Append(stdout, a)
    BY <1>0, <2>1 DEF Emit
  <2>3. \A r : Holds(stdout', r) <=> Holds(stdout, r) \/ r = a
    BY <1>0, <2>2, HoldsAppend
  <2>4. \A r \in Requests : Holds(stdout, r) => r.id # a.id
    BY <2>1, <2>2
  <2>5. UniqueIn(stdout')
    BY <1>0, <2>2, <2>4, UniqueAppend
  <2>6. QED
    BY <2>1, <2>2, <2>3, <2>5
<1>3. CASE ServerNoise
  <2>1. PICK n \in Noise : Emit(n)
    BY <1>3 DEF ServerNoise
  <2>2. UNCHANGED <<stdin, owed>> /\ stdout' = Append(stdout, n) /\ n \notin Requests
    BY <1>3, <2>1, LinesDiffer DEF Emit, ServerNoise
  <2>3. \A r : Holds(stdout', r) <=> Holds(stdout, r) \/ r = n
    BY <1>0, <2>2, HoldsAppend
  <2>5. UniqueIn(stdout')
    BY <1>0, <2>2, UniqueAppend
  <2>6. QED
    BY <2>2, <2>3, <2>5
<1>4. CASE ServerEnd
  BY <1>4 DEF ServerEnd
<1>5. QED
  BY <1>1, <1>2, <1>3, <1>4 DEF Server

\* The refusal of a server request carries no id.
LEMMA ReplyTravels ==
    ASSUME TypeOK, SentOnce, Reply
    PROVE  SentOnce' /\ \A r : Travelling(r)' => Travelling(r)
<1> USE DEF SentOnce, Travelling
<1>1. UNCHANGED <<owed, stdout>>
  BY DEF Reply, serverVars
<1>2. CASE UNCHANGED stdin
  BY <1>1, <1>2
<1>3. CASE stdin' = Append(stdin, Refusal)
  <2>1. stdin \in Seq(Requests \cup {Refusal})
    BY DEF TypeOK
  <2>2. \A r : Holds(stdin', r) <=> Holds(stdin, r) \/ r = Refusal
    BY <1>3, <2>1, HoldsAppend
  <2>3. UniqueIn(stdin')
    BY <1>3, <2>1, UniqueAppend, LinesDiffer
  <2>4. QED
    BY <1>1, <2>2, <2>3, LinesDiffer
<1>4. QED
  BY <1>2, <1>3 DEF Reply

\* The steps that write, reply, route or serve keep every id in one place.
LEMMA SentOnceStep ==
    ASSUME TypeOK, IdsAreOwn, NotYetSent, SentOnce, [Next]_vars PROVE SentOnce'
<1>1. ASSUME NEW c \in Callers, Write(c) PROVE SentOnce'
  <2>1. CASE UNCHANGED <<stdin, owed, stdout>>
    BY <2>1 DEF SentOnce, UniqueIn, Holds
  <2>2. CASE ~UNCHANGED <<stdin, owed, stdout>>
    <3> DEFINE new == [id |-> current[c], caller |-> c]
    <3>1. /\ pc[c] = "write" /\ new \in Requests /\ stdin' = Append(stdin, new)
          /\ \A r : Holds(stdin', r) <=> Holds(stdin, r) \/ r = new
          /\ UNCHANGED <<owed, stdout>>
      BY <1>1, <2>2, WriteTravels
    <3>2. \A r \in Requests : Travelling(r) => r.id # new.id
      BY <3>1 DEF NotYetSent
    <3> HIDE DEF new
    <3>3. stdin \in Seq(Requests \cup {Refusal}) /\ UniqueIn(stdin)
      BY DEF TypeOK, SentOnce
    <3>4. UniqueIn(stdin')
      BY <3>1, <3>2, <3>3, UniqueAppend DEF Travelling
    <3>5. QED
      BY <3>1, <3>2, <3>4 DEF SentOnce, Travelling
  <2>3. QED
    BY <2>1, <2>2
<1>2. CASE ReadLine
  BY <1>2, ReadLineTravels DEF SentOnce
<1>3. CASE Reply \/ Server
  BY <1>3, ReplyTravels, ServerTravels
<1>4. ASSUME UNCHANGED <<stdin, owed, stdout>> PROVE SentOnce'
  BY <1>4 DEF SentOnce, UniqueIn, Holds
<1>5. ASSUME NEW c \in Callers, Call(c) \/ Register(c) \/ Wait(c) \/ Collect(c)
      PROVE  SentOnce'
  BY <1>4, <1>5 DEF Call, Register, Wait, Collect, serverVars
<1>6. CASE CheckRunning \/ ReadEof \/ StopRunning \/ WakeAll \/ Close \/ UNCHANGED vars
  BY <1>4, <1>6 DEF CheckRunning, ReadEof, StopRunning, WakeAll, Close, vars, serverVars
<1>7. QED
  BY <1>1, <1>2, <1>3, <1>5, <1>6 DEF Next, CallerStep, ReaderStep

-----------------------------------------------------------------------------
(* The tables and the wakeups.                                             *)

Core ==
    /\ IdsAreIssued /\ IdsAreOwn /\ AnswersAreOwn /\ Unanswered /\ NotYetSent
    /\ NoLostWakeup /\ WokenByTheEnd /\ LeftoversAreAbandoned

\* A step that gives out no id, sends nothing, routes nothing and wakes nobody.
Quiet ==
    /\ UNCHANGED <<requestId, events, responses, current, outcome, signalled>>
    /\ \A c \in Callers :
          (pc'[c] = "write" <=> pc[c] = "write") /\ (Waiting(c)' <=> Waiting(c))
    /\ \A r : Travelling(r)' => Travelling(r)
    /\ reader = "stopped" => reader' = "stopped"

LEMMA QuietKeeps == ASSUME TypeOK, Core, Quiet PROVE Core'
<1> USE DEF Core, Quiet, Pending
<1>1. IdsAreIssued'
  BY DEF IdsAreIssued
<1>2. IdsAreOwn'
  BY DEF IdsAreOwn
<1>3. AnswersAreOwn'
  BY DEF AnswersAreOwn
<1>4. Unanswered'
  <2> SUFFICES ASSUME NEW r \in Requests, Travelling(r)'
               PROVE  /\ r.id \notin DOMAIN responses
                      /\ r.id \in DOMAIN events =>
                            Waiting(events[r.id])' /\ current[events[r.id]] = r.id
                      /\ r.id \notin DOMAIN events => outcome[r.id] \in {"timeout", "exited"}
    BY DEF Unanswered
  <2>1. Travelling(r)
    OBVIOUS
  <2>2. CASE r.id \in DOMAIN events
    <3>1. PICK e \in Callers : e = events[r.id]
      BY <2>2 DEF TypeOK
    <3>2. Waiting(e) /\ current[e] = r.id /\ r.id \notin DOMAIN responses
      BY <2>1, <2>2, <3>1 DEF Unanswered
    <3>3. Waiting(e)' /\ e = events'[r.id]
      BY <3>1, <3>2
    <3>4. QED
      BY <2>2, <3>1, <3>2, <3>3 DEF Waiting
  <2>3. CASE r.id \notin DOMAIN events
    BY <2>1, <2>3 DEF Unanswered
  <2>4. QED
    BY <2>2, <2>3
<1>5. NotYetSent'
  BY DEF NotYetSent
<1>6. NoLostWakeup'
  BY DEF NoLostWakeup
<1>7. WokenByTheEnd'
  BY DEF WokenByTheEnd
<1>8. LeftoversAreAbandoned'
  BY DEF LeftoversAreAbandoned
<1>9. QED
  BY <1>1, <1>2, <1>3, <1>4, <1>5, <1>6, <1>7, <1>8

LEMMA QuietSteps ==
    ASSUME TypeOK, SentOnce,
           \/ \E c \in Callers : Call(c) \/ Wait(c)
           \/ CheckRunning \/ ReadEof \/ Reply \/ StopRunning \/ Close \/ Server
           \/ ReadLine /\ Head(stdout) \in Noise
           \/ UNCHANGED vars
    PROVE  Quiet
<1> USE DEF Quiet, table, callerVars, serverVars
<1>1. ASSUME UNCHANGED <<stdin, owed, stdout>> PROVE \A r : Travelling(r)' => Travelling(r)
  BY <1>1 DEF Travelling, Holds
<1>2. ASSUME UNCHANGED pc
      PROVE  \A c \in Callers :
                (pc'[c] = "write" <=> pc[c] = "write") /\ (Waiting(c)' <=> Waiting(c))
  BY <1>2 DEF Waiting
<1>3. ASSUME NEW c \in Callers, Call(c) \/ Wait(c) PROVE Quiet
  <2>1. \A d \in Callers :
            (pc'[d] = "write" <=> pc[d] = "write") /\ (Waiting(d)' <=> Waiting(d))
    BY <1>3 DEF Call, Wait, Goto, Waiting, TypeOK
  <2>2. \A r : Travelling(r)' => Travelling(r)
    BY <1>1, <1>3 DEF Call, Wait
  <2>3. QED
    BY <2>1, <2>2, <1>3 DEF Call, Wait
<1>4. CASE CheckRunning \/ ReadEof \/ StopRunning \/ Close \/ UNCHANGED vars
  BY <1>1, <1>2, <1>4 DEF CheckRunning, ReadEof, StopRunning, Close, vars
<1>5. CASE Reply
  BY <1>2, <1>5, ReplyTravels DEF Reply
<1>6. CASE Server
  BY <1>2, <1>6, ServerTravels DEF Server
<1>7. CASE ReadLine /\ Head(stdout) \in Noise
  <2>1. \A r : Travelling(r)' => Travelling(r)
    BY <1>7, ReadLineTravels DEF Travelling
  <2>2. QED
    BY <1>2, <1>7, <2>1 DEF ReadLine
<1>8. QED
  BY <1>3, <1>4, <1>5, <1>6, <1>7

LEMMA RegisterKeeps ==
    ASSUME TypeOK, Bounded, Core, NEW c \in Callers, Register(c) PROVE Core'
<1> USE DEF Core
<1> DEFINE n == requestId + 1
<1>0. /\ requestId \in Nat /\ n \in Ids /\ n > requestId
      /\ requestId' = n
      /\ current' = [current EXCEPT ![c] = n]
      /\ events' = Put(events, n, c)
      /\ signalled' = signalled \ {c}
      /\ pc[c] = "register" /\ pc' = [pc EXCEPT ![c] = "write"]
      /\ UNCHANGED <<responses, outcome, reader>>
  <2>1. pc[c] = "register"
    BY DEF Register
  <2>2. NextId = n /\ n \in Ids /\ requestId \in Nat
    BY <2>1, IdLeft DEF TypeOK
  <2>3. n > requestId
    BY <2>2
  <2> HIDE DEF n
  <2>4. QED
    BY <2>1, <2>2, <2>3 DEF Register, FreshEvent, Goto
<1>1. /\ DOMAIN events' = DOMAIN events \cup {n} /\ events'[n] = c
      /\ \A i \in DOMAIN events : events'[i] = events[i]
      /\ n \notin DOMAIN events /\ n \notin DOMAIN responses
  BY <1>0 DEF Put, IdsAreIssued
<1>2. /\ current'[c] = n /\ pc'[c] = "write" /\ ~Waiting(c)'
      /\ \A d \in Callers : d # c =>
            /\ current'[d] = current[d] /\ pc'[d] = pc[d]
            /\ Pending(d)' <=> Pending(d)
            /\ Waiting(d)' <=> Waiting(d)
  BY <1>0 DEF TypeOK, Waiting, Pending
<1>3. \A d \in Callers : current[d] \in Nat /\ current[d] < n
  BY <1>0 DEF IdsAreIssued, TypeOK
<1>4. \A r : Travelling(r)' <=> Travelling(r)
  BY DEF Register, serverVars, Travelling, Holds
<1>5. \A r \in Requests : Travelling(r) => r.id \in Nat /\ r.id < n
  BY <1>0 DEF IdsAreIssued, Requests, Ids
<1> HIDE DEF n
<1>11. IdsAreIssued'
  <2>1. DOMAIN events' \subseteq 1..requestId' /\ DOMAIN responses' \subseteq 1..requestId'
    BY <1>0, <1>1 DEF IdsAreIssued, n
  <2>2. \A d \in Callers : current'[d] <= requestId'
    BY <1>0, <1>2, <1>3 DEF n
  <2>3. \A r \in Requests : Travelling(r)' => r.id <= requestId'
    BY <1>0, <1>4, <1>5 DEF n
  <2>4. \A i \in Ids : i > requestId' => outcome'[i] = "none"
    BY <1>0 DEF IdsAreIssued, n, Ids
  <2>5. QED
    BY <2>1, <2>2, <2>3, <2>4 DEF IdsAreIssued
<1>12. IdsAreOwn'
  <2>1. \A d, e \in Callers : current'[d] = current'[e] /\ current'[d] # 0 => d = e
    BY <1>2, <1>3 DEF IdsAreOwn
  <2>0. n > 0
    BY <1>0 DEF Ids
  <2>2. \A d \in Callers : Pending(d)' =>
          current'[d] > 0 /\ current'[d] \in DOMAIN events' /\ events'[current'[d]] = d
    <3> SUFFICES ASSUME NEW d \in Callers, Pending(d)'
                 PROVE  /\ current'[d] > 0 /\ current'[d] \in DOMAIN events'
                        /\ events'[current'[d]] = d
      OBVIOUS
    <3>1. CASE d = c
      BY <1>1, <1>2, <2>0, <3>1
    <3>2. CASE d # c
      BY <1>1, <1>2, <3>2 DEF IdsAreOwn
    <3>3. QED
      BY <3>1, <3>2
  <2>3. QED
    BY <2>1, <2>2 DEF IdsAreOwn
<1>13. AnswersAreOwn'
  <2> SUFFICES ASSUME NEW d \in Callers
               PROVE  /\ \A r \in Requests : Travelling(r) /\ r.id = current'[d] => r.caller = d
                      /\ current'[d] \in DOMAIN responses => responses[current'[d]] = d
    BY <1>0, <1>4 DEF AnswersAreOwn
  <2>1. CASE d = c
    BY <1>1, <1>2, <1>5, <2>1
  <2>2. CASE d # c
    BY <1>2, <2>2 DEF AnswersAreOwn
  <2>3. QED
    BY <2>1, <2>2
<1>14. Unanswered'
  <2> SUFFICES ASSUME NEW r \in Requests, Travelling(r)
               PROVE  /\ r.id \notin DOMAIN responses
                      /\ r.id \in DOMAIN events' =>
                            Waiting(events[r.id])' /\ current'[events'[r.id]] = r.id
                      /\ r.id \notin DOMAIN events' => outcome[r.id] \in {"timeout", "exited"}
    BY <1>0, <1>4 DEF Unanswered
  <2>1. r.id # n
    BY <1>5 DEF n
  <2>2. CASE r.id \in DOMAIN events
    <3>1. PICK e \in Callers : e = events[r.id]
      BY <2>2 DEF TypeOK
    <3>2. Waiting(e) /\ current[e] = r.id /\ r.id \notin DOMAIN responses
      BY <2>2, <3>1 DEF Unanswered
    <3>3. e # c
      BY <1>0, <3>2 DEF Waiting
    <3>4. Waiting(e)' /\ e = events'[r.id] /\ current'[e] = r.id
      BY <1>1, <1>2, <2>2, <3>1, <3>2, <3>3
    <3>5. QED
      BY <1>1, <2>2, <3>2, <3>4 DEF Waiting
  <2>3. CASE r.id \notin DOMAIN events
    BY <1>1, <2>1, <2>3 DEF Unanswered
  <2>4. QED
    BY <2>2, <2>3
<1>15. NotYetSent'
  <2> SUFFICES ASSUME NEW d \in Callers, pc'[d] = "write"
               PROVE  /\ current'[d] \notin DOMAIN responses
                      /\ \A r \in Requests : Travelling(r) => r.id # current'[d]
    BY <1>0, <1>4 DEF NotYetSent
  <2>1. CASE d = c
    BY <1>1, <1>2, <1>5, <2>1
  <2>2. CASE d # c
    BY <1>2, <2>2 DEF NotYetSent
  <2>3. QED
    BY <2>1, <2>2
<1>16. NoLostWakeup'
  BY <1>0, <1>2 DEF NoLostWakeup
<1>17. WokenByTheEnd'
  BY <1>0, <1>2 DEF WokenByTheEnd
<1>18. LeftoversAreAbandoned'
  BY <1>0, <1>1 DEF LeftoversAreAbandoned, IdsAreIssued
<1>19. QED
  BY <1>11, <1>12, <1>13, <1>14, <1>15, <1>16, <1>17, <1>18

LEMMA WriteKeeps ==
    ASSUME TypeOK, SentOnce, Core, NEW c \in Callers, Write(c) PROVE Core'
<1> USE DEF Core
<1> DEFINE new == [id |-> current[c], caller |-> c]
<1>0. /\ pc[c] = "write"
      /\ UNCHANGED <<requestId, events, responses, signalled, current, reader>>
  BY DEF Write, table
<1>1. CASE Return(c, "writeFailed") /\ UNCHANGED stdin
  <2>1. /\ pc' = [pc EXCEPT ![c] = "idle"]
        /\ outcome' = [outcome EXCEPT ![current[c]] = "writeFailed"]
    BY <1>1 DEF Return, Goto
  <2>2. /\ ~Pending(c)' /\ ~Waiting(c) /\ pc'[c] # "write"
        /\ \A d \in Callers : d # c =>
              /\ pc'[d] = pc[d] /\ (Pending(d)' <=> Pending(d)) /\ (Waiting(d)' <=> Waiting(d))
    BY <1>0, <2>1 DEF TypeOK, Waiting, Pending
  <2>3. \A r : Travelling(r)' <=> Travelling(r)
    BY <1>1 DEF Write, serverVars, Travelling, Holds
  <2>4. /\ current[c] \in DOMAIN events /\ current[c] \in Ids
        /\ current[c] \in DOMAIN outcome /\ current[c] <= requestId
    BY <1>0, PendingId DEF IdsAreOwn, IdsAreIssued, Pending, TypeOK
  <2>5. /\ outcome'[current[c]] = "writeFailed"
        /\ \A i : i # current[c] => outcome'[i] = outcome[i]
    BY <2>1, <2>4
  <2>11. IdsAreIssued'
    <3>1. \A i \in Ids : i > requestId => i # current[c]
      BY <2>4 DEF Ids, TypeOK
    <3>2. QED
      BY <1>0, <2>3, <2>5, <3>1 DEF IdsAreIssued
  <2>12. IdsAreOwn'
    BY <1>0, <2>2 DEF IdsAreOwn
  <2>13. AnswersAreOwn'
    BY <1>0, <2>3 DEF AnswersAreOwn
  <2>14. Unanswered'
    <3> SUFFICES ASSUME NEW r \in Requests, Travelling(r)
                 PROVE  /\ r.id \notin DOMAIN responses
                        /\ r.id \in DOMAIN events =>
                              Waiting(events[r.id])' /\ current[events[r.id]] = r.id
                        /\ r.id \notin DOMAIN events => outcome'[r.id] \in {"timeout", "exited"}
      BY <1>0, <2>3 DEF Unanswered
    <3>1. CASE r.id \in DOMAIN events
      <4>1. PICK e \in Callers : e = events[r.id]
        BY <3>1 DEF TypeOK
      <4>2. Waiting(e) /\ current[e] = r.id /\ r.id \notin DOMAIN responses
        BY <3>1, <4>1 DEF Unanswered
      <4>3. Waiting(e)'
        BY <2>2, <4>2
      <4>4. QED
        BY <1>0, <3>1, <4>1, <4>2, <4>3 DEF Waiting
    <3>2. CASE r.id \notin DOMAIN events
      BY <2>4, <2>5, <3>2 DEF Unanswered
    <3>3. QED
      BY <3>1, <3>2
  <2>15. NotYetSent'
    BY <1>0, <2>2, <2>3 DEF NotYetSent
  <2>16. NoLostWakeup'
    BY <1>0, <2>2 DEF NoLostWakeup, Pending
  <2>17. WokenByTheEnd'
    BY <1>0, <2>2 DEF WokenByTheEnd
  <2>18. LeftoversAreAbandoned'
    BY <1>0, <2>4, <2>5 DEF LeftoversAreAbandoned
  <2>19. QED
    BY <2>11, <2>12, <2>13, <2>14, <2>15, <2>16, <2>17, <2>18
<1>2. CASE /\ pc' = [pc EXCEPT ![c] = "wait"] /\ new \in Requests
           /\ \A r : Holds(stdin', r) <=> Holds(stdin, r) \/ r = new
           /\ UNCHANGED <<owed, stdout, outcome>>
  <2>1. /\ pc' = [pc EXCEPT ![c] = "wait"] /\ new \in Requests
        /\ \A r : Holds(stdin', r) <=> Holds(stdin, r) \/ r = new
        /\ UNCHANGED <<owed, stdout, outcome>>
    BY <1>2
  <2>2. /\ Pending(c) /\ Pending(c)' /\ Waiting(c)' /\ pc'[c] # "write"
        /\ \A d \in Callers : d # c =>
              /\ pc'[d] = pc[d] /\ (Pending(d)' <=> Pending(d)) /\ (Waiting(d)' <=> Waiting(d))
    BY <1>0, <2>1 DEF TypeOK, Waiting, Pending
  <2>3. \A r : Travelling(r)' <=> Travelling(r) \/ r = new
    BY <2>1 DEF Travelling
  <2>4. /\ new.id = current[c] /\ new.caller = c
        /\ current[c] \in DOMAIN events /\ events[current[c]] = c /\ current[c] # 0
        /\ current[c] <= requestId /\ current[c] \notin DOMAIN responses
    BY <1>0, <2>2 DEF IdsAreOwn, IdsAreIssued, NotYetSent, TypeOK
  <2> HIDE DEF new
  <2>11. IdsAreIssued'
    BY <1>0, <2>1, <2>3, <2>4 DEF IdsAreIssued
  <2>12. IdsAreOwn'
    BY <1>0, <2>2 DEF IdsAreOwn
  <2>13. AnswersAreOwn'
    BY <1>0, <2>3, <2>4 DEF AnswersAreOwn, IdsAreOwn
  <2>14. Unanswered'
    <3> SUFFICES ASSUME NEW r \in Requests, Travelling(r)'
                 PROVE  /\ r.id \notin DOMAIN responses
                        /\ r.id \in DOMAIN events =>
                              Waiting(events[r.id])' /\ current[events[r.id]] = r.id
                        /\ r.id \notin DOMAIN events => outcome[r.id] \in {"timeout", "exited"}
      BY <1>0, <2>1 DEF Unanswered
    <3>1. CASE r = new
      <4>1. /\ Waiting(c)' /\ c = events[r.id]
            /\ UNCHANGED <<events, current>>
        BY <1>0, <2>2, <2>4, <3>1
      <4>2. QED
        BY <2>4, <3>1, <4>1 DEF Waiting
    <3>2. CASE r # new /\ r.id \in DOMAIN events
      <4>0. Travelling(r)
        BY <2>3, <3>2
      <4>1. PICK e \in Callers : e = events[r.id]
        BY <3>2 DEF TypeOK
      <4>2. Waiting(e) /\ current[e] = r.id /\ r.id \notin DOMAIN responses
        BY <3>2, <4>0, <4>1 DEF Unanswered
      <4>3. Waiting(e)'
        BY <2>2, <4>2
      <4>4. QED
        BY <1>0, <3>2, <4>1, <4>2, <4>3 DEF Waiting
    <3>3. CASE r # new /\ r.id \notin DOMAIN events
      BY <2>3, <3>3 DEF Unanswered
    <3>4. QED
      BY <3>1, <3>2, <3>3
  <2>15. NotYetSent'
    <3> SUFFICES ASSUME NEW d \in Callers, pc'[d] = "write"
                 PROVE  /\ current[d] \notin DOMAIN responses
                        /\ \A r \in Requests : Travelling(r)' => r.id # current[d]
      BY <1>0 DEF NotYetSent
    <3>1. d # c /\ pc[d] = "write" /\ Pending(d)
      BY <2>2 DEF Pending
    <3>2. current[d] # current[c]
      BY <2>4, <3>1 DEF IdsAreOwn
    <3>3. QED
      BY <2>3, <2>4, <3>1, <3>2 DEF NotYetSent
  <2>16. NoLostWakeup'
    BY <1>0, <2>2, <2>4 DEF NoLostWakeup
  <2>17. WokenByTheEnd'
    BY <1>0, <2>2 DEF WokenByTheEnd
  <2>18. LeftoversAreAbandoned'
    BY <1>0, <2>1 DEF LeftoversAreAbandoned
  <2>19. QED
    BY <2>11, <2>12, <2>13, <2>14, <2>15, <2>16, <2>17, <2>18
<1>3. QED
  BY <1>1, <1>2, WriteTravels

LEMMA CollectKeeps ==
    ASSUME TypeOK, SentOnce, Core, NEW c \in Callers, Collect(c) PROVE Core'
<1> USE DEF Core
<1>0. /\ UNCHANGED <<requestId, signalled, current, reader>>
      /\ responses' = Pop(responses, current[c]) /\ events' = Pop(events, current[c])
  BY DEF Collect, ForgetEvent
<1>1. Waiting(c) /\ Pending(c)
  BY DEF Collect, Waiting, Pending
<1>2. /\ current[c] \in DOMAIN events /\ events[current[c]] = c /\ current[c] # 0
      /\ current[c] \in Ids /\ current[c] <= requestId
  BY <1>1, PendingId DEF IdsAreOwn, IdsAreIssued, TypeOK
<1>3. PICK how \in {"result", "timeout", "exited"} :
            /\ Return(c, how)
            /\ how = "result" => current[c] \in DOMAIN responses
  BY DEF Collect, Result, Failure
<1>4. /\ pc' = [pc EXCEPT ![c] = "idle"]
      /\ outcome'[current[c]] = how
      /\ \A i : i # current[c] => outcome'[i] = outcome[i]
  BY <1>2, <1>3 DEF Return, Goto, TypeOK
<1>5. /\ ~Pending(c)' /\ ~Waiting(c)' /\ pc'[c] # "write"
      /\ \A d \in Callers : d # c =>
            /\ pc'[d] = pc[d] /\ (Pending(d)' <=> Pending(d)) /\ (Waiting(d)' <=> Waiting(d))
  BY <1>4 DEF TypeOK, Waiting, Pending
<1>6. \A r : Travelling(r)' <=> Travelling(r)
  BY DEF Collect, serverVars, Travelling, Holds
<1>7. /\ DOMAIN events' = DOMAIN events \ {current[c]}
      /\ \A i \in DOMAIN events' : events'[i] = events[i]
  BY <1>0 DEF Pop
<1>8. /\ DOMAIN responses' = DOMAIN responses \ {current[c]}
      /\ \A i \in DOMAIN responses' : responses'[i] = responses[i]
  BY <1>0 DEF Pop
<1>9. \A d \in Callers : d # c => current[d] # current[c]
  BY <1>2 DEF IdsAreOwn
<1>11. IdsAreIssued'
  <2>1. \A i \in Ids : i > requestId => i # current[c]
    BY <1>2 DEF Ids, TypeOK
  <2>2. QED
    BY <1>0, <1>4, <1>6, <1>7, <1>8, <2>1 DEF IdsAreIssued
<1>12. IdsAreOwn'
  BY <1>0, <1>5, <1>7, <1>9 DEF IdsAreOwn
<1>13. AnswersAreOwn'
  BY <1>0, <1>6, <1>8 DEF AnswersAreOwn
<1>14. Unanswered'
  <2> SUFFICES ASSUME NEW r \in Requests, Travelling(r)
               PROVE  /\ r.id \notin DOMAIN responses'
                      /\ r.id \in DOMAIN events' =>
                            Waiting(events[r.id])' /\ current[events'[r.id]] = r.id
                      /\ r.id \notin DOMAIN events' => outcome'[r.id] \in {"timeout", "exited"}
    BY <1>0, <1>6 DEF Unanswered
  <2>1. CASE r.id = current[c]
    <3>1. current[c] \notin DOMAIN responses
      BY <2>1 DEF Unanswered
    <3>2. how \in {"timeout", "exited"}
      BY <1>3, <3>1
    <3>3. QED
      BY <1>4, <1>7, <1>8, <2>1, <3>2
  <2>2. CASE r.id # current[c] /\ r.id \in DOMAIN events
    <3>1. PICK e \in Callers : e = events[r.id]
      BY <2>2 DEF TypeOK
    <3>2. Waiting(e) /\ current[e] = r.id /\ r.id \notin DOMAIN responses
      BY <2>2, <3>1 DEF Unanswered
    <3>3. Waiting(e)' /\ e = events'[r.id]
      BY <1>5, <1>7, <2>2, <3>1, <3>2
    <3>4. QED
      BY <1>7, <1>8, <2>2, <3>2, <3>3 DEF Waiting
  <2>3. CASE r.id # current[c] /\ r.id \notin DOMAIN events
    BY <1>4, <1>7, <1>8, <2>3 DEF Unanswered
  <2>4. QED
    BY <2>1, <2>2, <2>3
<1>15. NotYetSent'
  BY <1>0, <1>5, <1>6, <1>8 DEF NotYetSent
<1>16. NoLostWakeup'
  BY <1>0, <1>5, <1>8 DEF NoLostWakeup
<1>17. WokenByTheEnd'
  BY <1>0, <1>5, <1>8, <1>9 DEF WokenByTheEnd
<1>18. LeftoversAreAbandoned'
  BY <1>4, <1>7, <1>8 DEF LeftoversAreAbandoned
<1>19. QED
  BY <1>11, <1>12, <1>13, <1>14, <1>15, <1>16, <1>17, <1>18

LEMMA RouteKeeps ==
    ASSUME TypeOK, SentOnce, Core, ReadLine, Head(stdout) \notin Noise PROVE Core'
<1> USE DEF Core
<1>0. /\ UNCHANGED <<requestId, events, pc, current, outcome, stdin, owed>>
      /\ reader = "readline" /\ reader' = "loop"
  BY DEF ReadLine, Route, callerVars, serverVars
<1>1. PICK line \in Requests : line = Head(stdout)
  BY ReadLineTravels
<1>2. /\ responses' = Put(responses, line.id, line.caller)
      /\ signalled' = Woken(line)
  BY <1>1 DEF ReadLine, Route
<1>3. /\ DOMAIN responses' = DOMAIN responses \cup {line.id}
      /\ responses'[line.id] = line.caller
      /\ \A i \in DOMAIN responses : i # line.id => responses'[i] = responses[i]
  BY <1>2 DEF Put
<1>4. /\ signalled \subseteq signalled'
      /\ line.id \in DOMAIN events => events[line.id] \in signalled'
      /\ \A d \in signalled' \ signalled : line.id \in DOMAIN events /\ d = events[line.id]
  BY <1>2 DEF Woken
<1>5. Travelling(line) /\ line.id \in Ids
  BY <1>1, ReadLineTravels DEF Travelling, Requests
<1>6. \A r : Travelling(r)' => Travelling(r) /\ r.id # line.id
  <2>1. \A r : Holds(stdout', r) => Holds(stdout, r)
    BY ReadLineTravels
  <2>2. \A r \in Requests : Holds(stdout', r) => r.id # line.id
    BY <1>1, ReadLineTravels
  <2>3. Holds(stdout, line)
    BY <1>1, ReadLineTravels
  <2>4. \A r \in Requests : Holds(stdin, r) \/ r \in owed => r.id # line.id
    BY <2>3 DEF SentOnce
  <2>5. QED
    BY <1>0, <2>1, <2>2, <2>4 DEF Travelling
<1>7. /\ line.id \notin DOMAIN responses /\ line.id <= requestId
      /\ line.id \in DOMAIN events =>
            /\ events[line.id] \in Callers
            /\ Waiting(events[line.id]) /\ current[events[line.id]] = line.id
      /\ line.id \notin DOMAIN events => outcome[line.id] \in {"timeout", "exited"}
  BY <1>5 DEF Unanswered, IdsAreIssued, TypeOK
<1>8. \A d \in Callers : (Waiting(d)' <=> Waiting(d)) /\ (Pending(d)' <=> Pending(d))
  BY <1>0 DEF Waiting, Pending
<1>11. IdsAreIssued'
  <2>1. line.id \in 1..requestId
    BY <1>5, <1>7 DEF Ids, TypeOK
  <2>2. QED
    BY <1>0, <1>3, <1>6, <2>1 DEF IdsAreIssued
<1>12. IdsAreOwn'
  BY <1>0, <1>8 DEF IdsAreOwn
<1>13. AnswersAreOwn'
  <2> SUFFICES ASSUME NEW d \in Callers
               PROVE  /\ \A r \in Requests : Travelling(r)' /\ r.id = current[d] => r.caller = d
                      /\ current[d] \in DOMAIN responses' => responses'[current[d]] = d
    BY <1>0 DEF AnswersAreOwn
  <2>1. CASE current[d] = line.id
    BY <1>3, <1>5, <1>6, <2>1 DEF AnswersAreOwn
  <2>2. CASE current[d] # line.id
    BY <1>3, <1>6, <2>2 DEF AnswersAreOwn
  <2>3. QED
    BY <2>1, <2>2
<1>14. Unanswered'
  <2> SUFFICES ASSUME NEW r \in Requests, Travelling(r)'
               PROVE  /\ r.id \notin DOMAIN responses'
                      /\ r.id \in DOMAIN events =>
                            Waiting(events[r.id]) /\ current[events[r.id]] = r.id
                      /\ r.id \notin DOMAIN events => outcome[r.id] \in {"timeout", "exited"}
    BY <1>0 DEF Unanswered, Waiting
  <2>1. Travelling(r) /\ r.id # line.id
    BY <1>6
  <2>2. QED
    BY <1>3, <2>1 DEF Unanswered
<1>15. NotYetSent'
  <2>1. \A d \in Callers : pc[d] = "write" => current[d] # line.id
    BY <1>5 DEF NotYetSent
  <2>2. QED
    BY <1>0, <1>3, <1>6, <2>1 DEF NotYetSent
<1>16. NoLostWakeup'
  <2> SUFFICES ASSUME NEW d \in Callers, Waiting(d), d \notin signalled'
               PROVE  current[d] \notin DOMAIN responses'
    BY <1>0, <1>8 DEF NoLostWakeup
  <2>1. current[d] \in DOMAIN events /\ events[current[d]] = d
    BY DEF IdsAreOwn, Pending
  <2>2. current[d] # line.id
    BY <1>4, <2>1
  <2>3. QED
    BY <1>3, <1>4, <2>2 DEF NoLostWakeup
<1>17. WokenByTheEnd'
  <2> SUFFICES ASSUME NEW d \in Callers, Pending(d), d \in signalled',
                      current[d] \notin DOMAIN responses'
               PROVE  FALSE
    BY <1>0, <1>8 DEF WokenByTheEnd
  <2>1. CASE d \in signalled
    BY <1>0, <1>3, <2>1 DEF WokenByTheEnd
  <2>2. CASE d \notin signalled
    BY <1>3, <1>4, <1>7, <2>2
  <2>3. QED
    BY <2>1, <2>2
<1>18. LeftoversAreAbandoned'
  BY <1>0, <1>3, <1>7 DEF LeftoversAreAbandoned
<1>19. QED
  BY <1>11, <1>12, <1>13, <1>14, <1>15, <1>16, <1>17, <1>18

LEMMA WakeAllKeeps == ASSUME Core, WakeAll PROVE Core'
<1> USE DEF Core
<1>1. /\ UNCHANGED <<requestId, events, responses, pc, current, outcome, stdin, owed, stdout>>
      /\ signalled \subseteq signalled' /\ reader' = "stopped"
  BY DEF WakeAll, table, callerVars, serverVars
<1>2. /\ IdsAreIssued' /\ IdsAreOwn' /\ AnswersAreOwn' /\ NotYetSent'
  BY <1>1 DEF IdsAreIssued, IdsAreOwn, AnswersAreOwn, NotYetSent, Travelling, Holds,
     Pending, Waiting
<1>3. Unanswered'
  BY <1>1 DEF Unanswered, Travelling, Holds, Waiting
<1>4. NoLostWakeup' /\ WokenByTheEnd' /\ LeftoversAreAbandoned'
  BY <1>1 DEF NoLostWakeup, WokenByTheEnd, LeftoversAreAbandoned, Waiting
<1>5. QED
  BY <1>2, <1>3, <1>4

LEMMA CoreStep ==
    ASSUME TypeOK, Bounded, SentOnce, Core, [Next]_vars PROVE Core'
<1>1. ASSUME NEW c \in Callers, Call(c) \/ Wait(c) PROVE Core'
  BY <1>1, QuietSteps, QuietKeeps
<1>2. ASSUME NEW c \in Callers, Register(c) \/ Write(c) \/ Collect(c) PROVE Core'
  BY <1>2, RegisterKeeps, WriteKeeps, CollectKeeps
<1>3. CASE ReadLine
  <2>1. CASE Head(stdout) \in Noise
    BY <1>3, <2>1, QuietSteps, QuietKeeps
  <2>2. CASE Head(stdout) \notin Noise
    BY <1>3, <2>2, RouteKeeps
  <2>3. QED
    BY <2>1, <2>2
<1>4. CASE WakeAll
  BY <1>4, WakeAllKeeps
<1>5. CASE CheckRunning \/ ReadEof \/ Reply \/ StopRunning \/ Close \/ Server
           \/ UNCHANGED vars
  BY <1>5, QuietSteps, QuietKeeps
<1>6. QED
  BY <1>1, <1>2, <1>3, <1>4, <1>5 DEF Next, CallerStep, ReaderStep

LEMMA ReaderGoneStep == ASSUME ReaderGone, [Next]_vars PROVE ReaderGone'
<1> USE DEF ReaderGone
<1>1. ASSUME NEW c \in Callers, Call(c) \/ CallerStep(c) PROVE ReaderGone'
  BY <1>1 DEF Call, CallerStep, Register, Write, Wait, Collect
<1>2. CASE ReaderStep
  BY <1>2 DEF ReaderStep, CheckRunning, ReadLine, Route, ReadEof, Reply, StopRunning, WakeAll
<1>3. CASE Close \/ Server \/ UNCHANGED vars
  BY <1>3 DEF Close, Server, vars
<1>4. QED
  BY <1>1, <1>2, <1>3 DEF Next

LEMMA PendingUnendedStep ==
    ASSUME TypeOK, Bounded, SentOnce, Core, PendingUnended, [Next]_vars PROVE PendingUnended'
<1> USE DEF Core, PendingUnended
<1>1. ASSUME Quiet PROVE PendingUnended'
  BY <1>1 DEF Quiet, Pending
<1>2. ASSUME UNCHANGED <<pc, current, outcome>> PROVE PendingUnended'
  BY <1>2 DEF Pending, Waiting
<1>3. ASSUME NEW c \in Callers, Register(c) PROVE PendingUnended'
  <2>1. /\ NextId \in Ids /\ NextId > requestId /\ outcome' = outcome
        /\ current' = [current EXCEPT ![c] = NextId] /\ pc' = [pc EXCEPT ![c] = "write"]
    BY <1>3, IdLeft DEF Register, Goto, TypeOK
  <2>2. outcome'[current'[c]] = "none"
    BY <2>1 DEF IdsAreIssued, TypeOK
  <2>3. \A d \in Callers : d # c => (Pending(d)' <=> Pending(d)) /\ current'[d] = current[d]
    BY <2>1 DEF Pending, Waiting, TypeOK
  <2>4. QED
    BY <2>1, <2>2, <2>3
<1>4. ASSUME NEW c \in Callers, Pending(c), UNCHANGED current,
             \A d \in Callers : d # c => pc'[d] = pc[d],
             \A i \in Ids : i # current[c] => outcome'[i] = outcome[i],
             Pending(c)' => UNCHANGED outcome
      PROVE  PendingUnended'
  <2> SUFFICES ASSUME NEW d \in Callers, Pending(d)' PROVE outcome'[current[d]] = "none"
    BY <1>4
  <2>1. CASE d = c
    BY <1>4, <2>1
  <2>2. CASE d # c
    <3>1. Pending(d)
      BY <1>4, <2>2 DEF Pending, Waiting
    <3>2. current[d] # current[c]
      BY <1>4, <2>2, <3>1 DEF IdsAreOwn
    <3>3. current[d] \in Ids
      BY <3>1, PendingId
    <3>4. QED
      BY <1>4, <3>1, <3>2, <3>3
  <2>3. QED
    BY <2>1, <2>2
<1>5. ASSUME NEW c \in Callers, Write(c) \/ Collect(c) PROVE PendingUnended'
  <2>1. Pending(c) /\ UNCHANGED current
    BY <1>5 DEF Write, Collect, Pending, Waiting
  <2>2. /\ \A d \in Callers : d # c => pc'[d] = pc[d]
        /\ \A i \in Ids : i # current[c] => outcome'[i] = outcome[i]
    BY <1>5 DEF Write, Collect, Return, Goto, TypeOK
  <2>3. Pending(c)' => UNCHANGED outcome
    BY <1>5 DEF Write, Collect, Return, Goto, TypeOK, Pending, Waiting
  <2>4. QED
    BY <1>4, <2>1, <2>2, <2>3
<1>6. ASSUME NEW c \in Callers, Call(c) \/ Wait(c) PROVE PendingUnended'
  BY <1>1, <1>6, QuietSteps
<1>7. CASE ReaderStep \/ Close \/ Server \/ UNCHANGED vars
  BY <1>2, <1>7 DEF ReaderStep, CheckRunning, ReadLine, ReadEof, Reply, StopRunning, WakeAll,
     Close, Server, vars, callerVars
<1>8. QED
  BY <1>3, <1>5, <1>6, <1>7 DEF Next, CallerStep

LEMMA InitIInv == Init => IInv
<1> SUFFICES ASSUME Init PROVE IInv
  OBVIOUS
<1> USE DEF Init, NoEntries
<1>1. TypeOK
  <2>1. /\ stdin \in Seq(Requests \cup {Refusal}) /\ Len(stdin) <= PipeCapacity
        /\ stdout \in Seq(Requests \cup Noise) /\ Len(stdout) <= PipeCapacity
    OBVIOUS
  <2>2. outcome \in [Ids -> Outcomes] /\ current \in [Callers -> 0..MaxRequests]
    BY DEF Outcomes
  <2>3. requestId \in 0..MaxRequests /\ noise \in 0..MaxNoise
    OBVIOUS
  <2>4. QED
    BY <2>1, <2>2, <2>3 DEF TypeOK
<1>2. Bounded
  <2>1. Registering = {}
    BY DEF Registering
  <2>2. QED
    BY <2>1, FS_EmptySet DEF Bounded
<1>3. \A r : ~Travelling(r)
  BY DEF Travelling, Holds
<1>4. \A c \in Callers : ~Pending(c) /\ ~Waiting(c) /\ pc[c] # "write"
  BY DEF Pending, Waiting
<1>5. SentOnce
  BY DEF SentOnce, UniqueIn, Holds
<1>6. IdsAreIssued
  BY <1>3 DEF IdsAreIssued
<1>7. IdsAreOwn /\ AnswersAreOwn
  BY <1>3, <1>4 DEF IdsAreOwn, AnswersAreOwn
<1>8. Unanswered /\ NotYetSent /\ NoLostWakeup /\ WokenByTheEnd
  BY <1>3, <1>4 DEF Unanswered, NotYetSent, NoLostWakeup, WokenByTheEnd
<1>9. ReaderGone /\ LeftoversAreAbandoned
  BY DEF ReaderGone, LeftoversAreAbandoned
<1>10. PendingUnended
  BY <1>4 DEF PendingUnended
<1>11. QED
  BY <1>1, <1>2, <1>5, <1>6, <1>7, <1>8, <1>9, <1>10 DEF IInv

\* Every reachable state satisfies the inductive invariant: an id is given to
\* one caller, travels in one place, and is answered or given up once.
THEOREM ClientInvariant == Spec => []IInv
<1>1. IInv /\ [Next]_vars => IInv'
  <2> SUFFICES ASSUME IInv, [Next]_vars PROVE IInv'
    OBVIOUS
  <2>1. TypeOK' /\ Bounded' /\ SentOnce'
    BY TypeStep, BoundedStep, SentOnceStep DEF IInv
  <2>2. Core'
    BY CoreStep DEF IInv, Core
  <2>3. ReaderGone' /\ PendingUnended'
    BY ReaderGoneStep, PendingUnendedStep DEF IInv, Core
  <2>4. QED
    BY <2>1, <2>2, <2>3 DEF IInv, Core
<1>2. QED
  BY InitIInv, <1>1, PTL DEF Spec

\* Whatever the threads, the reader and the server interleave, ids stay below
\* the bound, tables hold callers, and no pipe holds more than it can.
THEOREM TypeCorrect == Spec => []TypeOK
<1>1. IInv => TypeOK
  BY DEF IInv
<1>2. QED
  BY ClientInvariant, <1>1, PTL

\* No thread ever finds another thread's answer under its id, in whatever
\* order the answers arrive and however many threads and requests there are.
THEOREM AnswersReachTheirCaller == Spec => []AnswerIsOwn
<1>1. IInv => AnswerIsOwn
  BY DEF IInv, AnswersAreOwn, AnswerIsOwn
<1>2. QED
  BY ClientInvariant, <1>1, PTL

\* An answer stored for a waiting request has set its event, and a thread that
\* is awake and finds no answer was woken by the reader's end: what it reports is
\* never an answer that was thrown away.
THEOREM EachWakesForItsAnswer == Spec => []WakesForItsAnswer
<1>1. IInv => WakesForItsAnswer
  <2> SUFFICES ASSUME IInv, NEW c \in Callers, Waiting(c)
               PROVE  /\ current[c] \in DOMAIN responses => c \in signalled
                      /\ c \in signalled /\ current[c] \notin DOMAIN responses
                            => reader = "stopped" /\ ~running
    BY DEF WakesForItsAnswer
  <2>1. current[c] \in DOMAIN responses => c \in signalled
    BY DEF IInv, NoLostWakeup
  <2>2. ASSUME c \in signalled, current[c] \notin DOMAIN responses
        PROVE  reader = "stopped" /\ ~running
    BY <2>2 DEF IInv, WokenByTheEnd, Pending, ReaderGone
  <2>3. QED
    BY <2>1, <2>2
<1>2. QED
  BY ClientInvariant, <1>1, PTL

\* The tables leak only answers that came after their request gave up, and
\* events of requests whose write failed.
THEOREM OnlyAbandonedAreLeft == Spec => []LeftoversAreAbandoned
<1>1. IInv => LeftoversAreAbandoned
  BY DEF IInv
<1>2. QED
  BY ClientInvariant, <1>1, PTL

-----------------------------------------------------------------------------
(* The client implements RequestService.                                   *)

LEMMA TailHoldsRest ==
    ASSUME NEW S, NEW seq \in Seq(S), seq # <<>>, NEW line, line # Head(seq)
    PROVE  Holds(Tail(seq), line) <=> Holds(seq, line)
<1>1. /\ Len(Tail(seq)) = Len(seq) - 1 /\ Len(seq) \in Nat \ {0}
      /\ \A k \in 1..Len(seq) - 1 : Tail(seq)[k] = seq[k + 1]
      /\ Head(seq) = seq[1]
  OBVIOUS
<1>2. ASSUME NEW k \in 1..Len(seq), seq[k] = line PROVE Holds(Tail(seq), line)
  <2>1. k # 1
    BY <1>1, <1>2
  <2>2. k - 1 \in 1..Len(seq) - 1 /\ Tail(seq)[k - 1] = line
    BY <1>1, <1>2, <2>1
  <2>3. QED
    BY <1>1, <2>2 DEF Holds
<1>3. QED
  BY <1>2, HoldsTail DEF Holds

\* The request of a caller that waits is one of the requests.
LEMMA RequestOfWaiting ==
    ASSUME TypeOK, IdsAreOwn, NEW c \in Callers, Waiting(c)
    PROVE  /\ RequestOf(c) \in Requests /\ RequestOf(c).id = current[c] /\ RequestOf(c).caller = c
           /\ \A r \in Requests : r.id = current[c] /\ r.caller = c => r = RequestOf(c)
BY PendingId DEF Pending, RequestOf, Requests

LEMMA SameStage ==
    ASSUME TypeOK, NEW c \in Callers, pc'[c] = pc[c], Waiting(c) => (Answered(c)' <=> Answered(c))
    PROVE  Stage(c)' = Stage(c)
<1>1. CASE Waiting(c)
  BY <1>1 DEF Stage, Waiting
<1>2. CASE ~Waiting(c)
  BY <1>2 DEF Stage, Waiting, TypeOK
<1>3. QED
  BY <1>1, <1>2

\* Callers whose answer does not move keep their stage.
LEMMA SameAnswers ==
    ASSUME TypeOK, NEW c \in Callers, pc'[c] = pc[c], current'[c] = current[c],
           UNCHANGED <<responses, stdout>>
    PROVE  Stage(c)' = Stage(c)
BY SameStage DEF Answered, RequestOf

LEMMA NobodyMoves ==
    ASSUME \A c \in Callers : Stage(c)' = Stage(c),
           UNCHANGED <<requestId, current, outcome, exited>>
    PROVE  UNCHANGED Service!vars
BY DEF Service!vars, Stages

LEMMA OneMoves ==
    ASSUME NEW c \in Callers, NEW to, Stage(c)' = to,
           \A d \in Callers : d # c => Stage(d)' = Stage(d)
    PROVE  /\ Stages' = [Stages EXCEPT ![c] = to]
           /\ \A from : Stage(c) \in from => Service!Move(c, from, to)
BY DEF Stages, Service!Move

LEMMA RegisterAsks ==
    ASSUME TypeOK, Bounded, NEW c \in Callers, Register(c) PROVE Service!Ask(c)
<1>1. /\ pc[c] = "register" /\ NextId \in Ids /\ NextId = requestId + 1
      /\ pc' = [pc EXCEPT ![c] = "write"]
      /\ requestId' = NextId /\ current' = [current EXCEPT ![c] = NextId]
      /\ UNCHANGED <<responses, outcome, stdout, exited>>
  BY IdLeft DEF Register, Goto, serverVars
<1>2. Stage(c) = "free" /\ Stage(c)' = "asked"
  BY <1>1 DEF Stage, TypeOK
<1>3. \A d \in Callers : d # c => Stage(d)' = Stage(d)
  BY <1>1, SameAnswers DEF TypeOK
<1>4. Service!Move(c, {"free"}, "asked")
  BY <1>2, <1>3, OneMoves
<1>5. QED
  BY <1>1, <1>4 DEF Service!Ask

LEMMA WriteSends ==
    ASSUME TypeOK, IdsAreOwn, NotYetSent, PendingUnended, NEW c \in Callers, Write(c)
    PROVE  Service!Send(c) \/ Service!Refuse(c)
<1>1. /\ pc[c] = "write" /\ Stage(c) = "asked" /\ outcome[current[c]] = "none"
      /\ UNCHANGED <<requestId, current, responses, stdout, exited>>
  BY DEF Write, Stage, PendingUnended, Pending, serverVars, table
<1>2. \A d \in Callers : d # c => Stage(d)' = Stage(d)
  BY <1>1, SameAnswers DEF Write, Return, Goto, TypeOK
<1>3. CASE Return(c, "writeFailed")
  <2>1. Stage(c)' = "free"
    BY <1>3 DEF Return, Goto, Stage, TypeOK
  <2>2. Service!Move(c, {"asked"}, "free")
    BY <1>1, <1>2, <2>1, OneMoves
  <2>3. QED
    BY <1>1, <1>3, <2>2 DEF Service!Refuse, Service!End, Return
<1>4. CASE Goto(c, "wait") /\ UNCHANGED outcome
  <2>1. RequestOf(c) \in Requests /\ RequestOf(c).id = current[c]
    BY <1>1, PendingId DEF Pending, RequestOf
  <2>2. ~Answered(c)
    BY <1>1, <2>1 DEF Answered, NotYetSent, Travelling
  <2>3. Stage(c)' = "sent"
    BY <1>1, <1>4, <2>2 DEF Goto, Stage, TypeOK, Answered, RequestOf
  <2>4. Service!Move(c, {"asked"}, "sent")
    BY <1>1, <1>2, <2>3, OneMoves
  <2>5. QED
    BY <1>1, <1>4, <2>4 DEF Service!Send
<1>5. QED
  BY <1>3, <1>4 DEF Write

\* A request ends as the server answered it, or is given up.
LEMMA CollectEnds ==
    ASSUME TypeOK, IdsAreOwn, PendingUnended, NEW c \in Callers, Collect(c)
    PROVE  Service!Return(c) \/ Service!GiveUp(c)
<1>1. /\ Waiting(c) /\ Pending(c) /\ outcome[current[c]] = "none"
      /\ UNCHANGED <<requestId, current, stdout, exited>>
      /\ responses' = Pop(responses, current[c])
  BY DEF Collect, Waiting, Pending, PendingUnended, serverVars
<1>2. /\ pc' = [pc EXCEPT ![c] = "idle"]
      /\ Stage(c) \in {"sent", "answered"} /\ Stage(c)' = "free"
  BY <1>1 DEF Collect, Return, Goto, Stage, Waiting, TypeOK
<1>3. ASSUME NEW d \in Callers, d # c PROVE Stage(d)' = Stage(d)
  <2>1. pc'[d] = pc[d]
    BY <1>2, <1>3 DEF TypeOK
  <2>2. ASSUME Waiting(d) PROVE Answered(d)' <=> Answered(d)
    <3>1. current[d] # current[c]
      BY <1>1, <1>3, <2>2 DEF IdsAreOwn, Pending
    <3>2. current[d] \in DOMAIN responses' <=> current[d] \in DOMAIN responses
      BY <1>1, <3>1 DEF Pop
    <3>3. QED
      BY <1>1, <3>2 DEF Answered, RequestOf
  <2>3. QED
    BY <2>1, <2>2, SameStage
<1>4. \A from : Stage(c) \in from => Service!Move(c, from, "free")
  BY <1>2, <1>3, OneMoves
<1>5. CASE Return(c, "result") /\ current[c] \in DOMAIN responses
  <2>1. Stage(c) = "answered"
    BY <1>1, <1>5 DEF Stage, Waiting, Answered
  <2>2. Service!Move(c, {"answered"}, "free")
    BY <1>4, <2>1
  <2>3. QED
    BY <1>1, <1>5, <2>2 DEF Service!Return, Service!End, Return
<1>6. CASE Return(c, Failure)
  <2>1. Service!Move(c, {"sent", "answered"}, "free")
    BY <1>2, <1>4
  <2>2. QED
    BY <1>1, <1>6, <2>1 DEF Service!GiveUp, Service!End, Return, Failure
<1>7. QED
  BY <1>5, <1>6 DEF Collect, Result

\* The reader moves an answer from the pipe into the table: it stays an answer.
LEMMA ReadKeepsStages ==
    ASSUME TypeOK, IdsAreOwn, AnswersAreOwn, ReadLine, NEW c \in Callers
    PROVE  Stage(c)' = Stage(c)
<1>1. /\ stdout \in Seq(Requests \cup Noise) /\ stdout # <<>> /\ stdout' = Tail(stdout)
      /\ UNCHANGED <<pc, current>> /\ Head(stdout) \in Requests \cup Noise
  BY DEF ReadLine, TypeOK, callerVars
<1>2. ASSUME Waiting(c) PROVE Answered(c)' <=> Answered(c)
  <2>1. /\ RequestOf(c) \in Requests /\ RequestOf(c).id = current[c]
        /\ \A r \in Requests : r.id = current[c] /\ r.caller = c => r = RequestOf(c)
    BY <1>2, RequestOfWaiting
  <2>2. RequestOf(c)' = RequestOf(c)
    BY <1>1 DEF RequestOf
  <2>3. CASE Head(stdout) \in Noise
    <3>1. UNCHANGED responses /\ RequestOf(c) # Head(stdout)
      BY <2>1, <2>3, LinesDiffer DEF ReadLine
    <3>2. Holds(stdout', RequestOf(c)) <=> Holds(stdout, RequestOf(c))
      BY <1>1, <3>1, TailHoldsRest
    <3>3. QED
      BY <1>1, <2>2, <3>1, <3>2 DEF Answered
  <2>4. CASE Head(stdout) \notin Noise
    <3>1. PICK line \in Requests : line = Head(stdout)
      BY <1>1, <2>4
    <3>2. responses' = Put(responses, line.id, line.caller)
      BY <2>4, <3>1 DEF ReadLine, Route
    <3>3. DOMAIN responses' = DOMAIN responses \cup {line.id}
      BY <3>2 DEF Put
    <3>4. Travelling(line) /\ Holds(stdout, line)
      BY <1>1, <3>1, HoldsTail DEF Travelling
    <3>5. CASE line = RequestOf(c)
      BY <1>1, <2>1, <3>3, <3>4, <3>5 DEF Answered
    <3>6. CASE line # RequestOf(c)
      <4>1. line.id # current[c]
        BY <2>1, <3>4, <3>6 DEF AnswersAreOwn
      <4>2. Holds(stdout', RequestOf(c)) <=> Holds(stdout, RequestOf(c))
        BY <1>1, <3>1, <3>6, TailHoldsRest
      <4>3. QED
        BY <1>1, <2>2, <3>3, <4>1, <4>2 DEF Answered
    <3>7. QED
      BY <3>5, <3>6
  <2>5. QED
    BY <2>3, <2>4
<1>3. QED
  BY <1>1, <1>2, SameStage

\* A line the server writes answers the request it repeats, if that still waits.
LEMMA EmitAnswers ==
    ASSUME TypeOK, IdsAreOwn, NEW line \in Requests \cup Noise, Emit(line),
           UNCHANGED <<pc, current, responses>>, NEW c \in Callers,
           ~(Waiting(c) /\ line = RequestOf(c))
    PROVE  Stage(c)' = Stage(c)
<1>1. stdout \in Seq(Requests \cup Noise) /\ stdout' = Append(stdout, line)
  BY DEF Emit, TypeOK
<1>2. ASSUME Waiting(c) PROVE Answered(c)' <=> Answered(c)
  <2>1. RequestOf(c)' = RequestOf(c) /\ line # RequestOf(c)
    BY <1>2 DEF RequestOf
  <2>2. Holds(stdout', RequestOf(c)) <=> Holds(stdout, RequestOf(c))
    BY <1>1, <2>1, HoldsAppend
  <2>3. QED
    BY <2>1, <2>2 DEF Answered
<1>3. QED
  BY <1>2, SameStage

LEMMA ServerAnswers ==
    ASSUME TypeOK, IdsAreOwn, SentOnce, Unanswered, Server
    PROVE  [Service!Next]_Service!vars
<1>0. UNCHANGED <<requestId, responses, pc, current, outcome>>
  BY DEF Server, table, callerVars
<1>1. CASE ServerRead
  <2>1. UNCHANGED <<stdout, exited>>
    BY <1>1 DEF ServerRead
  <2>2. QED
    BY <1>0, <2>1, SameAnswers, NobodyMoves
<1>2. CASE ServerAnswer
  <2>1. PICK a \in owed : Emit(a)
    BY <1>2 DEF ServerAnswer
  <2>2. a \in Requests /\ UNCHANGED exited /\ stdout' = Append(stdout, a)
    BY <2>1 DEF Emit, TypeOK
  <2>3. CASE \E c \in Callers : Waiting(c) /\ a = RequestOf(c)
    <3>1. PICK c \in Callers : Waiting(c) /\ a = RequestOf(c)
      BY <2>3
    <3>2. a.id = current[c] /\ a.caller = c
      BY <3>1, RequestOfWaiting
    <3>3. ~Answered(c)
      BY <2>1, <2>2, <3>1, <3>2 DEF Answered, Unanswered, SentOnce, Travelling
    <3>4. Answered(c)'
      <4>1. Holds(stdout', RequestOf(c))
        BY <2>2, <3>1, HoldsAppend DEF TypeOK
      <4>2. RequestOf(c)' = RequestOf(c)
        BY <1>0 DEF RequestOf
      <4>3. QED
        BY <4>1, <4>2 DEF Answered
    <3>5. Stage(c) = "sent" /\ Stage(c)' = "answered"
      BY <1>0, <3>1, <3>3, <3>4 DEF Stage, Waiting
    <3>6. ASSUME NEW d \in Callers, d # c PROVE Stage(d)' = Stage(d)
      <4>1. ~(Waiting(d) /\ a = RequestOf(d))
        BY <3>2, <3>6, RequestOfWaiting
      <4>2. QED
        BY <1>0, <2>1, <2>2, <4>1, EmitAnswers
    <3>7. Service!Move(c, {"sent"}, "answered")
      BY <3>5, <3>6, OneMoves
    <3>8. QED
      BY <1>0, <2>2, <3>7 DEF Service!Answer, Service!Next
  <2>4. CASE ~ \E c \in Callers : Waiting(c) /\ a = RequestOf(c)
    BY <1>0, <2>1, <2>2, <2>4, EmitAnswers, NobodyMoves
  <2>5. QED
    BY <2>3, <2>4
<1>3. CASE ServerNoise
  <2>1. PICK n \in Noise : Emit(n)
    BY <1>3 DEF ServerNoise
  <2>2. UNCHANGED exited
    BY <2>1 DEF Emit
  <2>3. \A c \in Callers : ~(Waiting(c) /\ n = RequestOf(c))
    BY RequestOfWaiting, LinesDiffer
  <2>4. QED
    BY <1>0, <2>1, <2>2, <2>3, EmitAnswers, NobodyMoves
<1>4. CASE ServerEnd
  <2>1. UNCHANGED stdout /\ exited = FALSE /\ exited' \in BOOLEAN
    BY <1>4 DEF ServerEnd, TypeOK
  <2>2. \A c \in Callers : Stage(c)' = Stage(c)
    BY <1>0, <2>1, SameAnswers
  <2>3. CASE exited' = TRUE
    BY <1>0, <2>2, <2>3 DEF Stages, Service!ServerExit, Service!Next
  <2>4. CASE exited' = FALSE
    BY <1>0, <2>1, <2>2, <2>4, NobodyMoves
  <2>5. QED
    BY <2>1, <2>3, <2>4
<1>5. QED
  BY <1>1, <1>2, <1>3, <1>4 DEF Server

LEMMA StepImplements ==
    ASSUME IInv, [Next]_vars PROVE [Service!Next]_Service!vars
<1> USE DEF IInv
<1>1. ASSUME NEW c \in Callers, Register(c) \/ Write(c) \/ Collect(c) PROVE Service!Next
  BY <1>1, RegisterAsks, WriteSends, CollectEnds DEF Service!Next
<1>2. ASSUME NEW c \in Callers, Call(c) \/ Wait(c) PROVE UNCHANGED Service!vars
  <2>1. UNCHANGED <<requestId, current, responses, outcome, stdout, exited>>
    BY <1>2 DEF Call, Wait, table, serverVars
  <2>2. ASSUME NEW d \in Callers, d # c PROVE Stage(d)' = Stage(d)
    BY <1>2, <2>1, <2>2, SameAnswers DEF Call, Wait, Goto, TypeOK
  <2>3. Answered(c)' <=> Answered(c)
    BY <2>1 DEF Answered, RequestOf
  <2>4. Stage(c)' = Stage(c)
    BY <1>2, <2>3 DEF Call, Wait, Goto, TypeOK, Stage
  <2>5. QED
    BY <2>1, <2>2, <2>4, NobodyMoves
<1>3. CASE ReadLine
  BY <1>3, ReadKeepsStages, NobodyMoves DEF ReadLine, callerVars, serverVars
<1>4. CASE CheckRunning \/ ReadEof \/ Reply \/ StopRunning \/ WakeAll \/ Close \/ UNCHANGED vars
  <2>1. UNCHANGED <<requestId, current, pc, responses, outcome, stdout, exited>>
    BY <1>4 DEF CheckRunning, ReadEof, Reply, StopRunning, WakeAll, Close, vars, table,
       callerVars, serverVars
  <2>2. QED
    BY <2>1, SameAnswers, NobodyMoves
<1>5. CASE Server
  BY <1>5, ServerAnswers
<1>6. QED
  BY <1>1, <1>2, <1>3, <1>4, <1>5 DEF Next, CallerStep, ReaderStep

\* The client implements RequestService: each step of its threads, its reader and
\* the server is a step of the service or changes nothing there.  So each request
\* has an id of its own, ends once, and returns only an answer to itself.
THEOREM ClientImplementsRequests == Spec => ImplementsRequests
<1>1. Init => Service!Init
  <2> SUFFICES ASSUME Init PROVE Service!Init
    OBVIOUS
  <2>1. Stages = [c \in Callers |-> "free"]
    BY DEF Init, Stages, Stage
  <2>2. QED
    BY <2>1 DEF Init, Service!Init
<1>2. IInv /\ [Next]_vars => [Service!Next]_Service!vars
  BY StepImplements
<1>3. QED
  BY <1>1, <1>2, ClientInvariant, PTL DEF Spec, ImplementsRequests, Service!Spec
=============================================================================
