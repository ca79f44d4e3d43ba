-------------------------- MODULE AppServerClient --------------------------
(***************************************************************************)
(* StdioJsonRpcClient of alpha7/surfaces/app_server.py: threads that call  *)
(* send_request, the background reader thread that routes what the Codex   *)
(* app server writes, and the two pipes between the processes.  The server *)
(* is external: it may answer late, in any order or never, ask the client  *)
(* something itself, write junk, close its output or exit.                 *)
(***************************************************************************)
EXTENDS Naturals, Sequences, FiniteSets

CONSTANTS
    Callers,       \* threads that call send_request
    MaxRequests,   \* bound: requests sent in a behaviour
    MaxNoise,      \* bound: notifications, server requests and junk lines
    PipeCapacity   \* lines a pipe holds before its writer blocks

ASSUME AppServerAssumption ==
    MaxRequests \in Nat /\ MaxNoise \in Nat /\ PipeCapacity \in Nat \ {0}

VARIABLES
    requestId,     \* _request_id
    events,        \* _pending_events: request id -> the caller whose event it is
    signalled,     \* callers whose event is set
    responses,     \* _pending_responses: request id -> the caller it answers
    running,       \* _running
    pc,            \* the next step of each caller
    current,       \* the id of its request
    outcome,       \* how each request ended
    reader,        \* the next step of the reader thread
    stdin,         \* lines on their way to the server
    stdinOpen,
    stdout,        \* lines on their way to the client
    stdoutOpen,
    exited,        \* the server process is gone: poll() is not None
    owed,          \* requests the server has read and not answered
    noise          \* lines the server wrote on its own account

table      == <<requestId, events, responses>>
callerVars == <<pc, current, outcome>>
serverVars == <<stdoutOpen, exited, owed, noise>>
vars == <<table, signalled, running, callerVars, reader, stdin, stdinOpen, stdout, serverVars>>

Ids      == 1..MaxRequests
Requests == [id : Ids, caller : Callers]
Noise    == [noise : {"request", "other"}]  \* other: notifications and protocol errors
Refusal  == [noise |-> "refusal"]       \* the client's answer to a server request

Outcomes == {"none", "writeFailed", "result", "timeout", "exited"}

TypeOK ==
    /\ requestId \in 0..MaxRequests
    /\ DOMAIN events \subseteq Ids /\ \A i \in DOMAIN events : events[i] \in Callers
    /\ DOMAIN responses \subseteq Ids /\ \A i \in DOMAIN responses : responses[i] \in Callers
    /\ signalled \subseteq Callers
    /\ running \in BOOLEAN
    /\ pc \in [Callers -> {"idle", "register", "write", "wait", "collectSignalled",
                           "collectTimedOut"}]
    /\ current \in [Callers -> 0..MaxRequests]
    /\ outcome \in [Ids -> Outcomes]
    /\ reader \in {"loop", "readline", "reply", "closing", "waking", "stopped"}
    /\ stdin \in Seq(Requests \cup {Refusal}) /\ Len(stdin) <= PipeCapacity
    /\ stdout \in Seq(Requests \cup Noise) /\ Len(stdout) <= PipeCapacity
    /\ {stdinOpen, stdoutOpen, exited} \subseteq BOOLEAN
    /\ owed \subseteq Requests
    /\ noise \in 0..MaxNoise

NoEntries == [i \in {} |-> {}]
Put(table_, id, caller) == [i \in DOMAIN table_ \cup {id} |-> IF i = id THEN caller ELSE table_[i]]
Pop(table_, id) == [i \in DOMAIN table_ \ {id} |-> table_[i]]

Init ==
    /\ requestId = 0 /\ events = NoEntries /\ responses = NoEntries
    /\ signalled = {} /\ running = TRUE
    /\ pc = [c \in Callers |-> "idle"]
    /\ current = [c \in Callers |-> 0]
    /\ outcome = [i \in Ids |-> "none"]
    /\ reader = "loop"
    /\ stdin = <<>> /\ stdout = <<>>
    /\ stdinOpen = TRUE /\ stdoutOpen = TRUE /\ exited = FALSE
    /\ owed = {} /\ noise = 0

-----------------------------------------------------------------------------
(* send_request.                                                           *)

Goto(c, step) == pc' = [pc EXCEPT ![c] = step]
Return(c, how) == Goto(c, "idle") /\ outcome' = [outcome EXCEPT ![current[c]] = how]

\* A call is refused, changing nothing, once the process is gone and the reader
\* has noticed.
Call(c) ==
    /\ pc[c] = "idle"
    /\ requestId + Cardinality({d \in Callers : pc[d] = "register"}) < MaxRequests
    /\ ~(exited /\ ~running)
    /\ Goto(c, "register")
    /\ UNCHANGED <<table, signalled, running, current, outcome, reader, stdin, stdinOpen,
                   stdout, serverVars>>

NextIdStale == IF requestId = 0 THEN 1 ELSE requestId     \* mutant: not incremented
NextIdBeforeIncrement == requestId                        \* mutant: ids from zero
NextId == requestId + 1

FreshEvent(c) == signalled \ {c}

\* Under _lock: a fresh id, and a new event for it, before anything is sent.
Register(c) ==
    /\ pc[c] = "register"
    /\ requestId' = NextId
    /\ current' = [current EXCEPT ![c] = NextId]
    /\ events' = Put(events, NextId, c)
    /\ signalled' = FreshEvent(c)
    /\ Goto(c, "write")
    /\ UNCHANGED <<responses, outcome, running, reader, stdin, stdinOpen, stdout, serverVars>>

Broken  == exited \/ ~stdinOpen
HasRoom == Len(stdin) < PipeCapacity

\* The write blocks while the pipe is full; a broken pipe raises out of
\* send_request and leaves the event registered.
Write(c) ==
    /\ pc[c] = "write"
    /\ \/ Broken /\ Return(c, "writeFailed") /\ UNCHANGED stdin
       \/ /\ ~Broken /\ HasRoom
          /\ stdin' = Append(stdin, [id |-> current[c], caller |-> c])
          /\ Goto(c, "wait") /\ UNCHANGED outcome
    /\ UNCHANGED <<table, signalled, running, current, reader, stdinOpen, stdout, serverVars>>

\* evt.wait returns: whether it was in time is decided here, before _lock is
\* taken to collect.
WaitUntimed(c) ==                        \* mutant: no timeout
    /\ pc[c] = "wait" /\ c \in signalled
    /\ Goto(c, "collectSignalled")
    /\ UNCHANGED <<table, signalled, running, current, outcome, reader, stdin, stdinOpen,
                   stdout, serverVars>>

Wait(c) ==
    /\ pc[c] = "wait"
    /\ Goto(c, IF c \in signalled THEN "collectSignalled" ELSE "collectTimedOut")
    /\ UNCHANGED <<table, signalled, running, current, outcome, reader, stdin, stdinOpen,
                   stdout, serverVars>>

ForgetNothing(c) == UNCHANGED events     \* mutant: the event stays registered
ForgetEvent(c) == events' = Pop(events, current[c])

Failure == IF exited THEN "exited" ELSE "timeout"

ResultWhenWoken(c) == "result"           \* mutant: the response is not looked for
Result(c) == IF current[c] \in DOMAIN responses THEN "result" ELSE Failure

Collect(c) ==
    /\ \/ pc[c] = "collectSignalled"
          /\ Return(c, Result(c))
       \/ pc[c] = "collectTimedOut" /\ Return(c, Failure)
    /\ responses' = Pop(responses, current[c])
    /\ ForgetEvent(c)
    /\ UNCHANGED <<requestId, signalled, running, current, reader, stdin, stdinOpen, stdout,
                   serverVars>>

CallerStep(c) == Register(c) \/ Write(c) \/ Wait(c) \/ Collect(c)

-----------------------------------------------------------------------------
(* _reader_loop.                                                           *)

CheckRunning ==
    /\ reader = "loop"
    /\ reader' = IF running THEN "readline" ELSE "closing"
    /\ UNCHANGED <<table, signalled, running, callerVars, stdin, stdinOpen, stdout, serverVars>>

WokenBeforeStored(line) == signalled        \* mutant: the event is not set
Woken(line) ==
    IF line.id \in DOMAIN events THEN signalled \cup {events[line.id]} ELSE signalled

\* A response is stored whether or not its request still waits.
Route(line) ==
    /\ responses' = Put(responses, line.id, line.caller)
    /\ signalled' = Woken(line)
    /\ reader' = "loop"

ReadLine ==
    /\ reader = "readline" /\ stdout # <<>>
    /\ stdout' = Tail(stdout)
    /\ IF Head(stdout) \in Noise
       THEN /\ reader' = IF Head(stdout).noise = "request" THEN "reply" ELSE "loop"
            /\ UNCHANGED <<responses, signalled>>
       ELSE Route(Head(stdout))
    /\ UNCHANGED <<requestId, events, running, callerVars, stdin, stdinOpen, serverVars>>

ReadEof ==
    /\ reader = "readline" /\ stdout = <<>> /\ ~stdoutOpen
    /\ reader' = "closing"
    /\ UNCHANGED <<table, signalled, running, callerVars, stdin, stdinOpen, stdout, serverVars>>

\* The reader itself writes the refusal of a server request, with no lock.
Reply ==
    /\ reader = "reply"
    /\ Broken \/ HasRoom
    /\ stdin' = IF Broken THEN stdin ELSE Append(stdin, Refusal)
    /\ reader' = "loop"
    /\ UNCHANGED <<table, signalled, running, callerVars, stdinOpen, stdout, serverVars>>

StopRunning ==
    /\ reader = "closing"
    /\ running' = FALSE /\ reader' = "waking"
    /\ UNCHANGED <<table, signalled, callerVars, stdin, stdinOpen, stdout, serverVars>>

WakeAll ==
    /\ reader = "waking"
    /\ signalled' = signalled \cup {events[i] : i \in DOMAIN events}
    /\ reader' = "stopped"
    /\ UNCHANGED <<table, running, callerVars, stdin, stdinOpen, stdout, serverVars>>

ReaderStep == CheckRunning \/ ReadLine \/ ReadEof \/ Reply \/ StopRunning \/ WakeAll

-----------------------------------------------------------------------------
(* close, and the external server.                                         *)

Close ==
    /\ stdinOpen
    /\ running' = FALSE /\ stdinOpen' = FALSE
    /\ UNCHANGED <<table, signalled, callerVars, reader, stdin, stdout, serverVars>>

ServerRead ==
    /\ ~exited /\ stdin # <<>>
    /\ stdin' = Tail(stdin)
    /\ owed' = IF Head(stdin) = Refusal THEN owed ELSE owed \cup {Head(stdin)}
    /\ UNCHANGED <<stdout, stdoutOpen, exited, noise>>

Emit(line) ==
    /\ ~exited /\ stdoutOpen /\ Len(stdout) < PipeCapacity
    /\ stdout' = Append(stdout, line)
    /\ UNCHANGED <<stdin, stdoutOpen, exited>>

ServerAnswer ==
    \E request \in owed :
        Emit(request) /\ owed' = owed \ {request} /\ UNCHANGED noise

ServerNoise ==
    /\ noise < MaxNoise /\ noise' = noise + 1
    /\ \E line \in Noise : Emit(line)
    /\ UNCHANGED owed

ServerEnd ==
    /\ ~exited
    /\ stdoutOpen' = FALSE
    /\ exited' \in {TRUE, stdoutOpen = FALSE}
    /\ UNCHANGED <<stdin, stdout, owed, noise>>

Server ==
    /\ ServerRead \/ ServerAnswer \/ ServerNoise \/ ServerEnd
    /\ UNCHANGED <<table, signalled, running, callerVars, reader, stdinOpen>>

Next ==
    \/ \E c \in Callers : Call(c) \/ CallerStep(c)
    \/ ReaderStep
    \/ Close
    \/ Server

\* Both kinds of client thread keep running; the server need not.
Spec ==
    /\ Init /\ [][Next]_vars
    /\ \A c \in Callers : WF_vars(CallerStep(c))
    /\ WF_vars(ReaderStep)

-----------------------------------------------------------------------------
(* Properties.                                                             *)

Waiting(c) == pc[c] \in {"wait", "collectSignalled", "collectTimedOut"}

\* Request/response correlation: no caller finds another caller's answer
\* under its id, whatever order the answers arrive in.
AnswerIsOwn ==
    \A c \in Callers :
        Waiting(c) /\ current[c] \in DOMAIN responses => responses[current[c]] = c

\* Handing over: an answer stored while its request is pending has set that
\* request's event, and a caller woken without an answer was woken by the end of
\* the reader, so a timeout or an exit reported is never an answer thrown away.
WakesForItsAnswer ==
    \A c \in Callers : Waiting(c) =>
        /\ current[c] \in DOMAIN responses => c \in signalled
        /\ c \in signalled /\ current[c] \notin DOMAIN responses
              => reader = "stopped" /\ ~running

\* Answers left behind belong to requests that gave up waiting, and events
\* left behind to requests whose write failed: the tables leak nothing else.
LeftoversAreAbandoned ==
    /\ \A i \in DOMAIN responses \ DOMAIN events : outcome[i] \in {"timeout", "exited"}
    /\ \A i \in DOMAIN events : outcome[i] \in {"none", "writeFailed"}

Holds(pipe, line) == \E k \in 1..Len(pipe) : pipe[k] = line
RequestOf(c) == [id |-> current[c], caller |-> c]

\* The answer to a caller's request was written, whether or not it was read yet.
Answered(c) == current[c] \in DOMAIN responses \/ Holds(stdout, RequestOf(c))

Stage(c) ==
    IF pc[c] \in {"idle", "register"} THEN "free"
    ELSE IF pc[c] = "write" THEN "asked"
    ELSE IF Answered(c) THEN "answered" ELSE "sent"

Stages == [c \in Callers |-> Stage(c)]

Service == INSTANCE RequestService
    WITH asked <- requestId, request <- current, stage <- Stages, ended <- outcome,
         gone <- exited

\* The client implements RequestService: however its threads, the reader and the
\* server interleave, each request gets an id of its own, ends once, and returns
\* only what the server answered to it.
ImplementsRequests == Service!Spec

\* send_request "blocks until matching response ID arrives or timeout expires".
EveryRequestEnds == \A c \in Callers : pc[c] # "idle" ~> pc[c] = "idle"
=============================================================================
