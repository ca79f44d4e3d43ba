--------------------------- MODULE RequestService ---------------------------
(***************************************************************************)
(* What StdioJsonRpcClient promises the threads that share it: a request   *)
(* gets an id of its own, is sent at most once and ends exactly once.  It  *)
(* returns a result only after the server answered that very request, and  *)
(* reports an exit only when the server is gone; an answer that comes too  *)
(* late ends nothing.                                                      *)
(***************************************************************************)
EXTENDS Naturals

CONSTANTS Callers, Ids

VARIABLES
    asked,     \* the number of requests, and the last id given out
    request,   \* the id of each caller's last request
    stage,     \* how far it has come
    ended,     \* how each request ended
    gone       \* the server has exited

vars == <<asked, request, stage, ended, gone>>

Move(c, from, to) == stage[c] \in from /\ stage' = [stage EXCEPT ![c] = to]

Init ==
    /\ asked = 0
    /\ request = [c \in Callers |-> 0]
    /\ stage = [c \in Callers |-> "free"]
    /\ ended = [i \in Ids |-> "none"]
    /\ gone = FALSE

Ask(c) ==
    /\ Move(c, {"free"}, "asked")
    /\ asked + 1 \in Ids
    /\ asked' = asked + 1
    /\ request' = [request EXCEPT ![c] = asked + 1]
    /\ UNCHANGED <<ended, gone>>

Send(c)   == Move(c, {"asked"}, "sent")    /\ UNCHANGED <<asked, request, ended, gone>>
Answer(c) == Move(c, {"sent"}, "answered") /\ UNCHANGED <<asked, request, ended, gone>>

End(c, from, how) ==
    /\ Move(c, from, "free")
    /\ ended[request[c]] = "none"
    /\ ended' = [ended EXCEPT ![request[c]] = how]
    /\ UNCHANGED <<asked, request, gone>>

Refuse(c)  == End(c, {"asked"}, "writeFailed")
Return(c)  == End(c, {"answered"}, "result")
GiveUp(c)  == End(c, {"sent", "answered"}, IF gone THEN "exited" ELSE "timeout")

ServerExit == gone' = TRUE /\ UNCHANGED <<asked, request, stage, ended>>

Next ==
    \/ \E c \in Callers : Ask(c) \/ Send(c) \/ Answer(c) \/ Refuse(c) \/ Return(c) \/ GiveUp(c)
    \/ ServerExit

Spec == Init /\ [][Next]_vars
=============================================================================
