---------------------------- MODULE AtomicRepair ----------------------------
(***************************************************************************)
(* What a derived-index repair promises: its row appears in one step, is   *)
(* taken back in one step or kept, and nothing else of the rollouts and    *)
(* the threads table changes while a repair is at work.  Only a rollback   *)
(* that breaks down may leave the files in any state.                      *)
(***************************************************************************)
CONSTANTS Threads, Rescues, Target, Contents, Rows, NoRow, RescueRow

VARIABLES source, index, phase

vars == <<source, index, phase>>

Phases == {"idle", "working", "installed", "repaired", "unchanged", "dead", "broken"}
AtWork == {"working", "installed"}
Move(p, from, to) == phase[p] \in from /\ phase' = [phase EXCEPT ![p] = to]

Init ==
    /\ source \in [Threads -> Contents]
    /\ index = [t \in Threads |-> NoRow]
    /\ phase = [p \in Rescues |-> "idle"]

\* A new run examines the writer first ("idle"), then gets to work or stops.
Start(p) ==
    /\ \E to \in {"idle", "working", "unchanged", "dead"} : Move(p, Phases \ AtWork, to)
    /\ UNCHANGED <<source, index>>

Refuse(p) == Move(p, {"working"}, "unchanged") /\ UNCHANGED <<source, index>>

Install(p) ==
    /\ Move(p, {"working"}, "installed")
    /\ index[Target[p]] = NoRow
    /\ index' = [index EXCEPT ![Target[p]] = RescueRow]
    /\ UNCHANGED source

Keep(p) == Move(p, {"installed"}, "repaired") /\ UNCHANGED <<source, index>>

Undo(p) ==
    /\ Move(p, {"installed"}, "working")
    /\ index[Target[p]] = RescueRow
    /\ index' = [index EXCEPT ![Target[p]] = NoRow]
    /\ UNCHANGED source

Die(p) == Move(p, AtWork, "dead") /\ UNCHANGED <<source, index>>

Break(p) ==
    /\ Move(p, AtWork, "broken")
    /\ source' \in [Threads -> Contents]
    /\ index' \in [Threads -> Rows]

\* Codex writes its files between repairs only.
Write(t) ==
    /\ \/ \E more \in Contents :
             /\ source[t] \subseteq more
             /\ source' = [source EXCEPT ![t] = more] /\ UNCHANGED index
       \/ \E row \in Rows \ {RescueRow} :
             index' = [index EXCEPT ![t] = row] /\ UNCHANGED source
    /\ UNCHANGED phase

Idle == \A p \in Rescues : phase[p] \notin AtWork

Next ==
    \/ \E p \in Rescues : Start(p) \/ Refuse(p) \/ Install(p) \/ Keep(p)
                          \/ Undo(p) \/ Die(p) \/ Break(p)
    \/ Idle /\ \E t \in Threads : Write(t)

Spec == Init /\ [][Next]_vars
=============================================================================
