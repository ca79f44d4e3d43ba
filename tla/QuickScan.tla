------------------------------ MODULE QuickScan ------------------------------
(***************************************************************************)
(* lightweight_scan of discovery.py: the status a listing shows for a      *)
(* session is read off the first and the last bytes of its rollout.  The   *)
(* size that says where the tail begins is taken before the two windows    *)
(* are read, and Codex may write at any time.                              *)
(***************************************************************************)
EXTENDS CodexHome

CONSTANTS HeadLimit, TailLimit    \* the windows, in halves of a line

ASSUME WindowAssumption == {HeadLimit, TailLimit} \subseteq Nat \ {0}

VARIABLES
    quick,      \* the session, its size, where the tail begins and ends, what the head holds
    seen        \* history: the rollout when the tail was read

quickVars == <<quick, seen>>
NoQuick == [session |-> "none", size |-> 0, header |-> FALSE, end |-> 0]

QuickTypeOK ==
    /\ quick \in [session : Sessions \cup {"none"}, size : Nat, header : BOOLEAN, end : Nat]
    /\ seen \in Seq(Records)

QuickInit == quick = NoQuick /\ seen = <<>>

Least(a, b) == IF a < b THEN a ELSE b
Monus(a, b) == IF a < b THEN 0 ELSE a - b

OffsetLate == Monus(quick.size, TailLimit - 3)     \* mutant: begins too late
Offset == Monus(quick.size, TailLimit)

\* _iter_lines of the tail: lines with a byte before the window are dropped, and
\* a last one without its end is kept.
WholeLines == {i \in 1..Len(seen) : 2 * (i - 1) >= Offset /\ 2 * i <= quick.end}
CutLine    == quick.end % 2 = 1

\* _scan_window and _tail_findings: only the tail counts for the status.
Malformed  == CutLine \/ \E i \in WholeLines : seen[i].kind = "bad"
Of(kind)   == {seen[i].id : i \in {j \in WholeLines : seen[j].kind = kind}}
Unfinished == ~(Of("call") \subseteq Of("output"))

-----------------------------------------------------------------------------
QuickStart(s) ==
    /\ pc = "idle" /\ place[s] # "nowhere"
    /\ quick' = [NoQuick EXCEPT !.session = s]
    /\ seen' = <<>>
    /\ pc' = "quickSize" /\ result' = "none"

QuickSize ==
    /\ pc = "quickSize"
    /\ quick' = [quick EXCEPT !.size = Size(quick.session)]
    /\ Goto("quickHead") /\ UNCHANGED seen

\* The head gives the metadata; what is malformed in it goes unnoticed.
QuickHead ==
    /\ pc = "quickHead"
    /\ quick' = [quick EXCEPT !.header = HeadLimit >= 2]
    /\ Goto("quickTail") /\ UNCHANGED seen

QuickTail ==
    /\ pc = "quickTail"
    /\ quick' = [quick EXCEPT !.end = Least(Offset + TailLimit, Size(quick.session))]
    /\ seen' = log[quick.session]
    /\ Goto("quickVerdict")

Conflict == ResolveThread(quick.session,
                quick.header \/ \E i \in WholeLines : seen[i].kind = "meta").conflict

QuickVerdict ==
    /\ pc = "quickVerdict"
    /\ Answer(IF Malformed THEN "damaged"
              ELSE IF Unfinished \/ Conflict THEN "suspicious" ELSE "healthy")
    /\ UNCHANGED quickVars

QuickStep ==
    /\ \/ \E s \in Sessions : QuickStart(s)
       \/ QuickSize \/ QuickHead \/ QuickTail \/ QuickVerdict
    /\ UNCHANGED home

\* The scan beside a Codex that takes any turn.
QuickSpec ==
    /\ HomeInit /\ pc = "idle" /\ result = "none" /\ QuickInit
    /\ [][QuickStep \/ (HomeTurn /\ UNCHANGED quickVars)]_<<home, pc, result, quickVars>>

-----------------------------------------------------------------------------
(* The last lines that were whole when the size was taken: half a line at  *)
(* either end may be lost to a window that starts between two lines.       *)
Sized      == quick.size \div 2
RecentCalls == {i \in Monus(Sized, (TailLimit - 1) \div 2) + 1..Sized : seen[i].kind = "call"}

\* A session listed as healthy had an output for every call among its last lines,
\* read by then, however Codex wrote while it was scanned; one listed as damaged
\* had half a line or a bad one on disk when its size was taken, or was shorter
\* than the window and grew under it.
HealthyTailIsClosed ==
    /\ result = "healthy" =>
          \A i \in RecentCalls :
             \E j \in 1..Len(seen) : seen[j].kind = "output" /\ seen[j].id = seen[i].id
    /\ result = "damaged" =>
          \/ quick.size % 2 = 1
          \/ \E i \in 1..Len(seen) : seen[i].kind = "bad"
          \/ quick.size < quick.end
=============================================================================
