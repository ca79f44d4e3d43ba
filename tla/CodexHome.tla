------------------------------ MODULE CodexHome ------------------------------
(***************************************************************************)
(* The Codex home that codex-rescue's read-only commands look at while     *)
(* Codex goes on writing to it: rollouts in sessions/ and in               *)
(* archived_sessions/, the rows of the state databases, the cursor of the  *)
(* projection that follows a rollout, the spawn edge of a subagent and the *)
(* lock of a live writer.  Codex itself is no part of the repository: it   *)
(* is what the commands must cope with, as their code and tests expect it. *)
(*                                                                         *)
(* A rollout is a sequence of whole lines and, perhaps, a torn last one.   *)
(* Sizes are in halves of a line: a whole line is two units, a torn one is *)
(* one.  Every write gives a new mtime.                                    *)
(***************************************************************************)
EXTENDS Naturals, Sequences, FiniteSetsExt, SequencesExt

CONSTANTS
    Sessions,   \* thread ids
    Stores,     \* database files, in the order they are read
    IndexStore, \* the one with the threads and their spawn edges
    Turns,      \* bound: what Codex does to the home
    Lines,      \* bound: whole lines of a rollout
    Windows     \* the home's paths are Windows paths

ASSUME HomeAssumption ==
    /\ IsFiniteSet(Sessions) /\ {"none", "other"} \cap Sessions = {}
    /\ Stores \in Seq(STRING) /\ Stores # <<>> /\ IndexStore \in Range(Stores)
    /\ Turns \in Nat /\ Lines \in Nat \ {0} /\ Windows \in BOOLEAN

Kinds == {"meta", "note", "call", "output", "start", "end", "bad", "big"}

\* id names the call of a call or an output; every line has an ordinal and the
\* identity of the process that wrote it.
Records == [kind : Kinds, id : Nat, ordinal : Nat, writer : {"main", "other"}]
Record(k, i, o) == [kind |-> k, id |-> i, ordinal |-> o, writer |-> "main"]
Meta == Record("meta", 0, 0)

Folders == <<"sessions", "archived_sessions">>       \* in the order they are swept
Places  == Range(Folders) \cup {"nowhere"}
Rows    == Range(Folders) \cup {"absent"}
Paths   == [folder : Range(Folders), session : Sessions]
SweepOf(folder) ==
    LET s == SetToSeq(Sessions) IN [i \in DOMAIN s |-> [folder |-> folder, session |-> s[i]]]
Sweep == SweepOf(Folders[1]) \o SweepOf(Folders[2])
NoCursor == [offset |-> 0, ordinal |-> 0, present |-> FALSE]
Cursors  == [offset : Nat, ordinal : Nat, present : BOOLEAN]
CursorAfter(n, record) == [offset |-> 2 * n, ordinal |-> record.ordinal + 1, present |-> TRUE]

VARIABLES
    named,      \* the rollouts whose file name is the canonical one
    claim,      \* what the header of a rollout says of the thread's id
    place,      \* where the rollout of a session is
    log, torn,  \* its whole lines, and whether half a line follows
    mtime,      \* the turn of its last write
    row,        \* the path its row in the index names: a folder, or "absent"
    cursor,     \* how far each store's projection of it has come
    edge,       \* the spawn edge that made it a subagent
    alive,      \* a writer lock of it names a live process
    readable,   \* the databases can be read
    turns,      \* what Codex did so far

    pc,         \* the next step of the command the user runs
    result      \* what it printed last

home    == <<named, claim, place, log, torn, mtime, row, cursor, edge, alive, readable, turns>>
header  == <<named, claim>>
rollout == <<log, torn, mtime>>

Claims == {"own", "other", "empty", "absent", "session"}   \* "session": session_id only

HomeTypeOK ==
    /\ named \subseteq Sessions /\ claim \in [Sessions -> Claims]
    /\ place \in [Sessions -> Places]
    /\ log \in [Sessions -> Seq(Records)]
    /\ \A s \in Sessions : Len(log[s]) \in 1..Lines
    /\ torn \in [Sessions -> BOOLEAN]
    /\ mtime \in [Sessions -> 0..Turns]
    /\ row \in [Sessions -> Rows]
    /\ cursor \in [Sessions -> [Range(Stores) -> Cursors]]
    /\ edge \in [Sessions -> {"unrecorded", "open", "closed"}]
    /\ alive \in [Sessions -> BOOLEAN]
    /\ readable \in BOOLEAN
    /\ turns \in 0..Turns

\* Every session starts with its header line, in place, indexed and projected, or not yet.
HomeInit ==
    /\ named \in SUBSET Sessions /\ claim \in [Sessions -> Claims]
    /\ \E here \in [Sessions -> Places] :
          /\ place = here
          /\ row \in [Sessions -> {"absent"} \cup (Range(here) \cap Range(Folders))]
    /\ log = [s \in Sessions |-> <<Meta>>]
    /\ torn = [s \in Sessions |-> FALSE]
    /\ mtime = [s \in Sessions |-> 0]
    /\ \E projected \in SUBSET Range(Stores) :
          cursor = [s \in Sessions |-> [d \in Range(Stores) |->
                       IF d \in projected THEN CursorAfter(1, Meta) ELSE NoCursor]]
    /\ edge \in [Sessions -> {"unrecorded", "open"}]
    /\ alive = [s \in Sessions |-> FALSE]
    /\ readable = TRUE /\ turns = 0

There(p) == place[p.session] = p.folder

\* compare_windows_paths, of two paths spelled alike: others cannot be told apart
\* for sure unless both are Windows paths.
Relation(p, q) ==
    IF p = q THEN "EQUIVALENT" ELSE IF Windows THEN "DIFFERENT" ELSE "UNKNOWN"

Size(s) == 2 * Len(log[s]) + (IF torn[s] THEN 1 ELSE 0)
StatSize(s) == [size |-> Size(s)]     \* mutant: the time is no part of it
Stat(s) == [size |-> Size(s), mtime |-> mtime[s]]
Stats   == [size : Nat, mtime : 0..Turns]
NoStat  == [size |-> 0, mtime |-> 0]

\* resolve_thread_identity: the header, if it was read, before the file's name.
Thread(t)  == [thread |-> t, conflict |-> FALSE]
NoThread   == Thread("none")
ResolveThread(s, seen) ==
    LET id == IF seen THEN claim[s] ELSE "absent" IN
    CASE id = "own"                             -> Thread(s)
      [] id = "other" /\ s \in named            -> [NoThread EXCEPT !.conflict = TRUE]
      [] id = "other" /\ s \notin named         -> Thread("other")
      [] id \in {"absent", "session"} /\ s \in named -> Thread(s)
      [] id = "session" /\ s \notin named       -> Thread(s)
      [] OTHER                                  -> NoThread

Goto(step)     == pc' = step /\ UNCHANGED result
Answer(status) == pc' = "idle" /\ result' = status

-----------------------------------------------------------------------------
(* What Codex does.  Every turn is one system call or one transaction.     *)
Turn == turns < Turns /\ turns' = turns + 1 /\ UNCHANGED <<pc, result>>
Touch(s) == mtime' = [mtime EXCEPT ![s] = turns + 1]

WriteLine(s, r) ==
    /\ Turn /\ place[s] # "nowhere" /\ Len(log[s]) < Lines
    /\ log' = [log EXCEPT ![s] = @ \o <<r>>]
    /\ torn' = [torn EXCEPT ![s] = FALSE]      \* the rest of a torn line, if there is one
    /\ Touch(s)
    /\ UNCHANGED <<header, place, row, cursor, edge, alive, readable>>

\* Half of a line is on disk and the rest is not yet, or never.
Tear(s) ==
    /\ Turn /\ place[s] # "nowhere" /\ ~torn[s] /\ Len(log[s]) < Lines
    /\ torn' = [torn EXCEPT ![s] = TRUE]
    /\ Touch(s)
    /\ UNCHANGED <<header, place, log, row, cursor, edge, alive, readable>>

\* A session is archived, taken out of the archive, or deleted; its row follows
\* in a transaction of its own.
Move(s, to) ==
    /\ Turn /\ place[s] \notin {"nowhere", to}
    /\ place' = [place EXCEPT ![s] = to]
    /\ UNCHANGED <<header, rollout, row, cursor, edge, alive, readable>>

\* A session begins, or is put back.
Create(s) ==
    /\ Turn /\ place[s] = "nowhere"
    /\ place' = [place EXCEPT ![s] = "sessions"]
    /\ Touch(s)
    /\ UNCHANGED <<header, log, torn, row, cursor, edge, alive, readable>>

WriteRow(s, value) ==
    /\ Turn /\ value \in Rows \ {row[s]}
    /\ row' = [row EXCEPT ![s] = value]
    /\ UNCHANGED <<header, place, rollout, cursor, edge, alive, readable>>

\* A store's projection takes in the next lines and commits where it is now.
Project(s, d, n) ==
    /\ Turn /\ n \in 1..Len(log[s]) /\ 2 * n > cursor[s][d].offset
    /\ cursor' = [cursor EXCEPT ![s][d] = CursorAfter(n, log[s][n])]
    /\ UNCHANGED <<header, place, rollout, row, edge, alive, readable>>

SetEdge(s, value) ==
    /\ Turn /\ edge[s] # value
    /\ edge' = [edge EXCEPT ![s] = value]
    /\ UNCHANGED <<header, place, rollout, row, cursor, alive, readable>>

\* The writer's process starts and takes its lock, or ends and leaves it behind.
SetAlive(s, value) ==
    /\ Turn /\ alive[s] # value
    /\ alive' = [alive EXCEPT ![s] = value]
    /\ UNCHANGED <<header, place, rollout, row, cursor, edge, readable>>

\* A database is locked or being replaced, or can be read again.
SetReadable(value) ==
    /\ Turn /\ readable # value
    /\ readable' = value
    /\ UNCHANGED <<header, place, rollout, row, cursor, edge, alive>>

\* Any turn at all: the proofs let Codex take every one, the runs those a command
\* can notice.
HomeTurn ==
    \/ \E s \in Sessions :
          \/ \E r \in Records : WriteLine(s, r)
          \/ Tear(s) \/ Create(s)
          \/ \E to \in Places : Move(s, to)
          \/ \E value \in Rows : WriteRow(s, value)
          \/ \E d \in Range(Stores), n \in 1..Lines : Project(s, d, n)
          \/ \E value \in {"unrecorded", "open", "closed"} : SetEdge(s, value)
          \/ \E value \in BOOLEAN : SetAlive(s, value)
    \/ \E value \in BOOLEAN : SetReadable(value)
=============================================================================
