------------------------------- MODULE Observer -------------------------------
(***************************************************************************)
(* poll_once of the black box observer (observer.py), called again and     *)
(* again: a sweep of both folders, file by file, a read of every database, *)
(* query by query, and events for what differs from the poll before.  The  *)
(* recorder keeps every event; the caller gets those of the polls that     *)
(* return.  A change in a database makes a poll raise, because the two     *)
(* kinds of event it would record do not exist (EventType), and so does a  *)
(* database that goes away while it is looked for.                         *)
(***************************************************************************)
EXTENDS CodexHome

CONSTANT Polls                  \* bound: calls of poll_once

ASSUME PollAssumption == Polls \in Nat

\* FileValueSnapshot: the size of the stat, and the content hashed after it, which
\* its own size stands for.
Snapshots == [path : Paths, size : Nat, content : Nat]

\* What one poll has of the databases: the tables it counted, how many rows each had,
\* and the values of the rows, by the thread alone, whichever database they are from.
Tables   == Range(Stores) \X {"threads", "cursors"}
DbStates == [read : SUBSET Tables, counts : [Tables -> Nat], rows : [Sessions -> Rows],
             cursors : [Sessions -> Cursors]]
NoDb == [read |-> {}, counts |-> [t \in Tables |-> 0], rows |-> [s \in Sessions |-> "absent"],
         cursors |-> [s \in Sessions |-> NoCursor]]

VARIABLES
    sweep,      \* the paths still to visit, the stat of the one being hashed, the
                \* paths this poll has created and deleted, and the database it is at
    found,      \* current_fs_state
    fsBase,     \* _last_fs_state
    db, dbBase, \* what this poll read of the databases, and what the last one left
    polls,
    recorded,   \* paths there by the recorder's events, replayed
    reported,   \* paths there by the events the caller got, replayed

    \* history, for the properties only
    been,       \* where each rollout was during this sweep, and how long
    unarchived, \* sessions put back into sessions/ during this sweep
    trouble     \* the databases were changed, passed over or gone since the first poll

pollVars     == <<fsBase, dbBase, recorded, reported>>
watchVars    == <<been, unarchived, trouble>>
observerVars == <<sweep, found, db, polls, pollVars, watchVars>>

\* What a poll keeps to itself ends with it.
NoSweep == [todo |-> <<>>, size |-> 0, created |-> {}, deleted |-> {}, at |-> 1]
PollEnds ==
    /\ sweep' = NoSweep /\ found' = {} /\ db' = NoDb
    /\ been' = [s \in Sessions |-> {}] /\ unarchived' = {}

PathsOf(state) == {f.path : f \in state}
Where(s) == [place |-> place[s], size |-> Size(s)]

ObserverTypeOK ==
    /\ sweep \in [todo : Seq(Paths), size : Nat, created : SUBSET Paths, deleted : SUBSET Paths,
                  at : 1..(Len(Stores) + 1)]
    /\ \A f \in found \cup fsBase : f \in Snapshots
    /\ db \in DbStates /\ dbBase \in DbStates
    /\ polls \in 0..Polls
    /\ recorded \subseteq Paths /\ reported \subseteq Paths
    /\ \A s \in Sessions : been[s] \subseteq [place : Places, size : Nat]
    /\ unarchived \subseteq Sessions /\ trouble \subseteq {"moved", "skipped", "gone"}

ObserverInit ==
    /\ sweep = NoSweep /\ found = {} /\ fsBase = {} /\ db = NoDb /\ dbBase = NoDb
    /\ polls = 0 /\ recorded = {} /\ reported = {}
    /\ been = [s \in Sessions |-> {}] /\ unarchived = {} /\ trouble = {}

-----------------------------------------------------------------------------
PollStart ==
    /\ pc = "idle" /\ polls < Polls
    /\ polls' = polls + 1
    /\ sweep' = [NoSweep EXCEPT !.todo = Sweep]
    /\ been' = [s \in Sessions |-> {Where(s)}]
    /\ pc' = "pollStat" /\ result' = "none"
    /\ UNCHANGED <<found, db, pollVars, unarchived, trouble>>

\* The walk raises if a folder is taken away under it: nothing was recorded yet.
WalkFails ==
    /\ pc = "pollStat" /\ Answer("raised") /\ PollEnds
    /\ UNCHANGED <<polls, pollVars, trouble>>

SweepStat ==
    /\ pc = "pollStat" /\ sweep.todo # <<>>
    /\ LET p == Head(sweep.todo) IN
       IF There(p)
       THEN sweep' = [sweep EXCEPT !.size = Size(p.session)] /\ Goto("pollHash")
       ELSE sweep' = [sweep EXCEPT !.todo = Tail(@)] /\ Goto("pollStat")
    /\ UNCHANGED <<found, db, polls, pollVars, watchVars>>

HashedGone(p) ==                             \* mutant: the stat is enough
    {[path |-> p, size |-> sweep.size, content |-> IF There(p) THEN Size(p.session) ELSE 0]}
\* A file gone between its stat and its hash is left out of the poll.
Hashed(p) ==
    IF There(p)
    THEN {[path |-> p, size |-> sweep.size, content |-> Size(p.session)]} ELSE {}

SweepHash ==
    /\ pc = "pollHash"
    /\ found' = found \cup Hashed(Head(sweep.todo))
    /\ sweep' = [sweep EXCEPT !.todo = Tail(@)]
    /\ Goto("pollStat")
    /\ UNCHANGED <<db, polls, pollVars, watchVars>>

\* ROLLOUT_CREATED and ROLLOUT_DELETED (ROLLOUT_APPENDED adds and removes no path);
\* the new baseline is in place before the databases are looked at.
SweepEnd ==
    /\ pc = "pollStat" /\ sweep.todo = <<>>
    /\ LET created == PathsOf(found) \ PathsOf(fsBase)
           deleted == PathsOf(fsBase) \ PathsOf(found)
       IN  /\ sweep' = [NoSweep EXCEPT !.created = created, !.deleted = deleted]
           /\ recorded' = (recorded \cup created) \ deleted
    /\ fsBase' = found
    /\ Goto("pollOpen")
    /\ UNCHANGED <<found, db, dbBase, polls, reported, watchVars>>

\* Databases are read one after the other, each query of what they hold then.  One that
\* is not there, is empty or fails a query is passed over, and what was read of it is
\* kept.  exists() and stat() are asked outside the try: a database that goes away
\* between the two makes the poll raise.
Store == Stores[sweep.at]
OpenStore ==
    /\ pc = "pollOpen" /\ sweep.at <= Len(Stores)
    /\ \/ /\ Goto(IF Store = IndexStore THEN "pollCount" ELSE "pollCountCursors")
          /\ UNCHANGED <<sweep, found, db, watchVars>>
       \/ Answer("raised") /\ PollEnds /\ trouble' = trouble \cup {"gone"}
    /\ UNCHANGED <<polls, pollVars>>

PassOver ==
    /\ pc \in {"pollOpen", "pollCount", "pollRows", "pollCountCursors", "pollCursors"}
    /\ sweep.at <= Len(Stores)
    /\ sweep' = [sweep EXCEPT !.at = @ + 1] /\ Goto("pollOpen")
    /\ trouble' = trouble \cup {"skipped"}
    /\ UNCHANGED <<found, db, polls, pollVars, been, unarchived>>

\* Only the index has a table of threads; either table may come first in the schema.
Counted(table) == {s \in Sessions : IF table = "threads" THEN row[s] # "absent"
                                                      ELSE cursor[s][Store].present}
CountRows(here, table, next) ==
    /\ pc = here
    /\ db' = [db EXCEPT !.read = @ \cup {<<Store, table>>},
                        !.counts[<<Store, table>>] = Cardinality(Counted(table))]
    /\ Goto(next)
    /\ UNCHANGED <<sweep, found, polls, pollVars, watchVars>>

ReadThreads ==
    /\ pc = "pollRows"
    /\ db' = [db EXCEPT !.rows = row]
    /\ Goto("pollCountCursors")
    /\ UNCHANGED <<sweep, found, polls, pollVars, watchVars>>

\* A thread two databases have a cursor of: the later one counts.
ReadCursors ==
    /\ pc = "pollCursors"
    /\ db' = [db EXCEPT !.cursors =
                 [s \in Sessions |-> IF cursor[s][Store].present THEN cursor[s][Store] ELSE @[s]]]
    /\ sweep' = [sweep EXCEPT !.at = @ + 1]
    /\ Goto("pollOpen")
    /\ UNCHANGED <<found, polls, pollVars, watchVars>>

\* Values are compared where both polls have them.
DbDriftFirst == db # dbBase                  \* mutant: what is first read differs
DbDrift ==
    \/ \E t \in db.read \cap dbBase.read : db.counts[t] # dbBase.counts[t]
    \/ \E s \in Sessions :
          \/ "absent" \notin {db.rows[s], dbBase.rows[s]} /\ db.rows[s] # dbBase.rows[s]
          \/ /\ db.cursors[s].present /\ dbBase.cursors[s].present
             /\ db.cursors[s] # dbBase.cursors[s]

\* An event for a drift raises AttributeError: the caller gets nothing, and the
\* databases are compared with the same values again next time.
PollCompare ==
    /\ pc = "pollOpen" /\ sweep.at > Len(Stores)
    /\ IF DbDrift
       THEN Answer("raised") /\ UNCHANGED <<reported, dbBase>>
       ELSE /\ Answer("events")
            /\ reported' = (reported \cup sweep.created) \ sweep.deleted
            /\ dbBase' = db
    /\ PollEnds
    /\ UNCHANGED <<polls, fsBase, recorded, trouble>>

ObserverStep ==
    /\ \/ PollStart \/ WalkFails \/ SweepStat \/ SweepHash \/ SweepEnd
       \/ OpenStore \/ PassOver \/ ReadThreads \/ ReadCursors
       \/ CountRows("pollCount", "threads", "pollRows")
       \/ CountRows("pollCountCursors", "cursors", "pollCursors")
       \/ PollCompare
    /\ UNCHANGED home

\* A turn of Codex, as the history keeps it.
Sweeping == pc \in {"pollStat", "pollHash"}
ObserverWatch ==
    /\ been' = [s \in Sessions |-> IF Sweeping THEN been[s] \cup {Where(s)'} ELSE been[s]]
    /\ unarchived' = IF Sweeping
                     THEN unarchived \cup
                          {s \in Sessions : place'[s] = "sessions" /\ place[s] # "sessions"}
                     ELSE unarchived
    /\ trouble' = IF polls # 0 /\ (row' # row \/ cursor' # cursor)
                  THEN trouble \cup {"moved"} ELSE trouble
    /\ UNCHANGED <<sweep, found, db, polls, pollVars>>

\* Polls beside a Codex that takes any turn.
ObserverSpec ==
    /\ HomeInit /\ pc = "idle" /\ result = "none" /\ ObserverInit
    /\ [][ObserverStep \/ (HomeTurn /\ ObserverWatch)]_<<home, pc, result, observerVars>>

-----------------------------------------------------------------------------
Swept == pc \in {"pollOpen", "pollCount", "pollRows", "pollCountCursors", "pollCursors"}
Held(p) == {b.size : b \in {c \in been[p.session] : c.place = p.folder}}

\* What a sweep finds was there while it ran, with the size and the content it had
\* at two moments of it, in this order; a rollout that stayed where it was is found,
\* and one that was somewhere all the time is missed only if it was put back into
\* sessions/, which is swept first.
SweepIsTrue ==
    Swept =>
       /\ \A f \in found : {f.size, f.content} \subseteq Held(f.path) /\ f.size <= f.content
       /\ \A s \in Sessions :
             "nowhere" \notin {b.place : b \in been[s]} =>
                s \in {f.path.session : f \in found} \cup unarchived

\* Two databases hold different cursors of one thread.
Ambiguous ==
    \E s \in Sessions, c, d \in Range(Stores) :
       cursor[s][c].present /\ cursor[s][d].present /\ cursor[s][c] # cursor[s][d]

\* The recorder's events always add up to the baseline.  Those the caller got add up
\* to it too, with three exceptions in which a poll raises after its rollout events
\* were recorded, and they are never returned: a row or a cursor changed; a database
\* went away between exists() and stat(); or one was passed over, which changes the
\* cursor a poll sees of a thread that two databases disagree about.
LostOnlyToDrift ==
    pc = "idle" =>
       /\ recorded = PathsOf(fsBase)
       /\ \/ reported = recorded
          \/ trouble \cap {"moved", "gone"} # {}
          \/ "skipped" \in trouble /\ Ambiguous
=============================================================================
