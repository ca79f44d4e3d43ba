------------------------------- MODULE Discovery -------------------------------
(***************************************************************************)
(* discover_sessions of discovery_alpha5.py, without a limit: the rows of  *)
(* the index are read first, then both folders are swept file by file,     *)
(* then every file found is looked at, and only then rows and files are    *)
(* put together.  Codex moves, creates and deletes rollouts meanwhile.     *)
(***************************************************************************)
EXTENDS CodexHome

NoRows == [s \in Sessions |-> "absent"]

\* thread_id and inventory are known of a candidate, or not.
Candidates == [path : Paths, thread : Sessions \cup {"none"}, indexed : BOOLEAN]
Entries == [path : Paths, id : Sessions \cup {"none", "other"}, indexed : BOOLEAN,
            exists : BOOLEAN, mismatch : {"none", "rollout_not_indexed", "inventory_unreadable",
                                          "rollout_inaccessible", "indexed_rollout_missing"}]

VARIABLES
    inventory,  \* the rows read, whether the table could be read, or nothing could
    listing,    \* include_archived, the stores or paths still to visit, the paths found
                \* in the folders, then those looked at, then the candidates still to
                \* list, the one being scanned and seen_ids
    entries,    \* what is listed

    \* history, for the properties only
    moved,      \* sessions whose rollout was moved since the start
    reindexed,  \* sessions whose row was changed since then
    away,       \* sessions that were nowhere for a time
    unread      \* sessions whose row a broken off query did not reach

history == <<moved, reindexed, away, unread>>
discoveryVars == <<inventory, listing, entries, history>>
NoInventory == [rows |-> NoRows, available |-> FALSE, error |-> FALSE]
NoCandidate == [path |-> Sweep[1], thread |-> "none", indexed |-> FALSE]
NoListing == [stores |-> <<>>, todo |-> <<>>, paths |-> {}, stated |-> {}, candidates |-> {},
              seen |-> {}, chosen |-> NoCandidate, archived |-> TRUE]

DiscoveryTypeOK ==
    /\ inventory \in [rows : [Sessions -> Rows], available : BOOLEAN,
                      error : BOOLEAN]
    /\ listing.stores \in Seq(Range(Stores)) /\ listing.todo \in Seq(Paths)
    /\ listing.paths \cup listing.stated \subseteq Paths
    /\ listing.candidates \subseteq Candidates /\ listing.seen \subseteq Sessions
    /\ listing.chosen \in Candidates /\ listing.archived \in BOOLEAN
    /\ entries \subseteq Entries
    /\ moved \cup reindexed \cup away \cup unread \subseteq Sessions

DiscoveryInit ==
    /\ inventory = NoInventory /\ listing = NoListing /\ entries = {}
    /\ moved = {} /\ reindexed = {} /\ away = {} /\ unread = {}

\* The id a file's name gives; candidates are matched by it before their headers
\* are read.
NameOf(p) == IF p.session \in named THEN p.session ELSE "none"

\* A row belongs to the file named after its thread, the first in the order of their
\* paths, or else to the file at its path.
Candidate(p) == [path |-> p, thread |-> NameOf(p), indexed |-> FALSE]
RowOwnerByPath(s) ==               \* mutant: the path alone tells which row is whose
    {p \in listing.stated : p.session = s /\ p.folder = inventory.rows[s]}
RowOwner(s) ==
    LET byName == {p \in listing.stated : NameOf(p) = s}
        byPath == {p \in listing.stated : p.session = s /\ p.folder = inventory.rows[s]}
    IN  IF byName # {}
        THEN {CHOOSE p \in byName : p.folder = "archived_sessions" \/ Cardinality(byName) = 1}
        ELSE byPath

RowsRead == {s \in Sessions : inventory.rows[s] # "absent"}
Missing ==
    {s \in RowsRead : RowOwner(s) = {} /\ (listing.archived \/ inventory.rows[s] = "sessions")}
Merged ==
    {[Candidate(p) EXCEPT !.indexed = \E s \in RowsRead : p \in RowOwner(s)] :
        p \in listing.stated}
    \cup {[path |-> [folder |-> inventory.rows[s], session |-> s], thread |-> s,
           indexed |-> TRUE] : s \in Missing}

-----------------------------------------------------------------------------
DiscoverStart(archived) ==
    /\ pc = "idle"
    /\ inventory' = NoInventory /\ entries' = {}
    /\ listing' = [NoListing EXCEPT !.stores = Stores, !.archived = archived]
    /\ moved' = {} /\ reindexed' = {} /\ unread' = {}
    /\ away' = {s \in Sessions : place[s] = "nowhere"}
    /\ pc' = "findRows" /\ result' = "none"

\* _read_inventory: a store without the table is passed over, and so is one that cannot
\* be read; but the inventory counts as available once the table's columns are known.
FindTable ==
    /\ pc = "findRows" /\ listing.stores # <<>>
    /\ \/ /\ Head(listing.stores) = IndexStore
          /\ inventory' = [inventory EXCEPT !.available = TRUE]
          /\ Goto("findSelect") /\ UNCHANGED listing
       \/ /\ inventory' = [inventory EXCEPT !.error = TRUE]
          /\ listing' = [listing EXCEPT !.stores = Tail(@)] /\ Goto("findRows")
       \/ /\ Head(listing.stores) # IndexStore
          /\ listing' = [listing EXCEPT !.stores = Tail(@)] /\ Goto("findRows")
          /\ UNCHANGED inventory
    /\ UNCHANGED <<entries, history>>

\* The rows are one query's; if it breaks off, those it has given are kept.
SelectRows ==
    /\ pc = "findSelect"
    /\ \/ inventory' = [inventory EXCEPT !.rows = row] /\ unread' = {}
       \/ \E some \in SUBSET Sessions :
             /\ inventory' = [inventory EXCEPT
                   !.rows = [s \in Sessions |-> IF s \in some THEN row[s] ELSE "absent"],
                   !.error = TRUE]
             /\ unread' = Sessions \ some
    /\ listing' = [listing EXCEPT !.stores = Tail(@)]
    /\ Goto("findRows") /\ UNCHANGED <<entries, moved, reindexed, away>>

SweepStart ==
    /\ pc = "findRows" /\ listing.stores = <<>>
    /\ listing' = [listing EXCEPT !.todo = IF listing.archived THEN Sweep ELSE SweepOf(Folders[1])]
    /\ Goto("findSweep") /\ UNCHANGED <<inventory, entries, history>>

\* _rollout_paths
FindFile ==
    /\ pc = "findSweep" /\ listing.todo # <<>>
    /\ listing' = [listing EXCEPT !.todo = Tail(@),
                                  !.paths = @ \cup {p \in {Head(listing.todo)} : There(p)}]
    /\ Goto("findSweep") /\ UNCHANGED <<inventory, entries, history>>

StatStart ==
    /\ pc = "findSweep" /\ listing.todo = <<>>
    /\ listing' = [listing EXCEPT !.todo = SweepOf(Folders[2]) \o SweepOf(Folders[1])]
    /\ Goto("findStat") /\ UNCHANGED <<inventory, entries, history>>

\* A file that has gone since it was found is dropped.
StatFile ==
    /\ pc = "findStat" /\ listing.todo # <<>>
    /\ listing' = [listing EXCEPT
          !.todo = Tail(@),
          !.stated = @ \cup {p \in {Head(listing.todo)} \cap listing.paths : There(p)}]
    /\ Goto("findStat") /\ UNCHANGED <<inventory, entries, history>>

Merge ==
    /\ pc = "findStat" /\ listing.todo = <<>>
    /\ listing' = [listing EXCEPT !.candidates = Merged]
    /\ Goto("findList") /\ UNCHANGED <<inventory, entries, history>>

Entry(c, id, exists, mismatch) ==
    [path |-> c.path, id |-> id, indexed |-> c.indexed, exists |-> exists,
     mismatch |-> mismatch]

\* Newest first, by the file's or the row's time, whichever is later: any order.  A
\* second candidate of a thread is dropped; of one that is no file the row counts,
\* if it has one.
Again(c) == c.thread \in listing.seen
ListNext(c) ==
    /\ pc = "findList" /\ c \in listing.candidates
    /\ listing' = [listing EXCEPT !.candidates = @ \ {c}, !.chosen = c,
                                  !.seen = @ \cup ({c.thread} \ {"none"})]
    /\ \/ ~Again(c) /\ There(c.path) /\ Goto("findScan") /\ UNCHANGED entries
       \/ /\ Again(c) \/ ~There(c.path)
          /\ entries' = entries \cup
                (IF c.indexed /\ ~Again(c)
                 THEN {Entry(c, c.thread, FALSE, "indexed_rollout_missing")} ELSE {})
          /\ Goto("findList")
    /\ UNCHANGED <<inventory, history>>

\* lightweight_scan, whose verdict QuickScan models: it fails if the file has gone, and
\* reads the header if the head of the file holds it.  The id listed is the scan's.
ListScan ==
    /\ pc = "findScan"
    /\ LET c == listing.chosen IN
       \E seen \in BOOLEAN :
          entries' = entries \cup
             {IF ~There(c.path)
              THEN Entry(c, c.thread, FALSE, IF c.indexed THEN "rollout_inaccessible" ELSE "none")
              ELSE Entry(c, ResolveThread(c.path.session, seen).thread, TRUE,
                         IF c.indexed THEN "none"
                         ELSE IF inventory.available THEN "rollout_not_indexed"
                         ELSE IF inventory.error THEN "inventory_unreadable" ELSE "none")}
    /\ Goto("findList") /\ UNCHANGED <<inventory, listing, history>>

DiscoverEnd ==
    /\ pc = "findList" /\ listing.candidates = {}
    /\ Answer("listing") /\ UNCHANGED discoveryVars
DiscoverStep ==
    /\ \/ \E archived \in BOOLEAN : DiscoverStart(archived)
       \/ FindTable \/ SelectRows \/ SweepStart \/ FindFile \/ StatStart \/ StatFile \/ Merge
       \/ \E c \in listing.candidates : ListNext(c)
       \/ ListScan \/ DiscoverEnd
    /\ UNCHANGED home

\* A turn of Codex, as the history keeps it.
DiscoverWatch ==
    /\ moved' = moved \cup {s \in Sessions : place'[s] # place[s]}
    /\ reindexed' = reindexed \cup {s \in Sessions : row'[s] # row[s]}
    /\ away' = away \cup {s \in Sessions : place'[s] = "nowhere"}
    /\ UNCHANGED <<inventory, listing, entries, unread>>

\* The listing beside a Codex that takes any turn.
DiscoverySpec ==
    /\ HomeInit /\ pc = "idle" /\ result = "none" /\ DiscoveryInit
    /\ [][DiscoverStep \/ (HomeTurn /\ DiscoverWatch)]_<<home, pc, result, discoveryVars>>

-----------------------------------------------------------------------------
EntriesOf(s) == {e \in entries : e.path.session = s}
Undisturbed == (Sessions \cap named) \ (moved \cup reindexed)

\* A second entry under one id: a rollout whose file's name does not carry an id, and
\* that was moved or got a new row under the sweep, whose row names another folder, or
\* whose header names another thread.
ListedTwice(e) ==
    LET s == e.path.session IN
    /\ e.exists /\ s \notin named
    /\ s \in moved \cup reindexed \/ row[s] \notin {"absent", place[s]} \/ claim[s] = "other"

\* However rollouts are moved and rows rewritten while their folders are swept: no id
\* is listed twice, but for the rollouts ListedTwice names; a session that nobody
\* touched is listed once, as what it is, and as indexed if its row could be read; and
\* one is only reported missing if it was, or was moved by its owner under the sweep,
\* or if the file's name does not carry its id and the row names another folder: its
\* header could tell, and is not asked.
ListingIsTrue ==
    result = "listing" =>
       /\ \A e, f \in entries :
             e.id = f.id /\ e.id # "none" => e = f \/ ListedTwice(e) \/ ListedTwice(f)
       /\ \A s \in Undisturbed :
             LET found   == place[s] = "sessions" \/ (listing.archived /\ s \notin away)
                 indexed == inventory.available /\ row[s] # "absent" /\ s \notin unread
             IN  /\ found => \E e \in entries :
                                EntriesOf(s) = {e} /\ e.exists /\ e.indexed = indexed
                 /\ ~found => \A e \in EntriesOf(s) : ~e.exists /\ indexed
                 /\ s \in away /\ indexed /\ listing.archived => EntriesOf(s) # {}
       /\ \A e \in entries : e.mismatch = "indexed_rollout_missing" =>
             \/ e.path.session \in away \cup moved
             \/ e.path.session \notin named
             \/ ~listing.archived
=============================================================================
