# Codex Rescue in TLA+

Codex Rescue (`src/src/codex_rescue`, Python) examines and repairs the local
sessions of the Codex CLI: append-only JSONL *rollouts* under `sessions/` and the
SQLite databases that index them. It runs beside a Codex that owns the same files
and may write them at any moment, it takes no lock that Codex respects, and its
promises are about exactly that: the canonical rollout stays as it is, derived
state is repaired all or not at all, a damaged rollout is never called sound.

This directory holds TLA+ modules translated from that source, the TLC
configurations that check them on small instances, and TLAPS proofs of the
properties that matter most for every value of the constants. Line references are
to files under `src/src/codex_rescue/` unless another directory is named.

Contents: [1 Inventory](#1-inventory) · [2 Modules](#2-modules) ·
[3 Runs](#3-runs) · [4 Bounds](#4-bounds) · [5 Fairness](#5-fairness) ·
[6 Proofs](#6-proofs) · [7 Disagreements](#7-where-code-and-documents-disagree) ·
[8 What is not modelled](#8-what-is-not-modelled) · [9 Plan](#9-plan)

## 1 Inventory

### How the parts interact

```
   Codex process(es)                         user
     | appends        | commits               |
     v                v                       v
  rollouts ------> threads table           cli.py ----------------------------+
     ^  ^             ^   ^                   |                               |
     |  |             |   |        evidence.py, doctor.py, transcript.py      |
     |  |             |   |                   | reads                         |
     |  |             |   +--- apply_plan.py <- plan.py (a JSON file between) |
     |  |             +------- transaction.py <- autopilot.py <---------------+
     |  +--- rollback --------- backup.py                                     |
     |                          desktop.py: the writer probes                 |
     +--- install ------------- portable.py: import of a package <------------+
                                salvage.py, salvage_stream.py: forks, copies
   codex app-server <--pipes--> app_server.py (callers + reader thread)
                                observer.py polls everything into recorder.py
```

Everything meets in the files. Rescue and Codex share no memory and send each
other no messages, except for the app server's JSON-RPC pipes. So the
interleavings that matter are those of Rescue's *separate reads and writes of a
file* with Codex's, and a check holds only until the next step of somebody else.

### Components

For each: the state it keeps, what it does, what is hard, what makes it correct.
Parts marked **M** are modelled here, **P** in part, the others not yet or not at
all (section 8).

| Component | State | Operations | Hard behaviour | Correct when |
|---|---|---|---|---|
| Derived-index repair **M** `alpha7/simulation/transaction.py` | the plan's hash, two backups, the row it inserts | guard, preconditions, backup, second guard, insert and commit, verify, rollback | interleaving with Codex; crash between steps; failing rollback; SQLite's write lock | no record it planned on is lost; all or nothing; it replaces no row; it ends |
| Backup and rollback **P** `alpha7/recovery/backup.py` | manifest, copies | back up, restore in place | a copy of a file that grows; failing half way | a backup is of the source that was planned on; a rollback restores all of it |
| Writer guard **P** `alpha7/surfaces/desktop.py` | none | probe processes, then lock files | the two probes are two reads, each may fail | nothing is written unless both found no writer |
| App server client **P** `alpha7/surfaces/app_server.py` | request counter, events, responses, pipes | `send_request`, reader thread, `close` | late, reordered and missing answers, two bounded pipes, a dying server | everybody gets his own answer; no lost wakeup; no request waits for ever |
| Recovery plans **P** `plan.py`, `apply_plan.py` | a plan file, a backup | make a plan, apply it | everything may have changed since, and between any two reads | applied to what was planned, behind a guard, losing nothing |
| Transcript reader **P** `transcript.py` | pools of open calls and outputs, retired ids, ordinals | read a line; report | bounded memory, any order of records | only a call answered exactly once is silent; an interrupted one is reported |
| Evidence and doctor **P** `evidence.py`, `doctor.py`, `doctor_batch.py`, `writer_inspector.py` | a cache of verdicts by fingerprint | read rollout, lock and database of a session; classify; serve from the cache | several findings at once: which one wins; a fingerprint taken apart from the reads it stands for | no unsound session is called healthy; the cache serves what an examination would say |
| Salvage, artifacts, handoff check **P** `salvage.py`, `artifacts.py`, `verify.py`, `reconstruct.py`, `gitstate.py` | rescue directories named by the hash of the handoff in them | salvage a session, verify a handoff | parse, hash, snapshots and Git are separate reads; source and work tree change before, between and after | a handoff that verifies describes the rollout and the work tree as they are, and leaves no call open |
| Streaming salvage **P** `alpha7/recovery/salvage_stream.py` | an output copy | find the longest intact prefix, copy it | the file grows, or is gone, between the scan and the copy; torn tail; bad line | the copy is what was scanned, and only that |
| Portable packages **P** `alpha7/compatibility/` | a zip, a staging file | export, inspect, plan an import, import | scan, hash and packing are separate reads of a growing file; a plan may be older than its package | what is staged is what was packed, and was scanned |
| Black box **P** `alpha7/blackbox/` | last poll's files, rows and cursors; recorded events | poll, derive events, analyse | a sweep under moves; a poll that raises half way | a snapshot is true of its file; recorded events add up to the baseline |
| Autopilot, surface router **P** `alpha7/autopilot.py`, `alpha7/surfaces/` | none | find a rollout, its row, the layer to blame; choose a session, decide, repair | rollout and row change between the reads of them | no healthy layer is blamed; no repair without a prompt if another session is there |
| Invariant engine `alpha7/invariants.py` | none | INV-001 .. INV-015 | used by few callers | a failed invariant blocks |
| Lifecycle truth, spawn edges, session graph **P** `lifecycle_truth.py`, `spawn_edges.py`, `graph.py` | the family visited so far | read a member's lock, rollout and edge; classify; go on to its children | three reads of three sources that change | the class was true while the member was read |
| Thread identity **P** `thread_identity.py` | none | header or file name: whose rollout | conflicting sources | a conflict is never decided silently |
| Quick scan, listing **P** `discovery.py`, `discovery_alpha5.py` | none | read both ends of a rollout; list rows and files together | a size older than the windows; a session moved under the sweep | healthy means no open call at the end; every session once |
| Projection, thread store **P** `projection.py`, `alpha5.py`, `thread_store.py` | none | compare a rollout with the cursor and the row the databases keep | size, cursor and record are read at different times | exact means at the end, wedged means behind |
| Migration consistency `migration_consistency.py` | none | compare rollouts with SQLite | inputs read at different times | reported only |
| Journal **P** `journal.py`, `hooks.py` | an append-only file | a hook appends, salvage reads back | torn last line | what the last hook saw is not overruled |
| Presentation, storage, redaction, CLI, self-test, npm launcher | none | format, count, print | none that depends on order | out of scope |

### What makes it hard

PROJECT.json lists every hazard at its line. They fall into these families:

* **Check, then act, without a lock.** The repair asks twice whether a Codex runs,
  then inserts, verifies and perhaps rolls back without asking again. A plan is
  made, kept in a file, and applied any time later.
* **Several reads of one file that grows.** Hash, scan, copy, second hash: nothing
  says that they saw one and the same file, except an argument over all of them.
* **Half of a multi-file step.** The rollback rewrites two files in place, one
  after the other, and may fail or be killed inside either.
* **Crash and restart.** Nothing reads a manifest back; the next run must cope with
  what the last one left.
* **Threads and pipes.** The reader thread, any number of callers, timeouts, and
  two pipes that block their writer when full.
* **One answer out of many reads.** A listing, a graph, a route, a parity or a poll is put
  together from files and tables read one after the other while Codex goes on. Each
  must be true of some moment, or admit that it cannot tell.
* **Answers kept.** The doctor's cache, the observer's baseline, a package's manifest and an
  import plan are believed later, and hold for what was read then.
* **Bounded memory.** Every pool of the transcript reader has a cap; what it
  forgets must not read as sound.

## 2 Modules

| Module | Models | Extends / composes |
|---|---|---|
| `RepairTransaction` | the repair, its backups and rollback, the writer guard, Codex | the four files of the repair in one module, since their steps interleave on the same files |
| `AtomicRepair` | abstract: what a repair promises | implemented by `RepairTransaction` (`Atomic == INSTANCE AtomicRepair WITH ...`) |
| `MCRepairTransaction` | two threads; who repairs which | |
| `RepairTransactionProofs` | theorems | `RepairTransaction`, `TLAPS` |
| `AppServerClient` | the JSON-RPC client, its reader thread, the pipes, an external server | |
| `RequestService` | abstract: what the client promises the threads that share it | implemented by `AppServerClient` (`Service == INSTANCE RequestService WITH ...`) |
| `AppServerClientProofs` | theorems | `AppServerClient`, `TLAPS` |
| `PlanApply` | making and applying recovery plans, evidence as they read it, Codex | |
| `PlanApplyProofs` | theorems | `PlanApply`, `TLAPS` |
| `Transcript` | one pass of `parse_transcript` | |
| `MCTranscript` | bounds, symmetry and view | `Transcript` |
| `TranscriptProofs` | theorems | `Transcript`, `TLAPS` |
| `SalvageHandoff` | the doctor's reads, salvage, the handoffs, verify, hooks and journal, Codex and the user | the files of the table's row in one module, since all of them read what Codex and the user change |
| `MCSalvageHandoff` | view | `SalvageHandoff` |
| `SalvageHandoffProofs` | theorems | `SalvageHandoff`, `TLAPS` |
| `CodexHome` | the home and every turn Codex can take in it; thread identity; path comparison | extended by the next eight |
| `QuickScan` | `lightweight_scan` | `CodexHome` |
| `ProjectionCheck` | `inspect_projection_parity`, both halves | `CodexHome` |
| `LifecycleCheck` | `build_session_graph`, the lifecycle scan, the spawn edges | `CodexHome` |
| `Observer` | `poll_once` and what the recorder keeps | `CodexHome` |
| `Discovery` | `discover_sessions` | `CodexHome` |
| `Router` | `route_session`, the thread store, `run_autopilot` | `CodexHome` |
| `DoctorCache` | `run_doctor_changed`, `doctor_session` | `CodexHome` |
| `PortableSession` | export, plan and import of a package; streaming salvage | `CodexHome` |
| `MCLiveHome` | bounds; composes the eight with the home | all of them |
| `RolloutReaderProofs` | theorems about the commands that read a rollout or a cursor | `QuickScan`, `ProjectionCheck`, `LifecycleCheck`, `DoctorCache`, `PortableSession`, `TLAPS` |
| `HomeSweepProofs` | theorems about the commands that sweep the two folders | `Observer`, `Discovery`, `Router`, `TLAPS` |
| `LiveHomeProofs` | theorems about the eight composed | `MCLiveHome`, `RolloutReaderProofs`, `HomeSweepProofs` |

Definitions named `...Unchecked`, `...Forgotten`, `...Stale` and the like, each
commented `mutant:`, are plausible bugs: the form a modelled definition would take
without one of its guards. Each property is known to fail when one of them takes
its definition's place. No specification refers to them.

### RepairTransaction

State: for each thread the *set of records* in its rollout (Codex only appends, so
the set names the content, and equal sets are equal SHA-256s) and its row in the
threads table; who holds SQLite's write lock; whether a Codex runs. For each
Rescue process: `pc`, the next step of `execute_derived_index_repair`; `shaBefore`
(`sha_before`, transaction.py:219); the manifest's two entries; what sent it into
the rollback; the result's status.

A step is one thing another process can come between: one probe, one hash, one
copy, one SQL statement. In order: `Start` reads the first hash; `ProbeProcess`,
`ProbeLocks` are `detect_writer_status`; `CheckSchema`, `CheckExisting` the two
refusals before a backup; `BackupSource`/`BackupSourceCopy` and
`BackupDb`/`BackupDbCopy` a backup's hash and copy; `RecheckSource` the second
hash (`STALE_PLAN`); again the two probes; `Insert`, which waits for the lock up
to its timeout, and `Commit`; `VerifySource`, `VerifyRow`; and a rollback in six steps,
since each file is first truncated by its `open("wb")`, then written, then hashed
again. `Crash` stops a Rescue before any step; `Faults` lets every read and copy
fail. Codex starts, stops, appends to any rollout and commits a row under the write
lock. A restore may truncate a database in which Codex has a transaction open:
that transaction is lost. A record Codex appends between the truncation and the
copy is overwritten, or sticks out behind the copy as `Garbage`.

`AtomicRepair` says the same in seven phases per Rescue: a row is installed in one
step, kept or taken back in one step, nobody else's files change, and only a
rollback that *breaks down* leaves anything else. The refinement mapping shows a
file that is being rewritten as the backup that is copied into it.

### AppServerClient

State: `_request_id`, `_pending_events`, `_pending_responses`, `_running`; for each
caller its step in `send_request` and the id it waits for; the reader's step; the
two pipes as bounded queues; what the server has read and not answered. `Call` is
the check that refuses a client whose process is gone; `CallerStep` takes an id and
registers the event, writes, waits and collects; `ReaderStep` is `_reader_loop` including
its refusal of server requests (written by the reader thread itself) and the wake-up of
everybody in its `finally`; `Close` is `close`. The server is external: it reads, answers
anything it owes in any order or never, writes notifications, junk and requests of its
own, closes its output, exits.

`RequestService` knows no tables, pipes or reader: a request is asked, sent, answered and
ended, each at most once, under an id nobody else has; it returns a result only after its
own answer was written, an exit only if the server is gone. The refinement mapping
derives a caller's stage from its `pc` and from where the answer is (`Stage`, `Answered`):
in the pipe and in the table count alike.

### PlanApply

State: the rollout as a sequence of lines, each with an identity and a kind (ok, not
JSON, over the size limit, torn); Codex's lock file; the row; `evidence`, what
`collect_session_evidence` has read so far; the plan file; the two things an apply
remembers, `currentSha` and `backup`. Making a plan is `Scan`, `Inspect`, `PlanHash`,
in the order of its reads; `EditPlan` is the user changing the JSON. Applying is
`StartApply`, `Hash`, the same `Scan` and `Inspect`, `Guard` (where a dry run ends),
`Backup`, `Mutate`, `PostHash` and, if the source was found to have changed, the
restore: `Truncate`, since `shutil.copy2` empties the rollout when it opens it
(apply_plan.py:160), then `CopyBack` line by line over whatever Codex appends meanwhile.
`Fail` ends either command before any of its steps, by an exception or a kill; nothing is
undone. An `Inspect` may find a lock file that cannot be read or names no pid, which
counts as no writer (evidence.py:334-340), or a database that cannot be read. Codex opens
and closes the session, leaves a stale lock file when it crashes, begins and completes
lines, writes or deletes the row. `cut` is history: the last apply cut the rollout and has
not written it back to the end.

### Transcript

State: the two pools of open calls and outputs, the retired ids in order, the
overflow flags, the ordinals, and `read`, the records so far, which the code does
not keep: it is what the properties compare the report with. A step reads one
line; it is `Damaged` when the parser stops at it. The report is a set of
operators over the state (`Unfinished`, `Ambiguities`, `corruption_class`,
`unfinished_tool_call_count`), since a rollout may end after any line.

### SalvageHandoff

State: the rollout as a sequence of records, calls and outputs, and its mtime; the work
tree, HEAD and the files flagged in the index; the journal and its torn tail; the rescue
directories, each an id (the handoff that was written) and what its file holds now. One
command runs at a time, `pc` is its next step, and what it has read so far is in `parsed`,
`before`, `git`, `diverged`, `loaded` and `source`.

Salvage, in the order of the code: `ParseStat`, `ParseRead`, `ParseHash` are the doctor's
`parse_transcript`, which takes the size, reads the records, then opens the file again and
hashes what has come behind them (transcript.py:307, 323, 610); three snapshots, each a
stat and a hash with a second stat (`SnapshotStat`, then `SnapshotBefore`,
`SnapshotAfterParse`, `SnapshotBeforeWrite`); between the first two `GitNames`, `GitDiff`
and `CompareJournal`; `Publish`; a last snapshot that changes nothing but the message.
Verify: `StartVerify` recomputes the id, `VerifyStat` and `VerifyHash` read the rollout,
`GitNames` and `GitDiff` the work tree, `Verdict` decides.

Between any two steps Codex appends a record, a rollback puts an earlier rollout back
(with a new mtime), somebody edits, undoes, commits, or flags a file so that Git no
longer shows its changes; a hook appends an entry, or half of one; and between commands
the user may edit a stored handoff. `sourceAtGit`, `heard`, `moved` and `shrunk` are
history for the properties.

### CodexHome and the commands that read it

`CodexHome` is what eight commands share: for each session its rollout (in `sessions/`, in
`archived_sessions/` or nowhere; whole lines with a kind, an ordinal and a writer, and
perhaps half a line), its mtime, the path its row names, each database's projection
cursor, its spawn edge and its writer's lock; and whether the databases can be read. Sizes
are in halves of a line. A *turn* of Codex is one system call or one transaction:
it begins or completes a line, moves, creates or deletes a rollout, writes a row, a cursor
or an edge, takes or leaves a lock, locks the databases. `HomeTurn` is any turn at all.

Each command's module has the command's local variables as its state, and one action
for each of its reads; between any two of them come turns of Codex. `pc` is
the next read, `result` what the command said last. The commands write to nothing the
others read, so `MCLiveHome` runs one of them in each behaviour, chosen at the start.

* `QuickScan`: size, head window, tail window, verdict.
* `ProjectionCheck`: the size, the cursors of one database after the other, a verdict at
  once (lagging, beyond the end) or the record at the cursor between two stats; if the
  cursor is at the end, the last ordinal between two more.
* `LifecycleCheck`: for each member of a family its lock, its rollout, its edge, then its
  children, each looked for in the home only when it is come to. `during` is the history:
  what was true of the member while it was visited.
* `Observer`: a stat and a hash of each file, the events, then for one database after the
  other its existence and size (`OpenStore`) and each of its queries (`CountRows`,
  `ReadThreads`, `ReadCursors`), and the comparison. One that is missing, empty or fails a
  query is passed over (`PassOver`), and what was read of it is kept; one that goes away
  between `exists()` and `stat()` makes the poll raise, as a folder taken away under the walk
  does (`WalkFails`). The event kinds for database drift do not exist, so a drift raises too.
  `been`, `unarchived` and `trouble` are history. The code names three databases; `Stores`
  is any list of them.
* `Discovery`: the columns of the rows' table, after which the inventory counts as available
  (`FindTable`), and the rows, a query that may break off (`SelectRows`); then each file of
  both folders as the sweep reaches it, a stat of each file found, the merge, and a scan of
  each that is listed, whose header gives the id that is listed (`ListScan`).
* `Router`: the search by name, a look whether the file is there, the thread store, the
  verdict; the autopilot sweeps, draws the graph, routes every session, and repairs by
  itself if the sweep found one. Which surface the user chooses is left open.
* `DoctorCache`: the stat and the sample of a fingerprint, the lookup, and on a miss the two
  passes of an examination with the stats around the second. The order of a batch is left
  open: it is a glob's.
* `PortableSession`: the scan, the hash (the size is read with it) and the packing of an
  export; inspection and plan of an import; reading, copying and verifying it; the scan and
  the copy of a salvage.

## 3 Runs

| Run | Distinct states | Checks | Shows |
|---|---|---|---|
| `repair_with_codex` | 262k | `PlannedSourceSurvives`, `BackupIsThePlan`, `LockHeldOnlyToCommit`, `InsertNeverReplaces`, `StartedRepairEnds` | With a Codex that writes whenever it likes, with crashes and I/O errors: no record the plan was made on disappears except inside a rollback or after one that broke down; the backup is of the planned source; the lock is released on every path; the insert replaces nothing; every repair ends. |
| `repair_exclusive` | 378k | `AllOrNothing`, `ImplementsAtomicRepair` | Two Rescues repair a session each, in either order, one after the other, with Codex kept closed meanwhile: each repair is atomic through crashes and faults, up to a broken rollback, whatever the other left. |
| `repair_source_lost` | violation | `SourceKeepsEveryRecord` | Finding 1. |
| `repair_half_rollback` | violation | `RollbackIsAtomic` | Finding 2. |
| `app_server` | 183k | `AnswerIsOwn`, `WakesForItsAnswer`, `LeftoversAreAbandoned`, `ImplementsRequests`, `EveryRequestEnds` | Two callers, any order of answers: each gets his own, none sleeps through an answer, a wake-up without one means that the reader is gone, the tables leak only abandoned requests, the client is the service `RequestService` describes, and with room in the pipes every request ends. |
| `app_server_full_pipe` | violation | `EveryRequestEnds` | Finding 3. |
| `plan_apply` | 5.1M | `AppliedAsPlanned`, `MutatesUnderGuard`, `CheckedSourceKept` | A plan reported as applied was planned, scanned and backed up on one source; nothing is written without a complete scan, a lock not known to be live and a backup; wherever an apply fails or is killed, no line of the checked source is lost, but for those a restore has cut away and not yet, or never, copied back. |
| `plan_apply_replaces` | violation | `ApplyNeverReplaces` | Finding 4. |
| `transcript` | 753k | `SilentMeansOneToOne`, `InterruptedIsReported`, `HealthyIsClean`, `OrdinalReuseIsKnown`, `MemoryBounded` | For all rollouts up to the bound, at every cap: silence means exactly one call and one output of a kind, a pending call is always reported, a sound rollout raises no finding, reuse of ordinals is counted or admitted to be unknown, the pools stay within their caps. |
| `transcript_evicts` | violation | `OnlyPairsAreAccepted` | Finding 5. |
| `salvage_handoff` | 1.7M | `SafeSource`, `SafeWorkTree`, `HandoffIsOneCut`, `JournalHeeded` | "Safe to continue" is said only of the rollout and the work tree as they are, with no call open; a handoff belongs to one rollout even if it changed and was put back while Git was read; the last hook's view of the work tree is not overruled. |
| `live_home` | 2.55M | `HealthyTailIsClosed`, `ParityIsTrue`, `GraphIsTrue`, `SweepIsTrue`, `LostOnlyToDrift`, `ListingIsTrue`, `RouteIsTrue`, `RepairsTheOnlyOne`, `CacheIsFaithful`, `CopiesAreClean` | One property or two for each of the eight commands, each beside a Codex that takes turns between any two reads: what a command says was true of the home in a sense the property states, and the exceptions the code leaves open are named in it. |

Every passing run also checks its module's `TypeOK`.

What the properties of `live_home` say, in short:

| Property | Command | Promise | Exceptions it names |
|---|---|---|---|
| `HealthyTailIsClosed` | quick scan | a session listed as healthy had an output for every call among its last lines, one listed as damaged was | a rollout shorter than the window that grew under it may be called damaged |
| `ParityIsTrue` | projection | exact: the cursor stood at the end of what was read last; wedged: it was behind before it was read | repeated ordinals; nothing tells a slow projector from a stuck one |
| `GraphIsTrue` | graph | a class was true of its member at some moment of the visit, and one that was true all the time is not contradicted; no member twice or too deep | an edge that cannot be read |
| `SweepIsTrue` | observer | size and content of a snapshot were the file's, in this order; a rollout is missed only if it was nowhere for a moment or put back into the folder already swept | |
| `LostOnlyToDrift` | observer | recorded events add up to the baseline, and so do returned ones | polls that raise: a changed row or cursor; a database gone between `exists()` and `stat()`; one passed over while two hold different cursors of a thread |
| `ListingIsTrue` | listing | no session id twice; an undisturbed session once, as what it is, and as indexed if its row was read; missing only if it is, or was moved under the sweep | a file whose name does not carry its id and that was moved, got a new row, whose row names another folder or whose header another thread; a query that broke off before a row |
| `RouteIsTrue` | router | an undisturbed rollout is never suspected lost, and its index is blamed only if it is wrong or could not be read | where paths cannot be told apart |
| `RepairsTheOnlyOne` | autopilot | a repair without a prompt has overlooked no session that stayed where it was | |
| `CacheIsFaithful` | doctor | a verdict from the cache is the one an examination would have reached | an examination that failed is kept like any other |
| `CopiesAreClean` | export, import, salvage | a staged payload is the one that was hashed, and clean; a salvaged file is the scanned lines up to the first bad one | Codex wrote between scan and hash; the plan was another package's |

## 4 Bounds

* **Repair.** Two threads (`Target` says who repairs which), up to two appends to each
  rollout, one commit by Codex. One Rescue with two runs, so that the second meets what the
  first left: its row, its truncated files, its dead transaction; in `repair_exclusive` two
  Rescues with a thread and a run each, so that the second repair works on the database
  the first left. Two appends suffice for one on each side of any read; `repair_exclusive`
  needs only one, since Codex cannot write during a run. The thread that is not repaired has
  a row for a rollback or an insert to damage.
* **App server.** Two callers and two requests, so that answers cross, and one line of
  noise. In the passing run a pipe holds four lines, more than can ever be in it, so
  it never blocks; in the other it holds one.
* **Plans.** Two lines and two applies: a line before and one after any read, of any
  kind, and a second apply that meets the first's backup, row, result and broken off
  restore.
* **Transcript.** Three ids, two families, three ordinals; rollouts of seven records
  (legacy) and of four (paginated, where each also bears one of three ordinals or none).
  Caps are small and different from each other, so that each is reached: four open
  entries, two retired ids, two occurrences of an id, two ordinals. The code uses one
  number for the first and second; as separate constants eviction is reached by short
  rollouts, and the run where the difference could matter, `transcript_evicts`,
  gives both the same value. `VIEW Summary` replaces `read` by what the properties tell
  apart of it, for each id its records when there are few, and for ordinals which were
  seen and how often; ids are symmetric.
* **Salvage.** Three writes to the rollout: a call, its output and one more; or an append
  that is put back during the snapshots; or a call, cut back, and another in its place
  during the parse, which is `SafeSource`'s exception. One file, one edit (undone at will),
  one commit, flags at will, one journal line that is whole or torn, one salvage, any
  number of verifications. `VIEW Live` leaves out what no later step reads.

* **Live home.** Two sessions, two databases, and for each command the number of turns its
  reads can tell apart: one on each side of the reads that matter to it (`TurnsFor`: four
  for the quick scan and the projection, three for the graph, the observer and the doctor,
  two for the others). `StartIn` leaves out of the initial states what a command does not
  look at, and each command's turns are those it can notice. The observer starts with a
  cursor of one thread in both databases, so that they can come to disagree, and one
  database is passed over, once. Windows of two and five halves of a line, so that a rollout
  of five lines has a middle nobody reads; two polls, batches and exports, so that what the
  first leaves meets the second. Two sessions are enough for a
  child and its parent, a second candidate, a cycle of two, and a sweep in which one file
  moves behind the other.

`CHECK_DEADLOCK FALSE` appears where the bounds end every behaviour (nothing left to
append, request or read), and for a server that idles. `plan_apply` and `salvage_handoff`
have no such line: a user can always make another plan, or flag a file.

## 5 Fairness

* **Repair.** `WF(Step(p))`: a process that is running goes on. Starting one, crashing and
  everything Codex does is without fairness: Codex may hold the write lock for ever.
  `StartedRepairEnds` holds nevertheless since SQLite's timeout is modelled: `Insert` may
  give up whenever the lock is taken.
* **App server.** `WF` of each caller's step and of the reader's: they are threads of one
  process. None of the server, and none of `close`. `EveryRequestEnds` rests on the wait's
  timeout, which is a caller's step, so the server owes nothing.
* Plans, the transcript, salvage and the commands of `live_home` have safety properties only,
  and no fairness. The commands are loops over finite lists of reads that never wait.

## 6 Proofs

All theorems are for any value of the constants, within the named assumptions of the
modules.

**RepairTransactionProofs.** `TypeCorrect`, `SourceSurvives`, `BackupMatchesPlan`,
`LockReleased`, `CommitsReplaceNothing`, `NeverReplaces`, `FilesFollowTheBackups`,
`RepairIsAllOrNothing`, `RepairIsAtomic`. None of the invariants is inductive.
`SourceSurvives` needs that a rollback's backup is *equal* to the planned source; equality holds since the second hash
found the file equal to the first and the file only grew in between, so the backup, read
between the two, is squeezed: `shaBefore ⊆ backup ⊆ rollout` until the second hash, which
closes the sandwich. That is `BackupGrewFromPlan`, part of the inductive invariant. The
sandwich needs that nobody but Codex touches the rollout meanwhile, hence the hypothesis
`DistinctTargets`: no two Rescue processes repair the same session. Two that do can roll
back over each other. `LockReleased` and `TypeCorrect` need no such hypothesis.

`CommitsReplaceNothing` says that what `Insert` saw under the write lock holds until `Commit`
(`RowStillMissing`), for any number of repairs in one home. The lock keeps Codex out, and
other repairs' inserts too; but a restore writes the database *file* and asks for no lock: a
second Rescue that rolls back truncates the file under the open transaction (backup.py:156).
That no rollback does so while an insert is uncommitted is the theorem's hypothesis,
`RollbacksApart`, a condition on the behaviour. Nothing in the code ensures it, since the
writer probes skip Rescue itself. `NeverReplaces` is the case of one Rescue, where it holds.

The last three are theorems of `ExclusiveSpec`, in which a repair starts only when the others
have ended or died (`OneAtATime`), and assume `WriterExcluded`, the user's part of the
contract: no Codex is started during a repair. The code enforces neither. Any number of
Rescues may repair any sessions, the same one again or several, in any order. The invariant
is a table (`AloneInv`): at every step of the repair that is at work, what the
rollout and the database are *relative to its backups* (`SourceAsBackedUp`, `Planned`,
`Installed`), and that past the writer guard Codex is closed (`Closed`), for the guard's
confirmed answer says so. A repair at rest has no line in it, so whatever it left, even
half restored files, is just what the next one finds (`RestingOnlyStarts`,
`OthersKeepAlone`). `RepairIsAllOrNothing` reads its answer off that table. For the
refinement each step is given a phase of `AtomicRepair` (`PhaseTable`) and each of the two
settled files an effect (`InstallEffect`, `UndoEffect`, `FilesEffect`); `OwnStepRefines`
and `CodexRefines` put them together. That a file under restoration counts as its backup
is what makes the six steps of a rollback one.

**AppServerClientProofs.** `ClientInvariant`, and from it `TypeCorrect`,
`AnswersReachTheirCaller`, `EachWakesForItsAnswer`, `OnlyAbandonedAreLeft`,
`ClientImplementsRequests`; any number of callers, any pipes, any server that answers only what
it was asked. The properties speak of the client's tables, but whether an answer
is a caller's own is decided by what is still on its way, in either pipe or in the server. The
invariant therefore says that an id is in one place only (`SentOnce`), belongs to one caller
(`IdsAreOwn`), that whatever travels under a caller's id is that caller's request
(`AnswersAreOwn`), and that what travels is unanswered and awaited, or was given up
(`Unanswered`). That ids stay within their bound counts the callers that have not taken
theirs yet (`Bounded`). Steps that issue, send, route and wake nothing share one lemma
(`QuietKeeps`); the others have one each.

The refinement of `RequestService` needs one more part, that a pending request has not ended
(`PendingUnended`). Registering, writing and collecting are steps of the service
(`RegisterAsks`, `WriteSends`, `CollectEnds`), and so is the server's answer to a request
that still waits (`ServerAnswers`): before it the id is nowhere else, by `SentOnce` and
`Unanswered`. The reader's move of an answer from the pipe to the table is a stutter
(`ReadKeepsStages`), since by `AnswersAreOwn` the line it stores under a caller's id is that
caller's. The server's exit is the service's; all other steps are stutters, among them an
answer to a request that was given up.

**PlanApplyProofs.** `TypeCorrect`, `AppliedSourceIsPlanned`, `MutationIsGuarded`,
`SourceKept`. The same idea on sequences: `Grows` orders rollouts by what Codex can
do (append, complete a torn line) and is shown reflexive, transitive and antisymmetric.
During an apply `currentSha`, then `evidence.lines` and `backup`, lie below `rollout`
(`Sandwich`); if the last hash equals the first, all four are equal. If it differs, the
restore cuts the rollout and puts back one that lies above `currentSha`; `Restored` says
which of its lines are there again after each step, under what Codex appends in between,
and that nothing is cut before. An apply that fails leaves the files as they are at that
step (`FailIInv`).

**TranscriptProofs.** `TypeCorrect`, `InterruptedReported`, `MemoryIsBounded`,
`SilenceMeansOnePair`, `NoFalseAlarm`, `OrdinalReuseKnown`, all for rollouts of any length. A
call that nothing answered
since is not simply "in the pool": its entry may be refused by a cap, be retired by an
output of an earlier call or turn up under an id that was already retired. The invariant
says that a pending id is in a pool, or known as reused, or the parser knows that it
lost count (`PendingIsHeld`), and that no entry is empty and no completed pair stays in
the pools (`Entries`), so that being in a pool means being reported. `Faithful` says for each
id what the parser's memory tells of the records it bore: if it is neither held nor
reported, either it bore none or it is retired and bore one call and one output
(`SilentEntry`); if its records are healthy so far, the pools hold just the call that is
open (`FineEntry`). Both only while nothing overflowed, and the first only while
no retired id was forgotten; `transcript_evicts` shows that this is needed. `OrdinalsKnown`
counts: `ordinalReuse` is the number of records that bear an ordinal again, and past the
cap lies between those that repeat the one just before and all of them.

**SalvageHandoffProofs.** `SafeSourceHolds`, `SafeWorkTreeHolds`, `HandoffIsOneCutHolds`,
`JournalHeededHolds`, `TypeCorrect`. What pins the rollout down is the mtime: while the
salvage reads,
`before.mtime = mtime` implies that the rollout is still the one that was hashed, and
after Git's diff that it is the one that stood then (`Cut`); the last snapshot before
publication compares the mtime. A report that was hashed further than it was parsed is
caught later and otherwise: its size is that of the stat *before* the parse, and a rollout
that only grew is longer than that (`Parsed`, `Complete`), so verify finds the size wrong.
`Stored` carries this with the handoffs through any number of commands, since an edited
handoff no longer hashes to its id; `Fresh` says what verify has read is still true as long
as nothing moved since it began. For the journal, an entry that is last and whole is the
one that is read (`WholeJournalIsRead`). The type invariant needs that no rollout is longer
than the number of writes made to it, also when a file is put together from two
(`BehindTyped`). These theorems rest on what the module assumes of
the world: every write to the rollout has a new mtime.

The commands of `live_home` are proved about one by one, each beside a Codex that may take
*every* turn (`QuickSpec`, `ParitySpec`, `GraphSpec`, `DoctorSpec`, `ObserverSpec`,
`DiscoverySpec`, `RouterSpec`, `PortSpec`), while the run gives each only the turns it can
notice, and few of them. So the theorems say more than the run in both respects.

**RolloutReaderProofs.** `HealthyTailHolds`, `ParityIsTrueHolds`, `GraphIsTrueHolds`,
`CacheIsFaithfulHolds`, `CopiesAreCleanHolds`.

*Quick scan.* The size is taken first and the rollout only grows, so the tail that is read
reaches at least the size (`TailIsRead`). The arithmetic of windows is `RecentIsWhole`: the
last `(TailLimit - 1) \div 2` lines that were whole at the stat lie wholly within the window,
at most one half line being lost at its beginning.

*Projection.* A cursor is written for a line that is there, so it was never beyond the
rollout, and never will be (`RowsStand`, `StandsOn`). "Exact" compares the cursor's ordinal
with the *last* record of the rollout as it was read then, whose ordinals increase: the
record at the cursor and the last one are the same. "Wedged" rests on the size, which was
taken before the cursor (`SizedIsSize`).

*Graph.* `during` collects what was the case since the visit of a member began. `Present`
says that what is the case now is in it, so each read adds a fact that was true at its time
(`ReadWasTrue`), and the class, made of all of them, is `Judged` by a table of its
arguments (`ClassTable`). A member is put on the list once: `NodesAreNew`.

*Doctor's cache.* Everything read carries a
date: a write gives the rollout a later mtime than it had, so as long as the mtime is still
that of the fingerprint, whatever was read since is what is there (`ReadIsOfNow`); if
it is not, the entry is kept under an mtime the rollout will never have again
(`EntriesAreDated`). That is why it does no harm that the fingerprint is taken before two
passes over the file. It rests on the clock: two writes within one tick of it would break
the theorem, and the code.

*Packages and salvage.* Everything ever read of a rollout is a prefix of what it is now
(`LogsGrow`), so of two reads one is a prefix of the other; a salvage copies by the length
it scanned, and the lines up to that length are still the scanned ones. The first bad line
is a least index, taken from a finite set.

**HomeSweepProofs.** `SweepIsTrueHolds`, `LostOnlyToDriftHolds`, `RouteIsTrueHolds`,
`RepairsTheOnlyOneHolds`, `ListingIsTrueHolds`. Three commands walk the same list of paths,
`sessions/` before `archived_sessions/`; that every path is in it, in this order, is
`SweepCovers`, from a counting argument they share.

*Observer.* That a sweep misses a rollout only if
it was away or was put back rests on `Ahead`: a session is found, excused, or its *present*
path is still to be visited. A turn keeps that because `sessions/` is swept first: while a
path of it is left, all of `archived_sessions/` is (`Closed`), so archiving a rollout moves
it ahead of the sweep and never behind. Size before content is monotony of rollouts
(`SizesGrow`). For the events, `LostInv` says that while the poll is still comparing, the
recorder is ahead of the caller by just this poll's events (`EventsKept`), unless the caller's
loss is excused by what the history `trouble` holds (`LossExcused`); and that as long as no
row or cursor changed, what any poll read of a database is what it holds: each count, each
row, and of each thread the cursor of one of the databases read so far (`IsRead`). Two polls
can then differ only in which database a cursor is of, which takes two that disagree and one
of them passed over.

*Router and autopilot.* Everything is said of a thread that *stayed*, whose file and row were
left alone since the look at them began (`Steady`): its file is ahead of the sweep
(`LookInv`), then found and still there (`TargetInv`), then its row is read or the
database could not be (`StoreInv`), so the verdict is about what is there (`VerdictInv`). For
the repair, whatever stayed and is on disk was found or is still ahead (`SweptInv`), so at
the end all of it was found (`Covered`), and the autopilot asks if there are two. That it
may ask in vain, for a rollout that is gone, is no error.

*Listing.* Five stages, and for each what is known of a session that was not moved since it
began: the rows (`RowsReadStand`), its one path in the sweep (`SweepSees`) and among the
files found again (`StatSees`), then one candidate that becomes one entry (`OfShown`), or
none but its row's (`OfHidden`). The merge of candidates and rows is the step where it could
go wrong, since a row's owner is found by path or by name (`OwnerIsOwn`, `MergedIsOwn`).
A row that a broken off query did not reach is `unread`, and nothing more is claimed of it
than that its session is listed as not indexed. That no session id is listed twice holds
for moved ones too: of rollouts with an id in their name by `listing.seen` (`NamedOnce`), of
the others if their row names the path they have (`SettledOnce`), and by what a header can say of
an id (`ScannedId`).

**LiveHomeProofs.** `RunsTheCommands`, `EveryCommandIsTrue`, `TypeCorrect`. The eight
commands composed, as `live_home` runs them. In a behaviour of the composed model the command
that was chosen goes through a behaviour of its own specification: each turn it may notice is
a turn of Codex (`TurnsAreTurns`), and the others change nothing of its state. So the
theorems above hold of the run (`EveryCommandIsTrue`), and the type invariant falls into one
lemma for each command, beside any turn of Codex, and one for the seven that idle
(`IdleStays`, `BlanksHaveTypes`). That a home keeps its type rests on a rollout never being
longer than `Lines`, which is a bound of the model.

**Assumptions.** The theorems use the modules' named assumptions and no others:
`HomeAssumption` (limits are naturals, a rollout has at least its meta line),
`InstanceAssumption` (`a` and `b` are sessions, `LiveHomeProofs` only), `AppServerAssumption`
(a pipe holds at least a line), and those on the bounds of the other modules. What a
theorem needs beyond that is its hypothesis: `DistinctTargets`, `OneRescue`,
`RollbacksApart`, `WriterExcluded`.

**Model-checked only.** The two liveness properties, `StartedRepairEnds` and
`EveryRequestEnds`, since reasoning under fairness is out of the prover's reach. Every other
property of a passing run has a theorem. What a recursive definition computes for every
input is nowhere claimed.

## 7 Where code and documents disagree

Each is a violation run; PROJECT.json quotes the lines.

1. **A rollback rewrites the rollout** (backup.py:155). The repair never writes to it,
   but its rollback restores it too, in place and asking nobody: what Codex appended since
   the backup is gone. README.md:76 promises that session files are never rewritten. No
   fault is needed for it.
2. **The rollback is not atomic** (backup.py:156): a failing copy leaves an empty rollout or a
   truncated database, contrary to its docstring (131).
3. **A request can outlast its timeout** (app_server.py:184): the write to a full pipe comes
   before the wait that has the timeout.
4. **An apply replaces a row** (apply_plan.py:132): `INSERT OR REPLACE`, with no second check
   that the session is still unindexed. The recovery contract prohibits it.
5. **A third occurrence can go unnoticed** (transcript.py:604): the retired ids drop their
   oldest without a flag, unlike all other caps of the parser. It takes 1024 completed
   calls between the two uses of an id.

Three more that no run shows. The final restore of an apply (apply_plan.py:160) truncates
the source in place before it copies, as the repair's rollback does: one that fails or is
killed leaves a part of the source, which `CheckedSourceKept` names as its exception. A
rollout that grew between the doctor's parse and the first snapshot still gives a handoff,
although salvage.py:115 says that a mutation observed during parsing must not: salvage never
compares the parse with its snapshots, and only verify notices. And a rollout that is cut
back during the parse and then grows to the same size can be verified as safe with a call
open: `SafeSource` names this as its one exception.

The commands of `live_home` have more, met while they were modelled. Where a property is
about such behaviour it names it as an exception; the others lie in what the models abstract.

* *Observer.* Three members of `EventType` that do not exist (observer.py:208, 222, 240) make
  a poll raise after its file events were recorded; they are never returned. So does a
  database that is removed between `exists()` and `stat()` (149), which stand outside the
  `try`; and a database that is passed over (202) lets the cursor of another show through,
  which reads as a change.
* *Portable.* Export scans and hashes in separate reads (portable.py:125, 128), so a manifest
  may call healthy what nobody scanned; an import given an older plan does not look at
  the package again (309); the comment at 131 says that an identity conflict blocks, but the
  identity comes from the file's name alone. `portable import` takes `execute_import`'s
  dict for a success whatever its status is (cli.py:369), and exits with 0.
* *Desktop.* `get_session_diff` names the columns id, thread_id and session_id in one query
  (desktop.py:543) and passes over a table that lacks one of them, as threads does: it finds
  no row, and the autopilot takes every discovered session for repairable.
  A route's blocked actions do not stop the repair.
* *Router.* A rollout that is missing while its row is there is reported as an unknown thread;
  the cause for a missing file only appears if it goes away under the route. An unreadable
  database, or two paths that cannot be compared, reads as "unindexed".
* *Lifecycle.* An edge that cannot be read counts as not closed (lifecycle_truth.py:100), so a
  closed subagent may be shown as working or done; a rollout of exactly `max_lines` lines
  is UNKNOWN.
* *Projection.* The cursor is read once, so a projector that is catching up looks wedged.
* *Doctor.* A SCAN_EXCEPTION, whatever its reason, is served until the file is written to; what
  was found in a database is cached under the rollout's fingerprint.
* *Discovery.* The inventory counts as available (discovery_alpha5.py:148) before its rows are
  asked for (156): if that query fails, indexed sessions nobody touched are listed as
  "rollout_not_indexed". A row that names another folder and a file whose name does not
  carry its id are listed as two, under one session id; a rollout put back into `sessions/`
  under the sweep is missed.
* *Salvage stream.* A bad last line is reported as a cut one, even if it is whole.

## 8 What is not modelled

* *Data.* Records are names; JSON, SQL and paths are what a check makes of them.
  Hashes are equality. Single-record flaws of the transcript, payload sizes and
  retained events are left out.
* *SQLite files.* The database is its logical rows. That only the main file is backed
  up, and not its `-wal`, is a hazard without a property.
* *Names by time.* Operation ids are milliseconds, backup directories seconds; two that
  collide share a backup. Here each has its own.
* *Plans.* Realigning a projection cursor is in the code but no evidence leads to it. A
  failure or a kill ends a command between its steps or inside the restore's copy; half
  a backup is read by no later step, and half a plan file does not parse.
* *Salvage.* One salvage or verification at a time, of one session with a prompt, a
  known work tree and a rollout that exists; handoffs without a schema, for which
  verify checks less, and the other reasons for a review, which an open call stands
  for. A read or hash of a whole file is one step, and so is a hook's look at the work tree.
  Once a line of the journal is torn, `JournalHeeded` promises nothing: readers stop there,
  and salvage ignores the flag that tells it so.
* *App server.* Launching, handshake and the adapter above the client.
* *Live home.* File names and headers are whose they are or not; two paths are equal, differ or
  cannot be compared. A window, a hash or a query is one read. One command at a time. Left out
  of the doctor: findings from databases, which its cache does not date. Of the observer:
  writer status, incident analysis and the reproducer. Of packages: the checks of archive
  members, path remapping and the compatibility profile. Of the router: what surfaces report,
  the cause for extended paths, and the autopilot with a session named. Of lifecycle: archived
  members. Of the salvage stream: the forensic copy that skips bad lines.
* *Migration consistency, invariant engine.* Comparisons of what their callers pass in.
* *Presentation, redaction, paths, storage profiles, CLI, hooks, fixtures, launcher.* They
  hold no state that a step of anybody else could change, and their correctness is one of
  strings.

## 9 Plan

Done, in the order of importance: the repair (it writes beside Codex), the app server
client (threads), recovery plans (stale decisions), the transcript reader (what
everything else believes), salvage and verify (whether work may go on), and the eight
commands that put one answer together from many reads.

Proved: every safety property of the runs, and both refinements.

Next: what the commands say when they are *not* about a session that was left alone. Two
hazards deserve models of their own: two Rescue processes at work in one home at once (the
hypotheses `RollbacksApart` and `OneAtATime` mark where it bites), and a database with a
`-wal` file beside the one that is backed up.
