--------------------------- MODULE SalvageHandoff ---------------------------
(***************************************************************************)
(* salvage --fork and verify: salvage_session of salvage.py turns what the *)
(* doctor parsed of a session into a handoff, stored under the hash of its *)
(* own content; verify_rescue of verify.py decides any time later whether  *)
(* work may continue from it.  Both read the rollout and the Git work tree *)
(* in many separate steps while Codex and the user change them, and hooks  *)
(* (hooks.py, journal.py) append what they see to a journal.               *)
(*                                                                         *)
(* Every write gives the rollout a new mtime, which also names the record  *)
(* it appends; two rollouts have the same SHA-256 exactly when they are    *)
(* equal.  A rollout is what follows its header.  A call no output follows *)
(* stands for all that makes a report unclean.                             *)
(***************************************************************************)
EXTENDS Naturals, Sequences, FiniteSetsExt, SequencesExt

CONSTANTS
    Files,       \* files of the work tree
    MaxWrites,   \* bound: writes to the rollout
    MaxEdits,    \* bound: edits of the work tree
    MaxCommits,  \* bound: commits
    MaxEntries,  \* bound: journal lines
    MaxRescues   \* bound: salvages started

ASSUME SalvageAssumption ==
    {MaxWrites, MaxEdits, MaxCommits, MaxEntries, MaxRescues} \subseteq Nat

Rollouts == UNION {[1..n -> [id : 1..MaxWrites, kind : {"call", "output"}]] : n \in 0..MaxWrites}
Trees    == [Files -> 0..MaxEdits]      \* 0: as committed
Pending(r) == r # <<>> /\ r[Len(r)].kind = "call"

VARIABLES
    rollout, mtime,        \* the session's file
    tree, edits, head,     \* the work tree, edits ever made, and HEAD
    hidden,                \* files flagged assume-unchanged or skip-worktree
    journal,               \* its lines
    tail,                  \* what stands behind the last newline

    pc,                    \* the next step of the command the user runs
    salvages,              \* salvages started
    parsed,                \* the doctor's ParseResult: the size of a stat before, the
                           \* content it hashed, and a call open at the end of its parse
    stat,                  \* file_snapshot's before
    before,                \* source_snapshot_before
    git,                   \* the GitState being read
    diverged,              \* REPO_STATE_DIVERGED, from the journal
    rescues,               \* the rescue directories: an id and what the file holds
    loaded,                \* the handoff being verified
    source,                \* what verify has read of the rollout
    result,

    \* history, for the properties only
    sourceAtGit,           \* the rollout when the diff was hashed
    heard,                 \* the journal's last entry when it was read
    moved,                 \* rollout or work tree changed since verify began
    shrunk                 \* rollout cut back since the doctor's stat

world   == <<rollout, mtime, tree, edits, head, hidden>>
hooks   == <<journal, tail>>
history == <<sourceAtGit, heard>>
watch   == <<moved, shrunk>>
salvage == <<salvages, parsed, before, diverged, rescues>>
command == <<salvage, stat, git, loaded, source, history>>
vars    == <<world, hooks, pc, command, result, watch>>

\* git.known is FALSE when the work tree could not be inspected.
NoGit == [known |-> FALSE, head |-> 0, names |-> {}, flags |-> {}, diff |-> [f \in Files |-> 0]]
GitStates == [known : BOOLEAN, head : 0..MaxCommits, names : SUBSET Files,
              flags : SUBSET Files, diff : Trees]
Stats == [size : 0..MaxWrites, mtime : 0..MaxWrites]
Reads == [content : Rollouts, size : 0..MaxWrites, mtime : 0..MaxWrites]
NoRead == [content |-> <<>>, size |-> 0, mtime |-> 0]
Parses == [content : Rollouts, size : 0..MaxWrites, open : BOOLEAN, shrunk : BOOLEAN]
NoParse == [content |-> <<>>, size |-> 0, open |-> FALSE, shrunk |-> FALSE]

\* A journal entry is what a hook saw of the work tree, if it saw it; a line that
\* holds part of one is not whole.
NoEntry == [whole |-> TRUE, known |-> FALSE, head |-> 0, names |-> {},
            diff |-> [f \in Files |-> 0]]
Torn == [NoEntry EXCEPT !.whole = FALSE]
Entries == [whole : BOOLEAN, known : BOOLEAN, head : 0..MaxCommits, names : SUBSET Files,
            diff : Trees]

\* A handoff's transcript, source_snapshot, repository, unfinished_action and
\* findings, and the history it was made in.
Handoffs == [parsed : Parses, snapshot : Reads, git : GitStates, unfinished : BOOLEAN,
             diverged : BOOLEAN, cut : Rollouts, heard : Entries]

TypeOK ==
    /\ rollout \in Rollouts /\ mtime \in 0..MaxWrites
    /\ tree \in Trees /\ edits \in 0..MaxEdits /\ head \in 0..MaxCommits
    /\ hidden \subseteq Files
    /\ journal \in Seq(Entries) /\ tail \in {"none", "partial"}
    /\ pc \in {"idle", "parseStat", "parseRead", "parseHash", "stat1", "read1", "gitNames",
               "gitDiff", "journal", "stat2", "read2", "stat3", "read3", "publish",
               "stat4", "read4",
               "verifyStat", "verifyHash", "verifyNames", "verifyDiff", "verdict"}
    /\ salvages \in 0..MaxRescues
    /\ parsed \in Parses /\ before \in Reads /\ source \in Reads
    /\ stat \in Stats
    /\ git \in GitStates
    /\ {diverged, moved, shrunk} \subseteq BOOLEAN
    /\ rescues \subseteq [id : Handoffs, content : Handoffs]
    /\ loaded \in Handoffs
    /\ result \in {"none", "RAISED", "UNTOUCHED", "TOUCHED",
                   "REVIEW_REQUIRED", "STATE_DIVERGED", "SAFE_TO_CONTINUE"}
    /\ sourceAtGit \in Rollouts /\ heard \in Entries

NoHandoff == [parsed |-> NoParse, snapshot |-> NoRead, git |-> NoGit, unfinished |-> FALSE,
              diverged |-> FALSE, cut |-> <<>>, heard |-> NoEntry]

Init ==
    /\ rollout = <<>> /\ mtime = 0
    /\ tree = [f \in Files |-> 0] /\ edits = 0 /\ head = 0 /\ hidden = {}
    /\ journal = <<>> /\ tail = "none"
    /\ pc = "idle" /\ salvages = 0
    /\ parsed = NoParse /\ before = NoRead /\ source = NoRead
    /\ stat = [size |-> 0, mtime |-> 0]
    /\ git = NoGit /\ diverged = FALSE
    /\ rescues = {} /\ loaded = NoHandoff
    /\ result = "none"
    /\ sourceAtGit = <<>> /\ heard = NoEntry /\ moved = FALSE /\ shrunk = FALSE

Goto(step)  == pc' = step /\ UNCHANGED result
End(status) == pc' = "idle" /\ result' = status
StatHeader == [size |-> Len(rollout) + 1, mtime |-> mtime]    \* mutant: counts the header
Stat == [size |-> Len(rollout), mtime |-> mtime]

-----------------------------------------------------------------------------
(* Steps both commands share.                                              *)

(* inspect_git_state: HEAD and the names first, then the flags, then the    *)
(* diffs, which leave out every flagged file.                               *)
Visible == [f \in Files |-> IF f \in hidden THEN 0 ELSE tree[f]]
Names   == {f \in Files : Visible[f] # 0}

GitNames(here, next) ==
    /\ pc = here
    /\ git' = [NoGit EXCEPT !.head = head, !.names = Names, !.flags = hidden]
    /\ Goto(next)
    /\ UNCHANGED <<world, hooks, salvage, stat, loaded, source, history, watch>>

\* Git may fail at any of its calls; the state is then unknown.
GitDiff(here, next) ==
    /\ pc = here
    /\ \/ git' = [git EXCEPT !.known = TRUE, !.diff = Visible]
       \/ git' = NoGit
    /\ sourceAtGit' = rollout
    /\ Goto(next)
    /\ UNCHANGED <<world, hooks, salvage, stat, loaded, source, heard, watch>>

\* compare_git_state: what is empty or unknown in the expected state is not
\* compared, and a flagged file conflicts with anything.
AgreesFlagged(expected) ==               \* mutant: flags are not asked for
    expected.known =>
        /\ expected.head = git.head /\ expected.diff = git.diff
        /\ expected.names # {} => expected.names = git.names
Agrees(expected) ==
    /\ git.flags = {}
    /\ expected.known =>
        /\ expected.head = git.head /\ expected.diff = git.diff
        /\ expected.names # {} => expected.names = git.names

-----------------------------------------------------------------------------
(* The salvage command: doctor_session, then salvage_session.              *)

StartSalvage ==
    /\ pc = "idle" /\ salvages < MaxRescues
    /\ salvages' = salvages + 1
    /\ diverged' = FALSE
    /\ pc' = "parseStat" /\ result' = "none"
    /\ UNCHANGED <<world, hooks, parsed, stat, before, git, rescues, loaded, source,
                   history, watch>>

ParseStat ==
    /\ pc = "parseStat"
    /\ parsed' = [NoParse EXCEPT !.size = Len(rollout)]
    /\ shrunk' = FALSE
    /\ Goto("parseRead")
    /\ UNCHANGED <<world, hooks, salvages, stat, before, git, diverged, rescues, loaded,
                   source, history, moved>>

ParseRead ==
    /\ pc = "parseRead"
    /\ parsed' = [parsed EXCEPT !.content = rollout, !.open = Pending(rollout)]
    /\ Goto("parseHash")
    /\ UNCHANGED <<world, hooks, salvages, stat, before, git, diverged, rescues, loaded,
                   source, history, watch>>

\* The parser opens the rollout again and hashes what it now finds behind the
\* records it read, without parsing it.
ParseHash ==
    /\ pc = "parseHash"
    /\ parsed' = [parsed EXCEPT !.content = @ \o SubSeq(rollout, Len(@) + 1, Len(rollout)),
                                !.shrunk = shrunk]
    /\ Goto("stat1")
    /\ UNCHANGED <<world, hooks, salvages, stat, before, git, diverged, rescues, loaded,
                   source, history, watch>>

\* file_snapshot: a stat, the hash, a second stat.
SnapshotStat(here, next) ==
    /\ pc = here
    /\ stat' = Stat
    /\ Goto(next)
    /\ UNCHANGED <<world, hooks, salvage, git, loaded, source, history, watch>>

Stable == stat = Stat

SnapshotBefore ==
    /\ pc = "read1"
    /\ IF Stable
       THEN /\ before' = [content |-> rollout, size |-> stat.size, mtime |-> stat.mtime]
            /\ Goto("gitNames")
       ELSE End("RAISED") /\ UNCHANGED before
    /\ UNCHANGED <<world, hooks, salvages, parsed, stat, git, diverged, rescues, loaded,
                   source, history, watch>>

\* read_entries stops at the first line that is not a whole entry.
ReadEntries ==
    SubSeq(journal, 1,
           Max({n \in 0..Len(journal) : \A i \in 1..n : journal[i].whole}))

\* A work tree that could not be inspected is not compared.
CompareJournal ==
    /\ pc = "journal"
    /\ diverged' = (git.known /\ ReadEntries # <<>> /\ ~Agrees(Last(ReadEntries)))
    /\ heard' = IF journal = <<>> \/ Contains(journal, Torn) THEN NoEntry ELSE Last(journal)
    /\ Goto("stat2")
    /\ UNCHANGED <<world, hooks, salvages, parsed, stat, before, git, rescues, loaded,
                   source, sourceAtGit, watch>>

\* Twice, before the handoff is built and before it is published.
Unmoved == Stable /\ rollout = before.content

SnapshotAfterParse ==
    /\ pc = "read2"
    /\ IF Unmoved THEN Goto("stat3") ELSE End("RAISED")
    /\ UNCHANGED <<world, hooks, command, watch>>

SnapshotBeforeWriteHashed ==                  \* mutant: only the hash is compared
    /\ pc = "read3"
    /\ IF Unmoved THEN Goto("publish") ELSE End("RAISED")
    /\ UNCHANGED <<world, hooks, command, watch>>
SnapshotBeforeWrite ==
    /\ pc = "read3"
    /\ IF Unmoved /\ stat.size = before.size /\ stat.mtime = before.mtime
       THEN Goto("publish") ELSE End("RAISED")
    /\ UNCHANGED <<world, hooks, command, watch>>

BuildFromSnapshot ==                          \* mutant: the hash is the snapshot's
    [parsed |-> [parsed EXCEPT !.content = before.content, !.size = before.size],
     snapshot |-> before, git |-> git,
     unfinished |-> parsed.open, diverged |-> diverged,
     cut |-> sourceAtGit, heard |-> heard]
BuildHandoff ==
    [parsed |-> parsed, snapshot |-> before, git |-> git,
     unfinished |-> parsed.open, diverged |-> diverged,
     cut |-> sourceAtGit, heard |-> heard]

\* An identical handoff has the same id, and is written over the old file.
Publish ==
    /\ pc = "publish"
    /\ rescues' = {r \in rescues : r.id # BuildHandoff}
                      \cup {[id |-> BuildHandoff, content |-> BuildHandoff]}
    /\ Goto("stat4")
    /\ UNCHANGED <<world, hooks, salvages, parsed, stat, before, git, diverged, loaded,
                   source, history, watch>>

\* The last snapshot only tells the user; the handoff stays.
SnapshotAfter ==
    /\ pc = "read4"
    /\ End(IF rollout = before.content THEN "UNTOUCHED" ELSE "TOUCHED")
    /\ UNCHANGED <<world, hooks, command, watch>>

-----------------------------------------------------------------------------
(* The verify command.                                                     *)

LoadAny(r) == TRUE                            \* mutant: the id is not recomputed
Load(r) == r.content = r.id

StartVerify ==
    /\ pc = "idle"
    /\ \E r \in rescues :
         /\ loaded' = r.content
         /\ IF Load(r) THEN pc' = "verifyStat" /\ result' = "none"
                       ELSE End("REVIEW_REQUIRED")
    /\ moved' = FALSE
    /\ git' = NoGit /\ source' = NoRead
    /\ UNCHANGED <<world, hooks, salvage, stat, history, shrunk>>

VerifyStat ==
    /\ pc = "verifyStat"
    /\ source' = [NoRead EXCEPT !.size = Len(rollout), !.mtime = mtime]
    /\ Goto("verifyHash")
    /\ UNCHANGED <<world, hooks, salvage, stat, git, loaded, history, watch>>

VerifyHash ==
    /\ pc = "verifyHash"
    /\ source' = [source EXCEPT !.content = rollout]
    /\ Goto("verifyNames")
    /\ UNCHANGED <<world, hooks, salvage, stat, git, loaded, history, watch>>

SourceMatches ==
    /\ source.content = loaded.parsed.content /\ source.size = loaded.parsed.size
    /\ source.mtime = loaded.snapshot.mtime

\* overall_confidence and the other reasons for a review.
ReviewedAlone == loaded.unfinished \/ ~loaded.git.known    \* mutant: without the journal
Reviewed == loaded.unfinished \/ loaded.diverged \/ ~loaded.git.known

Verdict ==
    /\ pc = "verdict"
    /\ End(CASE ~git.known -> "REVIEW_REQUIRED"
             [] git.known /\ ~(SourceMatches /\ Agrees(loaded.git)) -> "STATE_DIVERGED"
             [] git.known /\ SourceMatches /\ Agrees(loaded.git) ->
                  IF Reviewed THEN "REVIEW_REQUIRED" ELSE "SAFE_TO_CONTINUE")
    /\ UNCHANGED <<world, hooks, command, watch>>

-----------------------------------------------------------------------------
(* Codex, the user and the hooks.                                          *)

AppendRecord ==
    /\ mtime < MaxWrites
    /\ mtime' = mtime + 1
    /\ rollout' = Append(rollout, [id |-> mtime + 1,
                                   kind |-> IF Pending(rollout) THEN "output" ELSE "call"])
    /\ UNCHANGED <<tree, edits, head, hidden>>

\* A repair's rollback puts an earlier rollout back.
PutBack ==
    /\ mtime < MaxWrites
    /\ mtime' = mtime + 1
    /\ \E n \in 0..Len(rollout) : rollout' = SubSeq(rollout, 1, n)
    /\ UNCHANGED <<tree, edits, head, hidden>>

Edit ==
    /\ edits < MaxEdits
    /\ edits' = edits + 1
    /\ \E f \in Files : tree' = [tree EXCEPT ![f] = edits + 1]
    /\ UNCHANGED <<rollout, mtime, head, hidden>>

Undo ==
    /\ \E f \in Files : tree[f] # 0 /\ tree' = [tree EXCEPT ![f] = 0]
    /\ UNCHANGED <<rollout, mtime, edits, head, hidden>>

Commit ==
    /\ head < MaxCommits /\ Names # {}
    /\ head' = head + 1
    /\ tree' = [f \in Files |-> IF f \in hidden THEN tree[f] ELSE 0]
    /\ UNCHANGED <<rollout, mtime, edits, hidden>>

Flag ==
    /\ \E f \in Files : hidden' = IF f \in hidden THEN hidden \ {f} ELSE hidden \cup {f}
    /\ UNCHANGED <<rollout, mtime, tree, edits, head>>

World ==
    /\ AppendRecord \/ PutBack \/ Edit \/ Undo \/ Commit \/ Flag
    /\ moved' = TRUE /\ shrunk' = (shrunk \/ Len(rollout') < Len(rollout))
    /\ UNCHANGED <<hooks, pc, command, result>>

\* capture_hook inspects the work tree, if it can, and appends a line; one that
\* dies half way leaves its part to the next.
Entry == [whole |-> TRUE, known |-> TRUE, head |-> head, names |-> Names, diff |-> Visible]

HookAppend ==
    /\ Len(journal) < MaxEntries
    /\ \E entry \in {NoEntry, Entry} :
          journal' = Append(journal, IF tail = "partial" THEN Torn ELSE entry)
    /\ tail' = "none"

HookDies ==
    /\ Len(journal) < MaxEntries
    /\ tail' = "partial" /\ UNCHANGED journal

Hook == (HookAppend \/ HookDies) /\ UNCHANGED <<world, pc, command, result, watch>>

\* The user edits a handoff: the call it warns of is dealt with.
Tamper ==
    /\ pc = "idle"
    /\ \E r \in rescues :
          rescues' = (rescues \ {r}) \cup {[r EXCEPT !.content.unfinished = FALSE]}
    /\ UNCHANGED <<world, hooks, pc, salvages, parsed, stat, before, git, diverged, loaded,
                   source, result, history, watch>>

SalvageStep ==
    \/ StartSalvage \/ ParseStat \/ ParseRead \/ ParseHash
    \/ SnapshotStat("stat1", "read1") \/ SnapshotBefore
    \/ GitNames("gitNames", "gitDiff") \/ GitDiff("gitDiff", "journal")
    \/ CompareJournal
    \/ SnapshotStat("stat2", "read2") \/ SnapshotAfterParse
    \/ SnapshotStat("stat3", "read3") \/ SnapshotBeforeWrite
    \/ Publish
    \/ SnapshotStat("stat4", "read4") \/ SnapshotAfter

VerifyStep ==
    \/ StartVerify \/ VerifyStat \/ VerifyHash
    \/ GitNames("verifyNames", "verifyDiff") \/ GitDiff("verifyDiff", "verdict")
    \/ Verdict

Next == SalvageStep \/ VerifyStep \/ World \/ Hook \/ Tamper

Spec == Init /\ [][Next]_vars

-----------------------------------------------------------------------------
(* Properties.                                                             *)

Safe == result = "SAFE_TO_CONTINUE"

\* Work may continue only from a report on the rollout as it is, with no call
\* open: whatever was appended while the doctor parsed and hashed it, written
\* between that and the snapshots and the verification, or edited in the handoff.
\* Writes after the verification began are nobody's promise.  A rollout cut back
\* while the doctor reads it, and grown to the same size again, gets its new end
\* hashed but not parsed: then a call may be open.
SafeSource ==
    Safe /\ ~moved => /\ rollout = loaded.parsed.content
                      /\ Pending(rollout) => loaded.parsed.shrunk

\* ... and with the work tree the handoff describes, as it really is: nothing
\* edited, undone or committed since, and nothing hidden from Git by a flag.
SafeWorkTree ==
    Safe /\ ~moved => head = loaded.git.head /\ tree = loaded.git.diff /\ hidden = {}

\* A handoff is one cut: while it read the work tree, the rollout was the one it
\* names.  It is what the snapshots before, between and after are for.
HandoffIsOneCut == \A r \in rescues : r.id.snapshot.content = r.id.cut

\* What the last hook saw of the work tree is not overruled: if it differs from
\* the handoff, nobody continues without a review.
JournalHeeded ==
    Safe /\ loaded.heard.known =>
        loaded.heard.head = loaded.git.head /\ loaded.heard.diff = loaded.git.diff
=============================================================================
