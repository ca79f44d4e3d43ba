------------------------ MODULE SalvageHandoffProofs ------------------------
(***************************************************************************)
(* What holds of SalvageHandoff however long the session, the work tree's  *)
(* history and the journal are, and however many handoffs there are.       *)
(***************************************************************************)
EXTENDS SalvageHandoff, TLAPS

Records == [id : Nat, kind : {"call", "output"}]
Reports == [content : Seq(Records), size : Nat, open : BOOLEAN, shrunk : BOOLEAN]

Counted ==
    /\ rollout \in Seq(Records) /\ parsed \in Reports /\ shrunk \in BOOLEAN
    /\ mtime \in Nat /\ edits \in 0..MaxEdits /\ head \in 0..MaxCommits
    /\ tree \in Trees /\ hidden \subseteq Files /\ git \in GitStates
    /\ journal \in Seq(Entries)
    /\ \A i \in 1..Len(journal) : journal[i].whole \/ journal[i] = Torn

\* A report that covers less than its hash is longer than the stat before it,
\* unless the rollout was cut back.
Complete(report) ==
    ~report.shrunk /\ Len(report.content) = report.size =>
        report.open = Pending(report.content)

Reported == {"stat1", "read1", "gitNames", "gitDiff", "journal", "stat2", "read2", "stat3",
             "read3", "publish"}

Parsed ==
    /\ pc = "parseRead" /\ ~shrunk => parsed.size <= Len(rollout)
    /\ pc = "parseHash" =>
         /\ parsed.open = Pending(parsed.content)
         /\ ~shrunk => parsed.size <= Len(parsed.content)
    /\ pc \in Reported => Complete(parsed)

\* What the snapshots pin down: as long as the mtime has not changed since the
\* first one, neither has the rollout.
Reading == {"gitNames", "gitDiff"}
Read_   == {"journal", "stat2", "read2", "stat3", "read3"}

Cut ==
    /\ pc \in Reading \cup Read_ => before.mtime \in Nat /\ before.mtime <= mtime
    /\ pc \in Reading /\ before.mtime = mtime => before.content = rollout
    /\ pc \in Read_ /\ before.mtime = mtime => before.content = sourceAtGit
    /\ pc = "publish" => before.content = sourceAtGit

\* A handoff that says nothing against continuing agrees with the journal's
\* last entry, and has a report without an open call.
Agreeing(state, entry, against) ==
    state.known /\ entry.known /\ ~against =>
        entry.head = state.head /\ entry.diff = state.diff

Sound(h) ==
    /\ h.unfinished = h.parsed.open /\ Complete(h.parsed)
    /\ Agreeing(h.git, h.heard, h.diverged)

Compared == {"stat2", "read2", "stat3", "read3", "publish"}
Heard == pc \in Compared => Agreeing(git, heard, diverged)

Verifying == {"verifyStat", "verifyHash", "verifyNames", "verifyDiff", "verdict"}

Stored ==
    /\ \A r \in rescues : Sound(r.id)
    /\ pc \in Verifying \/ Safe => Sound(loaded)
    /\ Safe => loaded.git.known /\ ~loaded.diverged

\* Nothing has moved: what verify has read is still there.
Fresh ==
    /\ pc # "idle" => result = "none"
    /\ ~moved =>
         /\ pc \in {"verifyHash", "verifyNames", "verifyDiff", "verdict"} =>
              source.size = Len(rollout)
         /\ pc \in {"verifyNames", "verifyDiff", "verdict"} => source.content = rollout
         /\ pc \in {"verifyDiff", "verdict"} /\ git.known => git.head = head
         /\ pc = "verifyDiff" => git.head = head /\ git.flags = hidden
         /\ pc = "verdict" /\ git.known => git.flags = hidden /\ git.diff = Visible
         /\ Safe => /\ rollout = loaded.parsed.content
                    /\ Pending(rollout) => loaded.parsed.shrunk
                    /\ head = loaded.git.head /\ tree = loaded.git.diff /\ hidden = {}

IInv == Counted /\ Parsed /\ Cut /\ HandoffIsOneCut /\ Heard /\ Stored /\ Fresh

-----------------------------------------------------------------------------

LEMMA EntriesTyped ==
    ASSUME Counted
    PROVE  NoEntry \in Entries /\ Torn \in Entries /\ Entry \in Entries
<1>1. [f \in Files |-> 0] \in Trees /\ 0 \in 0..MaxCommits
  BY SalvageAssumption DEF SalvageAssumption, Trees
<1>2. NoEntry \in Entries
  BY <1>1 DEF NoEntry, Entries
<1>3. Torn \in Entries
  BY <1>2 DEF Torn, Entries
<1>4. Visible \in Trees
  BY SalvageAssumption DEF Counted, Visible, Trees, SalvageAssumption
<1>5. Entry \in Entries
  BY <1>4 DEF Counted, Entry, Entries, Names
<1>. QED
  BY <1>2, <1>3, <1>5

LEMMA GitTyped ==
    ASSUME Counted
    PROVE  /\ NoGit \in GitStates
           /\ [NoGit EXCEPT !.head = head, !.names = Names, !.flags = hidden] \in GitStates
           /\ [git EXCEPT !.known = TRUE, !.diff = Visible] \in GitStates
<1>1. [f \in Files |-> 0] \in Trees /\ 0 \in 0..MaxCommits /\ Visible \in Trees
  BY SalvageAssumption DEF SalvageAssumption, Trees, Counted, Visible
<1>2. NoGit \in GitStates
  BY <1>1 DEF NoGit, GitStates
<1>3. Names \subseteq Files
  BY DEF Names
<1>. QED
  BY <1>1, <1>2, <1>3 DEF Counted, GitStates

LEMMA DiffKeepsTheRest ==
    ASSUME git \in GitStates, NEW state,
           state = [git EXCEPT !.known = TRUE, !.diff = Visible] \/ state = NoGit
    PROVE  state.known => /\ state.head = git.head /\ state.flags = git.flags
                          /\ state.diff = Visible
<1>1. CASE state = NoGit
  BY <1>1 DEF NoGit
<1>2. CASE state = [git EXCEPT !.known = TRUE, !.diff = Visible]
  <2>1. git = [known |-> git.known, head |-> git.head, names |-> git.names,
               flags |-> git.flags, diff |-> git.diff]
    BY DEF GitStates
  <2>2. state = [known |-> TRUE, head |-> git.head, names |-> git.names,
                 flags |-> git.flags, diff |-> Visible]
    BY <1>2, <2>1
  <2>. QED
    BY <2>2
<1>. QED
  BY <1>1, <1>2

LEMMA ParseTyped ==
    ASSUME Counted
    PROVE  /\ NoParse \in Reports
           /\ [NoParse EXCEPT !.size = Len(rollout)] \in Reports
           /\ [parsed EXCEPT !.content = rollout, !.open = Pending(rollout)] \in Reports
           /\ [parsed EXCEPT !.content = @ \o SubSeq(rollout, Len(@) + 1, Len(rollout)),
                             !.shrunk = shrunk] \in Reports
<1>1. Len(rollout) \in Nat /\ Pending(rollout) \in BOOLEAN
  BY DEF Counted, Pending
<1>2. <<>> \in Seq(Records)
  OBVIOUS
<1>3. parsed.content \o SubSeq(rollout, Len(parsed.content) + 1, Len(rollout)) \in Seq(Records)
  BY DEF Counted, Reports
<1>. QED
  BY <1>1, <1>2, <1>3 DEF Counted, Reports, NoParse

\* What is hashed behind the records read makes the rollout longer, or is nothing.
LEMMA Behind ==
    ASSUME NEW a \in Seq(Records), NEW b \in Seq(Records),
           Len(a \o SubSeq(b, Len(a) + 1, Len(b))) <= Len(a)
    PROVE  a \o SubSeq(b, Len(a) + 1, Len(b)) = a
<1>1. SubSeq(b, Len(a) + 1, Len(b)) \in Seq(Records)
  OBVIOUS
<1>2. Len(SubSeq(b, Len(a) + 1, Len(b))) = 0
  BY <1>1
<1>. QED
  BY <1>1, <1>2

LEMMA HashedIsParsed ==
    ASSUME Counted, Parsed, pc = "parseHash"
    PROVE  Complete([parsed EXCEPT
                       !.content = @ \o SubSeq(rollout, Len(@) + 1, Len(rollout)),
                       !.shrunk = shrunk])
<1>. DEFINE hashed == parsed.content \o SubSeq(rollout, Len(parsed.content) + 1, Len(rollout))
<1>1. parsed.content \in Seq(Records) /\ parsed.size \in Nat /\ rollout \in Seq(Records)
  BY DEF Counted, Reports
<1>2. ASSUME ~shrunk, Len(hashed) = parsed.size PROVE hashed = parsed.content
  BY <1>1, <1>2, Behind DEF Parsed
<1>3. ASSUME ~shrunk, Len(hashed) = parsed.size PROVE parsed.open = Pending(hashed)
  BY <1>2, <1>3 DEF Parsed
<1>. QED
  BY <1>3 DEF Complete, Counted, Reports

\* A journal without a torn line is read to its end.
LEMMA WholeJournalIsRead ==
    ASSUME Counted, journal # <<>>, ~Contains(journal, Torn)
    PROVE  ReadEntries # <<>> /\ Last(ReadEntries) = Last(journal)
<1>. DEFINE S == {n \in 0..Len(journal) : \A i \in 1..n : journal[i].whole}
<1>1. \A i \in 1..Len(journal) : journal[i].whole
  BY DEF Contains, Counted
<1>2. Len(journal) \in S /\ \A n \in S : n <= Len(journal)
  BY <1>1 DEF Counted
<1>3. Max(S) = Len(journal)
  BY <1>2 DEF Max
<1>4. ReadEntries = SubSeq(journal, 1, Len(journal))
  BY <1>3 DEF ReadEntries
<1>5. SubSeq(journal, 1, Len(journal)) = journal
  BY DEF Counted
<1>. QED
  BY <1>4, <1>5
-----------------------------------------------------------------------------

LEMMA InitIInv == Init => IInv
<1>. SUFFICES ASSUME Init PROVE IInv
  OBVIOUS
<1>1. Counted
  <2>1. NoParse \in Reports /\ <<>> \in Seq(Records) /\ <<>> \in Seq(Entries)
    BY DEF NoParse, Reports
  <2>2. git \in GitStates /\ tree \in Trees /\ edits \in 0..MaxEdits /\ head \in 0..MaxCommits
    BY SalvageAssumption DEF Init, Trees, SalvageAssumption, NoGit, GitStates
  <2>3. shrunk \in BOOLEAN /\ journal = <<>> /\ rollout = <<>> /\ parsed = NoParse
    BY DEF Init
  <2>4. mtime \in Nat /\ hidden \subseteq Files
    BY DEF Init
  <2>. QED
    BY <2>1, <2>2, <2>3, <2>4 DEF Counted
<1>. QED
  BY <1>1 DEF Init, IInv, Parsed, Reported, Cut, Reading, Read_, HandoffIsOneCut, Heard, Compared, Stored,
              Verifying, Fresh, Safe

\* A step of the salvage.
LEMMA SalvageIInv == ASSUME IInv, SalvageStep PROVE IInv'
<1>. USE DEF Goto, End, world, hooks, salvage, history, command, watch
<1>0. Counted /\ Parsed /\ Cut /\ HandoffIsOneCut /\ Heard /\ Stored /\ Fresh
  BY DEF IInv
<1>. USE DEF IInv, Counted, Parsed, Reported, Cut, Reading, Read_, HandoffIsOneCut, Heard, Compared, Stored,
             Verifying, Fresh, Safe
<1>1. CASE StartSalvage
  BY <1>0, <1>1 DEF StartSalvage
<1>2. CASE ParseStat
  <2>1. parsed'.size = Len(rollout) /\ Len(rollout) \in Nat /\ parsed' \in Reports
    BY <1>0, <1>2, ParseTyped DEF ParseStat, NoParse
  <2>. QED
    <3>1. Counted'
      BY <1>0, <1>2, <2>1 DEF ParseStat
    <3>2. Parsed'
      BY <1>0, <1>2, <2>1 DEF ParseStat
    <3>3. Cut'
      BY <1>0, <1>2 DEF ParseStat
    <3>4. HandoffIsOneCut' /\ Heard'
      BY <1>0, <1>2 DEF ParseStat
    <3>5. Stored'
      BY <1>0, <1>2 DEF ParseStat
    <3>6. Fresh'
      BY <1>0, <1>2 DEF ParseStat
    <3>. QED
      BY <3>1, <3>2, <3>3, <3>4, <3>5, <3>6
<1>3. CASE ParseRead
  BY <1>0, <1>3, ParseTyped DEF ParseRead, Reports
<1>16. CASE ParseHash
  BY <1>0, <1>16, ParseTyped, HashedIsParsed DEF ParseHash, Reports
<1>4. CASE SnapshotStat("stat1", "read1")
  BY <1>0, <1>4 DEF SnapshotStat
<1>5. CASE SnapshotBefore
  BY <1>0, <1>5 DEF SnapshotBefore, Stable, Stat
<1>6. CASE GitNames("gitNames", "gitDiff")
  BY <1>0, <1>6, GitTyped DEF GitNames
<1>7. CASE GitDiff("gitDiff", "journal")
  BY <1>0, <1>7, GitTyped DEF GitDiff
<1>8. CASE CompareJournal
  <2>1. /\ pc = "journal" /\ pc' = "stat2" /\ UNCHANGED <<world, hooks, result, watch, rescues>>
        /\ UNCHANGED <<parsed, before, git, loaded, source, sourceAtGit>>
    BY <1>8 DEF CompareJournal
  <2>2. ASSUME git.known, heard'.known, ~diverged'
        PROVE  heard'.head = git.head /\ heard'.diff = git.diff
    <3>1. journal # <<>> /\ ~Contains(journal, Torn) /\ heard' = Last(journal)
      BY <1>8, <2>2 DEF CompareJournal, NoEntry
    <3>2. ReadEntries # <<>> /\ Last(ReadEntries) = heard'
      BY <1>0, <3>1, WholeJournalIsRead
    <3>3. Agrees(heard')
      BY <1>8, <2>2, <3>2 DEF CompareJournal
    <3>. QED
      BY <2>2, <3>3 DEF Agrees
  <2>3. Agreeing(git, heard, diverged)'
    BY <2>1, <2>2 DEF Agreeing
  <2>. QED
    BY <1>0, <2>1, <2>3
<1>9. CASE SnapshotStat("stat2", "read2")
  BY <1>0, <1>9 DEF SnapshotStat
<1>10. CASE SnapshotAfterParse
  BY <1>0, <1>10 DEF SnapshotAfterParse
<1>11. CASE SnapshotStat("stat3", "read3")
  BY <1>0, <1>11 DEF SnapshotStat
<1>12. CASE SnapshotBeforeWrite
  BY <1>0, <1>12 DEF SnapshotBeforeWrite, Unmoved, Stable, Stat
<1>13. CASE Publish
  <2>1. /\ pc = "publish" /\ pc' = "stat4" /\ UNCHANGED <<world, hooks, result, watch, loaded>>
        /\ UNCHANGED <<parsed, before, git, source, sourceAtGit, heard, diverged>>
        /\ \A r \in rescues' : r \in rescues \/ r.id = BuildHandoff
    BY <1>13 DEF Publish
  <2>2. Sound(BuildHandoff) /\ BuildHandoff.snapshot.content = BuildHandoff.cut
    BY <1>0, <2>1 DEF Sound, BuildHandoff, Agreeing
  <2>3. \A r \in rescues' : Sound(r.id) /\ r.id.snapshot.content = r.id.cut
    BY <1>0, <2>1, <2>2
  <2>. QED
    BY <1>0, <2>1, <2>3
<1>14. CASE SnapshotStat("stat4", "read4")
  BY <1>0, <1>14 DEF SnapshotStat
<1>15. CASE SnapshotAfter
  BY <1>0, <1>15 DEF SnapshotAfter
<1>. QED
  BY <1>1, <1>2, <1>3, <1>4, <1>5, <1>6, <1>7, <1>8, <1>9, <1>10, <1>11, <1>12, <1>13,
     <1>14, <1>15, <1>16 DEF SalvageStep

\* A step of the verification.
LEMMA VerifyIInv == ASSUME IInv, VerifyStep PROVE IInv'
<1>. USE DEF Goto, End, world, hooks, salvage, history, command, watch
<1>0. Counted /\ Parsed /\ Cut /\ HandoffIsOneCut /\ Heard /\ Stored /\ Fresh
  BY DEF IInv
<1>. USE DEF IInv, Counted, Parsed, Reported, Cut, Reading, Read_, HandoffIsOneCut, Heard, Compared, Stored,
             Verifying, Fresh, Safe
<1>1. CASE StartVerify
  BY <1>0, <1>1, GitTyped DEF StartVerify, Load
<1>2. CASE VerifyStat
  BY <1>0, <1>2 DEF VerifyStat
<1>3. CASE VerifyHash
  BY <1>0, <1>3 DEF VerifyHash
<1>4. CASE GitNames("verifyNames", "verifyDiff")
  BY <1>0, <1>4, GitTyped DEF GitNames
<1>5. CASE GitDiff("verifyDiff", "verdict")
  <2>1. /\ pc = "verifyDiff" /\ pc' = "verdict"
        /\ UNCHANGED <<world, hooks, result, watch, loaded, rescues, before, source, parsed>>
        /\ git' = [git EXCEPT !.known = TRUE, !.diff = Visible] \/ git' = NoGit
    BY <1>5 DEF GitDiff
  <2>2. git'.known => git'.head = git.head /\ git'.flags = git.flags /\ git'.diff = Visible
    <3>1. git \in GitStates
      BY <1>0
    <3>. HIDE DEF Counted, Parsed, Cut, Stored, Fresh, IInv, HandoffIsOneCut, Heard
    <3>. QED
      BY <2>1, <3>1, DiffKeepsTheRest
  <2>3. Visible' = Visible
    BY <2>1 DEF Visible
  <2>. QED
    BY <1>0, <2>1, <2>2, <2>3, GitTyped
<1>6. CASE Verdict
  <2>1. /\ pc = "verdict" /\ pc' = "idle"
        /\ UNCHANGED <<world, hooks, moved, shrunk, loaded, rescues, before, source, git, parsed>>
        /\ result' = "SAFE_TO_CONTINUE" =>
              git.known /\ SourceMatches /\ Agrees(loaded.git) /\ ~Reviewed
        /\ result' \in {"REVIEW_REQUIRED", "STATE_DIVERGED", "SAFE_TO_CONTINUE"}
    BY <1>6 DEF Verdict
  <2>2. Sound(loaded)
    BY <1>0, <2>1
  <2>3. ASSUME result' = "SAFE_TO_CONTINUE"
        PROVE  /\ loaded.git.known /\ ~loaded.diverged
               /\ ~loaded.parsed.open /\ Complete(loaded.parsed)
               /\ source.content = loaded.parsed.content /\ source.size = loaded.parsed.size
               /\ git.known /\ git.flags = {}
               /\ loaded.git.head = git.head /\ loaded.git.diff = git.diff
    BY <2>1, <2>2, <2>3 DEF Reviewed, SourceMatches, Agrees, Sound
  <2>4. ASSUME ~moved, result' = "SAFE_TO_CONTINUE"
        PROVE  /\ rollout = loaded.parsed.content
               /\ Pending(rollout) => loaded.parsed.shrunk
               /\ head = loaded.git.head /\ tree = loaded.git.diff /\ hidden = {}
    <3>1. /\ hidden = {} /\ git.diff = Visible /\ git.head = head
          /\ source.content = rollout /\ source.size = Len(rollout)
      BY <1>0, <2>1, <2>3, <2>4
    <3>2. Visible = tree
      BY <1>0, <3>1 DEF Visible, Trees
    <3>. QED
      BY <2>3, <2>4, <3>1, <3>2 DEF Complete
  <2>. QED
    BY <1>0, <2>1, <2>2, <2>3, <2>4
<1>. QED
  BY <1>1, <1>2, <1>3, <1>4, <1>5, <1>6 DEF VerifyStep

-----------------------------------------------------------------------------

\* Whatever Codex and the user do, a rollout that changes gets a later mtime.
LEMMA WorldMoves ==
    ASSUME Counted, World
    PROVE  /\ rollout' \in Seq(Records)
           /\ mtime' \in Nat /\ mtime <= mtime' /\ (mtime' = mtime => rollout' = rollout)
           /\ edits' \in 0..MaxEdits /\ head' \in 0..MaxCommits
           /\ tree' \in Trees /\ hidden' \subseteq Files
<1>. USE SalvageAssumption DEF Counted
<1>. {MaxEdits, MaxCommits} \subseteq Nat
  BY DEF SalvageAssumption
<1>1. CASE AppendRecord
  <2>1. [id |-> mtime + 1, kind |-> IF Pending(rollout) THEN "output" ELSE "call"] \in Records
    BY DEF Records
  <2>. QED
    BY <1>1, <2>1 DEF AppendRecord
<1>2. CASE PutBack
  BY <1>2 DEF PutBack
<1>3. CASE Edit
  BY <1>3 DEF Edit, Trees
<1>4. CASE Undo
  BY <1>4 DEF Undo, Trees
<1>5. CASE Commit
  BY <1>5 DEF Commit, Trees
<1>6. CASE Flag
  BY <1>6 DEF Flag
<1>. QED
  BY <1>1, <1>2, <1>3, <1>4, <1>5, <1>6 DEF World

LEMMA WorldIInv == ASSUME IInv, World PROVE IInv'
<1>1. Counted /\ Parsed /\ Cut /\ HandoffIsOneCut /\ Heard /\ Stored /\ Fresh
  BY DEF IInv
<1>2. /\ rollout' \in Seq(Records)
      /\ mtime' \in Nat /\ mtime <= mtime' /\ (mtime' = mtime => rollout' = rollout)
      /\ edits' \in 0..MaxEdits /\ head' \in 0..MaxCommits
      /\ tree' \in Trees /\ hidden' \subseteq Files
  BY <1>1, WorldMoves
<1>3. /\ moved' = TRUE /\ shrunk' = (shrunk \/ Len(rollout') < Len(rollout))
      /\ UNCHANGED <<journal, pc, result, parsed, before, git, diverged, rescues, loaded, source>>
      /\ UNCHANGED <<sourceAtGit, heard>>
  BY DEF World, hooks, command, salvage, history
<1>4. Counted'
  BY <1>1, <1>2, <1>3 DEF Counted
<1>5. Cut'
  BY <1>1, <1>2, <1>3 DEF Cut, Counted, Reading, Read_
<1>9. Parsed'
  <2>1. Len(rollout) \in Nat /\ Len(rollout') \in Nat /\ parsed.size \in Nat
    BY <1>1, <1>2 DEF Counted, Reports
  <2>. QED
    <3>3. ~shrunk' => ~shrunk /\ ~(Len(rollout') < Len(rollout))
      BY <1>3, Zenon
    <3>1. ~shrunk' => ~shrunk /\ Len(rollout) <= Len(rollout')
      BY <2>1, <3>3
    <3>2. pc' = "parseRead" /\ ~shrunk' => parsed'.size <= Len(rollout')
      BY <1>1, <1>3, <2>1, <3>1 DEF Parsed
    <3>. QED
      BY <1>1, <1>3, <3>1, <3>2 DEF Parsed
<1>6. HandoffIsOneCut' /\ Heard'
  BY <1>1, <1>3 DEF HandoffIsOneCut, Heard
<1>7. Stored'
  BY <1>1, <1>3 DEF Stored, Safe
<1>8. Fresh'
  BY <1>1, <1>3 DEF Fresh
<1>. QED
  BY <1>4, <1>5, <1>6, <1>7, <1>8, <1>9 DEF IInv

LEMMA HookIInv == ASSUME IInv, Hook PROVE IInv'
<1>1. Counted /\ Parsed /\ Cut /\ HandoffIsOneCut /\ Heard /\ Stored /\ Fresh
  BY DEF IInv
<1>2. UNCHANGED <<rollout, mtime, tree, edits, head, hidden, pc, result, moved, shrunk>>
  BY DEF Hook, world, watch
<1>3. UNCHANGED <<parsed, before, git, diverged, rescues, loaded, source, sourceAtGit, heard>>
  BY DEF Hook, command, salvage, history
<1>4. \/ journal' = journal
      \/ \E entry \in {NoEntry, Entry, Torn} : journal' = Append(journal, entry)
  BY DEF Hook, HookAppend, HookDies
<1>5. Counted'
  <2>1. ASSUME NEW entry \in {NoEntry, Entry, Torn}, journal' = Append(journal, entry)
        PROVE  /\ journal' \in Seq(Entries)
               /\ \A i \in 1..Len(journal') : journal'[i].whole \/ journal'[i] = Torn
    <3>1. entry \in Entries
      BY <1>1, EntriesTyped
    <3>2. entry.whole \/ entry = Torn
      BY DEF NoEntry, Entry
    <3>. QED
      BY <1>1, <2>1, <3>1, <3>2 DEF Counted
  <2>. QED
    BY <1>1, <1>2, <1>3, <1>4, <2>1 DEF Counted
<1>6. Parsed' /\ Cut' /\ HandoffIsOneCut' /\ Heard'
  BY <1>1, <1>2, <1>3 DEF Parsed, Cut, HandoffIsOneCut, Heard
<1>7. Stored' /\ Fresh'
  BY <1>1, <1>2, <1>3 DEF Stored, Safe, Fresh, Visible
<1>. QED
  BY <1>5, <1>6, <1>7 DEF IInv

\* Editing a handoff leaves its id, the hash of what was written.
LEMMA TamperIInv == ASSUME IInv, Tamper PROVE IInv'
<1>1. Counted /\ Parsed /\ Cut /\ HandoffIsOneCut /\ Heard /\ Stored /\ Fresh
  BY DEF IInv
<1>2. /\ UNCHANGED <<rollout, mtime, tree, edits, head, hidden, journal>>
      /\ UNCHANGED <<pc, result, moved, shrunk>>
  BY DEF Tamper, world, hooks, watch
<1>3. UNCHANGED <<parsed, before, git, diverged, loaded, source, sourceAtGit, heard>>
  BY DEF Tamper, history
<1>4. \A r \in rescues' : \E s \in rescues : r.id = s.id
  <2>1. PICK s \in rescues :
          rescues' = (rescues \ {s}) \cup {[s EXCEPT !.content.unfinished = FALSE]}
    BY DEF Tamper
  <2>2. [s EXCEPT !.content.unfinished = FALSE].id = s.id
    OBVIOUS
  <2>. QED
    BY <2>1, <2>2
<1>5. Counted' /\ Parsed' /\ Cut' /\ Heard'
  BY <1>1, <1>2, <1>3 DEF Counted, Parsed, Cut, Heard
<1>6. HandoffIsOneCut'
  BY <1>1, <1>4 DEF HandoffIsOneCut
<1>7. Stored'
  BY <1>1, <1>2, <1>3, <1>4 DEF Stored, Safe
<1>8. Fresh'
  BY <1>1, <1>2, <1>3 DEF Fresh, Safe, Visible
<1>. QED
  BY <1>5, <1>6, <1>7, <1>8 DEF IInv

LEMMA StutterIInv == ASSUME IInv, UNCHANGED vars PROVE IInv'
BY DEF vars, world, hooks, command, salvage, history, watch, IInv, Counted, Parsed, Cut, HandoffIsOneCut,
       Heard, Stored, Fresh, Safe, Visible

LEMMA Invariant == Spec => []IInv
<1>1. ASSUME IInv, [Next]_vars PROVE IInv'
  BY <1>1, SalvageIInv, VerifyIInv, WorldIInv, HookIInv, TamperIInv, StutterIInv DEF Next
<1>. QED
  BY <1>1, InitIInv, PTL DEF Spec

-----------------------------------------------------------------------------

\* However the salvage, the verification, Codex and the user interleave, verify
\* says "safe to continue" only of a report on the rollout as it still is, with no
\* call open, unless the rollout was cut back while the doctor read it: the size of
\* the stat before the parse gives away what was appended before the hash.
THEOREM SafeSourceHolds == Spec => []SafeSource
<1>1. IInv => SafeSource
  BY DEF IInv, Fresh, SafeSource
<1>. QED
  BY <1>1, Invariant, PTL

\* ... and only with HEAD and the work tree the handoff describes, although Git's
\* names, flags and diffs are read one call after the other, twice.
THEOREM SafeWorkTreeHolds == Spec => []SafeWorkTree
<1>1. IInv => SafeWorkTree
  BY DEF IInv, Fresh, SafeWorkTree
<1>. QED
  BY <1>1, Invariant, PTL

\* The three snapshots of salvage_session pin the rollout down while Git is read:
\* an append that is put back leaves a later mtime.
THEOREM HandoffIsOneCutHolds == Spec => []HandoffIsOneCut
<1>1. IInv => HandoffIsOneCut
  BY DEF IInv
<1>. QED
  BY <1>1, Invariant, PTL

\* A handoff that disagrees with what the last hook saw of the work tree is never
\* verified as safe, however long the journal is.
THEOREM JournalHeededHolds == Spec => []JournalHeeded
<1>1. IInv => JournalHeeded
  BY DEF IInv, Stored, Sound, Agreeing, JournalHeeded, Safe
<1>. QED
  BY <1>1, Invariant, PTL

-----------------------------------------------------------------------------
(* Types.  A rollout is no longer than the writes it took.                 *)

Bodies == [id : 1..MaxWrites, kind : {"call", "output"}]

LEMMA RolloutIsSeq ==
    ASSUME NEW r \in Rollouts
    PROVE  r \in Seq(Bodies) /\ Len(r) \in 0..MaxWrites
<1>1. PICK n \in 0..MaxWrites : r \in [1..n -> Bodies]
  BY DEF Rollouts, Bodies
<1>2. n \in Nat
  BY SalvageAssumption DEF SalvageAssumption
<1>3. r \in Seq(Bodies)
  BY <1>1, <1>2
<1>4. Len(r) = n
  BY <1>1, <1>2, <1>3
<1>. QED
  BY <1>1, <1>3, <1>4

LEMMA SeqIsRollout ==
    ASSUME NEW r \in Seq(Bodies), Len(r) <= MaxWrites
    PROVE  r \in Rollouts
<1>1. Len(r) \in 0..MaxWrites /\ r \in [1..Len(r) -> Bodies]
  BY SalvageAssumption DEF SalvageAssumption
<1>. QED
  BY <1>1 DEF Rollouts, Bodies

LEMMA EmptyIsRollout == <<>> \in Rollouts
<1>1. <<>> \in Seq(Bodies) /\ Len(<<>>) = 0 /\ MaxWrites \in Nat
  BY SalvageAssumption DEF SalvageAssumption
<1>2. Len(<<>>) <= MaxWrites
  BY <1>1
<1>. QED
  BY <1>1, <1>2, SeqIsRollout

\* A rollout and what another one holds behind its length are no longer than both.
LEMMA BehindTyped ==
    ASSUME NEW a \in Seq(Bodies), NEW b \in Seq(Bodies),
           Len(a) <= MaxWrites, Len(b) <= MaxWrites
    PROVE  a \o SubSeq(b, Len(a) + 1, Len(b)) \in Rollouts
<1>0. PICK s : s = SubSeq(b, Len(a) + 1, Len(b))
  OBVIOUS
<1>1. s \in Seq(Bodies)
  BY <1>0
<1>2. Len(a) \in Nat /\ Len(b) \in Nat /\ Len(s) \in Nat /\ MaxWrites \in Nat
  BY <1>1, SalvageAssumption DEF SalvageAssumption
<1>3. a \o s \in Seq(Bodies) /\ Len(a \o s) = Len(a) + Len(s)
  BY <1>1
<1>4. CASE Len(a) < Len(b)
  <2>1. Len(s) = Len(b) - Len(a)
    BY <1>0, <1>2, <1>4
  <2>2. Len(a \o s) <= MaxWrites
    BY <1>2, <1>3, <2>1
  <2>. QED
    BY <1>0, <1>3, <2>2, SeqIsRollout
<1>5. CASE ~(Len(a) < Len(b))
  <2>1. Len(s) = 0
    BY <1>0, <1>2, <1>5
  <2>2. Len(a \o s) <= MaxWrites
    BY <1>2, <1>3, <2>1
  <2>. QED
    BY <1>0, <1>3, <2>2, SeqIsRollout
<1>. QED
  BY <1>4, <1>5

WorldTyped ==
    /\ rollout \in Rollouts /\ mtime \in 0..MaxWrites /\ Len(rollout) <= mtime
    /\ tree \in Trees /\ edits \in 0..MaxEdits /\ head \in 0..MaxCommits
    /\ hidden \subseteq Files

HooksTyped == journal \in Seq(Entries) /\ tail \in {"none", "partial"}

Steps == {"idle", "parseStat", "parseRead", "parseHash", "stat1", "read1", "gitNames",
          "gitDiff", "journal", "stat2", "read2", "stat3", "read3", "publish",
          "stat4", "read4",
          "verifyStat", "verifyHash", "verifyNames", "verifyDiff", "verdict"}
Results == {"none", "RAISED", "UNTOUCHED", "TOUCHED",
            "REVIEW_REQUIRED", "STATE_DIVERGED", "SAFE_TO_CONTINUE"}

SalvageTyped ==
    /\ salvages \in 0..MaxRescues
    /\ parsed \in Parses /\ before \in Reads /\ diverged \in BOOLEAN
    /\ rescues \subseteq [id : Handoffs, content : Handoffs]

ReadTyped ==
    /\ pc \in Steps /\ result \in Results
    /\ stat \in Stats /\ git \in GitStates
    /\ loaded \in Handoffs /\ source \in Reads
    /\ sourceAtGit \in Rollouts /\ heard \in Entries
    /\ moved \in BOOLEAN /\ shrunk \in BOOLEAN

Typed == WorldTyped /\ HooksTyped /\ SalvageTyped /\ ReadTyped

\* What a read of the rollout and the work tree yields has its type.
LEMMA ReadsTyped ==
    ASSUME WorldTyped
    PROVE  /\ Stat \in Stats /\ Len(rollout) \in 0..MaxWrites /\ 0 \in 0..MaxWrites
           /\ <<>> \in Rollouts /\ Pending(rollout) \in BOOLEAN
           /\ NoRead \in Reads /\ NoParse \in Parses
           /\ NoEntry \in Entries /\ Torn \in Entries /\ Entry \in Entries
           /\ NoGit \in GitStates /\ Visible \in Trees /\ Names \subseteq Files
<1>. USE SalvageAssumption DEF SalvageAssumption
<1>1. Len(rollout) \in 0..MaxWrites /\ 0 \in 0..MaxWrites /\ mtime \in 0..MaxWrites
  BY RolloutIsSeq DEF WorldTyped
<1>2. <<>> \in Rollouts
  BY EmptyIsRollout
<1>3. [f \in Files |-> 0] \in Trees /\ 0 \in 0..MaxCommits /\ head \in 0..MaxCommits
  BY DEF Trees, WorldTyped
<1>4. Visible \in Trees /\ Names \subseteq Files
  BY DEF Visible, Names, Trees, WorldTyped
<1>5. NoEntry \in Entries /\ Torn \in Entries /\ Entry \in Entries
  BY <1>3, <1>4 DEF NoEntry, Torn, Entry, Entries
<1>6. NoGit \in GitStates
  BY <1>3 DEF NoGit, GitStates
<1>7. NoRead \in Reads /\ NoParse \in Parses /\ Stat \in Stats
  BY <1>1, <1>2 DEF NoRead, Reads, NoParse, Parses, Stat, Stats
<1>8. Pending(rollout) \in BOOLEAN
  BY DEF Pending
<1>. QED
  BY <1>1, <1>2, <1>4, <1>5, <1>6, <1>7, <1>8

LEMMA InitTyped == Init => Typed
<1>. SUFFICES ASSUME Init PROVE Typed
  OBVIOUS
<1>1. WorldTyped
  <2>1. <<>> \in Rollouts
    BY EmptyIsRollout
  <2>. QED
    BY <2>1, SalvageAssumption DEF SalvageAssumption, WorldTyped, Init, Trees
<1>2. NoHandoff \in Handoffs
  BY <1>1, ReadsTyped DEF NoHandoff, Handoffs
<1>3. SalvageTyped
  <2>1. NoParse \in Parses /\ NoRead \in Reads
    BY <1>1, ReadsTyped
  <2>2. 0 \in 0..MaxRescues
    BY SalvageAssumption DEF SalvageAssumption
  <2>. QED
    BY <2>1, <2>2 DEF SalvageTyped, Init
<1>4. ReadTyped
  <2>1. stat \in Stats
    BY <1>1, ReadsTyped DEF Init, Stats
  <2>. QED
    BY <1>1, <1>2, <2>1, ReadsTyped DEF ReadTyped, Init, Steps, Results
<1>5. HooksTyped
  BY DEF HooksTyped, Init
<1>. QED
  BY <1>1, <1>3, <1>4, <1>5 DEF Typed

LEMMA WorldStepTyped ==
    ASSUME Typed, World
    PROVE  Typed'
<1>. USE SalvageAssumption DEF SalvageAssumption
<1>1. /\ rollout \in Rollouts /\ mtime \in 0..MaxWrites /\ Len(rollout) <= mtime
      /\ tree \in Trees /\ edits \in 0..MaxEdits /\ head \in 0..MaxCommits
      /\ hidden \subseteq Files
  BY DEF Typed, WorldTyped
<1>2. rollout \in Seq(Bodies) /\ Len(rollout) \in 0..MaxWrites
  BY <1>1, RolloutIsSeq
<1>3. WorldTyped'
  <2>1. CASE AppendRecord
    <3>. DEFINE record == [id |-> mtime + 1,
                           kind |-> IF Pending(rollout) THEN "output" ELSE "call"]
    <3>1. mtime + 1 \in 1..MaxWrites /\ mtime' = mtime + 1 /\ rollout' = Append(rollout, record)
      BY <1>1, <2>1 DEF AppendRecord
    <3>2. record \in Bodies
      BY <3>1 DEF Bodies
    <3>. HIDE DEF record
    <3>3. rollout' \in Seq(Bodies) /\ Len(rollout') = Len(rollout) + 1
      BY <1>2, <3>1, <3>2
    <3>4. Len(rollout') <= mtime' /\ mtime' \in 0..MaxWrites /\ Len(rollout') <= MaxWrites
      BY <1>1, <1>2, <3>1, <3>3
    <3>5. rollout' \in Rollouts
      BY <3>3, <3>4, SeqIsRollout
    <3>. QED
      BY <1>1, <2>1, <3>4, <3>5 DEF AppendRecord, WorldTyped
  <2>2. CASE PutBack
    <3>1. mtime' = mtime + 1 /\ mtime < MaxWrites
      BY <2>2 DEF PutBack
    <3>2. PICK n \in 0..Len(rollout) : rollout' = SubSeq(rollout, 1, n)
      BY <2>2 DEF PutBack
    <3>3. rollout' \in Seq(Bodies) /\ Len(rollout') = n
      BY <1>2, <3>2
    <3>4. Len(rollout') <= mtime' /\ mtime' \in 0..MaxWrites /\ Len(rollout') <= MaxWrites
      BY <1>1, <1>2, <3>1, <3>2, <3>3
    <3>5. rollout' \in Rollouts
      BY <3>3, <3>4, SeqIsRollout
    <3>. QED
      BY <1>1, <2>2, <3>4, <3>5 DEF PutBack, WorldTyped
  <2>3. CASE Edit
    BY <1>1, <2>3 DEF Edit, WorldTyped, Trees
  <2>4. CASE Undo
    BY <1>1, <2>4 DEF Undo, WorldTyped, Trees
  <2>5. CASE Commit
    BY <1>1, <2>5 DEF Commit, WorldTyped, Trees
  <2>6. CASE Flag
    BY <1>1, <2>6 DEF Flag, WorldTyped
  <2>. QED
    BY <2>1, <2>2, <2>3, <2>4, <2>5, <2>6 DEF World
<1>4. HooksTyped' /\ SalvageTyped'
  BY DEF Typed, World, HooksTyped, SalvageTyped, hooks, command, salvage
<1>5. ReadTyped'
  <2>1. moved' \in BOOLEAN /\ shrunk' \in BOOLEAN
    BY DEF World
  <2>2. UNCHANGED <<pc, result, stat, git, loaded, source, sourceAtGit, heard>>
    BY DEF World, command, history
  <2>. QED
    BY <2>1, <2>2 DEF Typed, ReadTyped
<1>. QED
  BY <1>3, <1>4, <1>5 DEF Typed

LEMMA HookStepTyped ==
    ASSUME Typed, Hook
    PROVE  Typed'
<1>1. UNCHANGED <<world, pc, command, result, watch>>
  BY DEF Hook
<1>2. WorldTyped' /\ SalvageTyped' /\ ReadTyped'
  BY <1>1 DEF Typed, WorldTyped, SalvageTyped, ReadTyped, world, command, salvage, history, watch
<1>3. HooksTyped'
  <2>1. NoEntry \in Entries /\ Torn \in Entries /\ Entry \in Entries
    BY ReadsTyped DEF Typed
  <2>. QED
    BY <2>1 DEF Typed, HooksTyped, Hook, HookAppend, HookDies
<1>. QED
  BY <1>2, <1>3 DEF Typed

LEMMA TamperStepTyped ==
    ASSUME Typed, Tamper
    PROVE  Typed'
<1>1. WorldTyped' /\ HooksTyped'
  BY DEF Typed, Tamper, WorldTyped, HooksTyped, world, hooks
<1>2. ReadTyped'
  BY DEF Typed, Tamper, ReadTyped, history, watch
<1>3. SalvageTyped'
  <2>1. PICK r \in rescues :
            rescues' = (rescues \ {r}) \cup {[r EXCEPT !.content.unfinished = FALSE]}
    BY DEF Tamper
  <2>2. r \in [id : Handoffs, content : Handoffs]
    BY DEF Typed, SalvageTyped
  <2>3. [r.content EXCEPT !.unfinished = FALSE] \in Handoffs
    BY <2>2 DEF Handoffs
  <2>4. [r EXCEPT !.content.unfinished = FALSE] \in [id : Handoffs, content : Handoffs]
    BY <2>2, <2>3
  <2>5. rescues' \subseteq [id : Handoffs, content : Handoffs]
    BY <2>1, <2>4 DEF Typed, SalvageTyped
  <2>. QED
    BY <2>5 DEF Typed, Tamper, SalvageTyped
<1>. QED
  BY <1>1, <1>2, <1>3 DEF Typed

\* A step of a command reads the world; what it may change is typed.
LEMMA CommandTyped ==
    ASSUME Typed, UNCHANGED <<world, hooks>>, pc' \in Steps, result' \in Results,
           SalvageTyped', stat' \in Stats, git' \in GitStates, loaded' \in Handoffs,
           source' \in Reads, sourceAtGit' \in Rollouts, heard' \in Entries,
           moved' \in BOOLEAN, shrunk' \in BOOLEAN
    PROVE  Typed'
BY DEF Typed, WorldTyped, HooksTyped, ReadTyped, world, hooks

\* The shared steps.
LEMMA SharedTyped ==
    ASSUME Typed, NEW here \in Steps, NEW next \in Steps,
           SnapshotStat(here, next) \/ GitNames(here, next) \/ GitDiff(here, next)
    PROVE  Typed'
<1>. USE DEF Goto, history, watch, salvage
<1>1. WorldTyped /\ SalvageTyped /\ ReadTyped
  BY DEF Typed
<1>2. CASE SnapshotStat(here, next)
  <2>1. stat' \in Stats
    BY <1>1, <1>2, ReadsTyped DEF SnapshotStat
  <2>. QED
    BY <1>1, <1>2, <2>1, CommandTyped DEF SnapshotStat, SalvageTyped, ReadTyped
<1>3. CASE GitNames(here, next)
  <2>1. [NoGit EXCEPT !.head = head, !.names = Names, !.flags = hidden] \in GitStates
    BY <1>1, ReadsTyped DEF WorldTyped, GitStates
  <2>. QED
    BY <1>1, <1>3, <2>1, CommandTyped DEF GitNames, SalvageTyped, ReadTyped
<1>4. CASE GitDiff(here, next)
  <2>1. [git EXCEPT !.known = TRUE, !.diff = Visible] \in GitStates
    BY <1>1, ReadsTyped DEF ReadTyped, GitStates
  <2>2. git' \in GitStates /\ sourceAtGit' \in Rollouts
    BY <1>1, <1>4, <2>1, ReadsTyped DEF GitDiff, WorldTyped
  <2>. QED
    BY <1>1, <1>4, <2>2, CommandTyped DEF GitDiff, SalvageTyped, ReadTyped
<1>. QED
  BY <1>2, <1>3, <1>4

LEMMA SalvageStepTyped ==
    ASSUME Typed, SalvageStep
    PROVE  Typed'
<1>. USE DEF Goto, End, history, watch, salvage, command
<1>1. WorldTyped /\ HooksTyped /\ SalvageTyped /\ ReadTyped
  BY DEF Typed
<1>2. CASE StartSalvage
  <2>1. salvages' \in 0..MaxRescues
    BY <1>1, <1>2, SalvageAssumption DEF StartSalvage, SalvageTyped, SalvageAssumption
  <2>2. SalvageTyped'
    BY <1>1, <1>2, <2>1 DEF StartSalvage, SalvageTyped
  <2>. QED
    BY <1>1, <1>2, <2>2, CommandTyped DEF StartSalvage, ReadTyped, Steps, Results
<1>3. CASE ParseStat
  <2>1. [NoParse EXCEPT !.size = Len(rollout)] \in Parses
    BY <1>1, ReadsTyped DEF Parses
  <2>2. SalvageTyped'
    BY <1>1, <1>3, <2>1 DEF ParseStat, SalvageTyped
  <2>. QED
    BY <1>1, <1>3, <2>2, CommandTyped DEF ParseStat, ReadTyped, Steps
<1>4. CASE ParseRead
  <2>1. [parsed EXCEPT !.content = rollout, !.open = Pending(rollout)] \in Parses
    BY <1>1, ReadsTyped DEF Parses, SalvageTyped, WorldTyped
  <2>2. SalvageTyped'
    BY <1>1, <1>4, <2>1 DEF ParseRead, SalvageTyped
  <2>. QED
    BY <1>1, <1>4, <2>2, CommandTyped DEF ParseRead, ReadTyped, Steps
<1>5. CASE ParseHash
  <2>. DEFINE c == parsed.content
              hashed == c \o SubSeq(rollout, Len(c) + 1, Len(rollout))
  <2>1. c \in Rollouts /\ rollout \in Rollouts
    BY <1>1 DEF SalvageTyped, Parses, WorldTyped
  <2>2. /\ c \in Seq(Bodies) /\ rollout \in Seq(Bodies)
        /\ Len(c) \in 0..MaxWrites /\ Len(rollout) \in 0..MaxWrites
    BY <2>1, RolloutIsSeq
  <2>3. hashed \in Rollouts
    BY <2>2, BehindTyped
  <2>. HIDE DEF hashed
  <2>4. parsed' = [parsed EXCEPT !.content = hashed, !.shrunk = shrunk]
    BY <1>5 DEF ParseHash, hashed
  <2>5. parsed' \in Parses
    BY <1>1, <2>3, <2>4 DEF SalvageTyped, Parses, ReadTyped
  <2>6. SalvageTyped'
    BY <1>1, <1>5, <2>5 DEF ParseHash, SalvageTyped
  <2>. QED
    BY <1>1, <1>5, <2>6, CommandTyped DEF ParseHash, ReadTyped, Steps
<1>6. CASE SnapshotBefore
  <2>1. before' \in Reads
    BY <1>1, <1>6 DEF SnapshotBefore, SalvageTyped, Reads, WorldTyped, ReadTyped, Stats
  <2>2. SalvageTyped'
    BY <1>1, <1>6, <2>1 DEF SnapshotBefore, SalvageTyped
  <2>3. pc' \in Steps /\ result' \in Results
    BY <1>1, <1>6 DEF SnapshotBefore, ReadTyped, Steps, Results
  <2>. QED
    BY <1>1, <1>6, <2>2, <2>3, CommandTyped DEF SnapshotBefore, ReadTyped
<1>7. CASE CompareJournal
  <2>1. heard' \in Entries
    <3>1. journal # <<>> => Last(journal) \in Entries
      BY <1>1 DEF HooksTyped, Last
    <3>. QED
      BY <1>1, <1>7, <3>1, ReadsTyped DEF CompareJournal
  <2>2. diverged' \in BOOLEAN
    BY <1>7 DEF CompareJournal
  <2>3. SalvageTyped'
    BY <1>1, <1>7, <2>2 DEF CompareJournal, SalvageTyped
  <2>. QED
    BY <1>1, <1>7, <2>1, <2>3, CommandTyped DEF CompareJournal, ReadTyped, Steps
<1>8. CASE SnapshotAfterParse \/ SnapshotBeforeWrite \/ SnapshotAfter
  <2>1. pc' \in Steps /\ result' \in Results /\ UNCHANGED <<world, hooks, command, watch>>
    BY <1>1, <1>8 DEF SnapshotAfterParse, SnapshotBeforeWrite, SnapshotAfter,
                      ReadTyped, Steps, Results
  <2>. QED
    BY <1>1, <2>1, CommandTyped DEF SalvageTyped, ReadTyped
<1>9. CASE Publish
  <2>1. BuildHandoff \in Handoffs
    <3>1. parsed.open \in BOOLEAN
      BY <1>1 DEF SalvageTyped, Parses
    <3>. QED
      BY <1>1, <3>1 DEF BuildHandoff, Handoffs, SalvageTyped, ReadTyped
  <2>2. rescues' \subseteq [id : Handoffs, content : Handoffs]
    BY <1>1, <1>9, <2>1 DEF Publish, SalvageTyped
  <2>3. SalvageTyped'
    BY <1>1, <1>9, <2>2 DEF Publish, SalvageTyped
  <2>. QED
    BY <1>1, <1>9, <2>3, CommandTyped DEF Publish, ReadTyped, Steps
<1>10. ASSUME SnapshotStat("stat1", "read1") \/ GitNames("gitNames", "gitDiff")
               \/ GitDiff("gitDiff", "journal") \/ SnapshotStat("stat2", "read2")
               \/ SnapshotStat("stat3", "read3") \/ SnapshotStat("stat4", "read4")
       PROVE  Typed'
  <2>1. {"stat1", "read1", "gitNames", "gitDiff", "journal", "stat2", "read2", "stat3",
         "read3", "stat4", "read4"} \subseteq Steps
    BY DEF Steps
  <2>. QED
    BY <1>10, <2>1, SharedTyped
<1>. QED
  BY <1>2, <1>3, <1>4, <1>5, <1>6, <1>7, <1>8, <1>9, <1>10 DEF SalvageStep

LEMMA VerifyStepTyped ==
    ASSUME Typed, VerifyStep
    PROVE  Typed'
<1>. USE DEF Goto, End, history, watch, salvage, command
<1>1. WorldTyped /\ SalvageTyped /\ ReadTyped
  BY DEF Typed
<1>2. CASE StartVerify
  <2>1. PICK r \in rescues :
            /\ loaded' = r.content
            /\ IF Load(r) THEN pc' = "verifyStat" /\ result' = "none"
                          ELSE End("REVIEW_REQUIRED")
    BY <1>2 DEF StartVerify
  <2>2. loaded' \in Handoffs
    BY <1>1, <2>1 DEF SalvageTyped
  <2>3. pc' \in Steps /\ result' \in Results
    BY <2>1 DEF Steps, Results
  <2>. QED
    BY <1>1, <1>2, <2>2, <2>3, ReadsTyped, CommandTyped
       DEF StartVerify, SalvageTyped, ReadTyped
<1>3. CASE VerifyStat
  <2>1. source' \in Reads
    BY <1>1, <1>3, ReadsTyped DEF VerifyStat, Reads, WorldTyped
  <2>. QED
    BY <1>1, <1>3, <2>1, CommandTyped DEF VerifyStat, SalvageTyped, ReadTyped, Steps
<1>4. CASE VerifyHash
  <2>1. source' \in Reads
    BY <1>1, <1>4 DEF VerifyHash, Reads, WorldTyped, ReadTyped
  <2>. QED
    BY <1>1, <1>4, <2>1, CommandTyped DEF VerifyHash, SalvageTyped, ReadTyped, Steps
<1>5. CASE GitNames("verifyNames", "verifyDiff") \/ GitDiff("verifyDiff", "verdict")
  <2>1. {"verifyNames", "verifyDiff", "verdict"} \subseteq Steps
    BY DEF Steps
  <2>. QED
    BY <1>5, <2>1, SharedTyped
<1>6. CASE Verdict
  <2>1. pc' \in Steps /\ result' \in Results /\ UNCHANGED <<world, hooks, command, watch>>
    BY <1>6 DEF Verdict, Steps, Results
  <2>. QED
    BY <1>1, <2>1, CommandTyped DEF SalvageTyped, ReadTyped
<1>. QED
  BY <1>2, <1>3, <1>4, <1>5, <1>6 DEF VerifyStep

\* The state of salvage and verify keeps its types: no rollout grows past the
\* writes it took, and every handoff ever stored, tampered with or not, is one.
THEOREM TypeCorrect == Spec => []TypeOK
<1>1. Typed => TypeOK
  BY DEF Typed, WorldTyped, HooksTyped, SalvageTyped, ReadTyped, Steps, Results, TypeOK
<1>2. ASSUME Typed, [Next]_vars PROVE Typed'
  <2>1. CASE UNCHANGED vars
    BY <1>2, <2>1 DEF vars, world, hooks, command, salvage, history, watch,
                      Typed, WorldTyped, HooksTyped, SalvageTyped, ReadTyped
  <2>. QED
    BY <1>2, <2>1, SalvageStepTyped, VerifyStepTyped, WorldStepTyped, HookStepTyped,
       TamperStepTyped DEF Next
<1>. QED
  BY <1>1, <1>2, InitTyped, PTL DEF Spec
=============================================================================
