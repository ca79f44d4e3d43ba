-------------------------- MODULE MCSalvageHandoff --------------------------
(***************************************************************************)
(* View for the run of SalvageHandoff.  What a command has read dies with  *)
(* it, or earlier if no later step looks at it; of what verify read of the *)
(* rollout only whether it matches counts, of a result only whether it is  *)
(* safe; and nobody reads the journal once the last salvage has.           *)
(***************************************************************************)
EXTENDS SalvageHandoff

Parsing    == pc \in {"parseRead", "parseHash"}
Snapshot   == pc \in {"read1", "read2", "read3"}
Building   == pc \in {"stat1", "read1", "gitNames", "gitDiff", "journal", "stat2", "read2",
                      "stat3", "read3", "publish"}
Inspecting == pc \in {"gitDiff", "verifyDiff", "verdict"}
Verifying  == pc \in {"verifyStat", "verifyHash", "verifyNames", "verifyDiff", "verdict"}
JournalDue == salvages < MaxRescues \/ Parsing
              \/ pc \in {"parseStat", "stat1", "read1", "gitNames", "gitDiff", "journal"}

Live ==
    <<world, pc, salvages, rescues, Safe,
      IF JournalDue THEN <<hooks>> ELSE <<>>,
      IF Parsing THEN <<parsed, shrunk>> ELSE <<>>,
      IF Building THEN <<parsed, before, diverged, git, history>> ELSE <<>>,
      IF Snapshot THEN <<stat>> ELSE <<>>,
      IF Inspecting THEN <<git>> ELSE <<>>,
      IF pc = "verifyHash" THEN <<source>> ELSE <<>>,
      IF pc \in {"verifyNames", "verifyDiff", "verdict"} THEN <<SourceMatches>> ELSE <<>>,
      IF Verifying \/ Safe THEN <<loaded, moved>> ELSE <<>>>>
=============================================================================
