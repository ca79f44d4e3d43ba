------------------------------ MODULE DoctorCache ------------------------------
(***************************************************************************)
(* run_doctor_changed of doctor_batch.py: a full examination of every      *)
(* rollout, but for those whose fingerprint is the one in the cache.  The  *)
(* fingerprint is taken before doctor_session reads the rollout, twice,    *)
(* and Codex writes, moves and deletes rollouts meanwhile.  Findings that  *)
(* come from databases, not from the rollout, are not modelled.            *)
(***************************************************************************)
EXTENDS CodexHome

CONSTANT Batches                \* bound: runs of the command

ASSUME BatchAssumption == Batches \in Nat

Verdicts == {"MALFORMED_RECORD", "TRUNCATED_TRANSCRIPT", "ACTIVE_WRITE_UNCERTAIN",
             "INCOMPLETE_ROLLOUT", "HEALTHY", "SCAN_EXCEPTION"}
NoPrint == [size |-> 0, mtime |-> 0, sample |-> 0]     \* a file has a line at least
Prints  == [size : Nat, mtime : 0..Turns, sample : Nat]
CacheEntries == [path : Paths, print : Prints, status : Verdicts]

VARIABLES
    batch,      \* the paths still to examine, the one examined now, its fingerprint, what
                \* its parse found, the stat before the second read and what that found
    cache,      \* the entries of .cache_doctor.json
    newCache,   \* new_cache
    served,     \* a path whose verdict has just been taken from the cache, and the verdict
    batches,
    printed     \* history: the verdict on the rollout when its fingerprint was taken

doctorVars == <<batch, cache, newCache, served, batches, printed>>
NoPath   == [folder |-> "none", session |-> "none"]
NoBatch  == [todo |-> {}, now |-> NoPath, print |-> NoPrint, parsed |-> "HEALTHY",
             before |-> NoStat, header |-> FALSE]
NoServed == [paths |-> {}, status |-> "HEALTHY"]

DoctorTypeOK ==
    /\ batch \in [todo : SUBSET Paths, now : Paths \cup {NoPath}, print : Prints,
                  parsed : Verdicts, before : Stats, header : BOOLEAN]
    /\ cache \cup newCache \subseteq CacheEntries
    /\ served \in [paths : SUBSET Paths, status : Verdicts]
    /\ batches \in 0..Batches /\ printed \in Verdicts

DoctorInit ==
    /\ batch = NoBatch /\ cache = {} /\ newCache = {} /\ served = NoServed
    /\ batches = 0 /\ printed = "HEALTHY"

Now == batch.now
S   == Now.session

\* The worst finding is the status.
Parsed(s) ==
    IF \E i \in DOMAIN log[s] : log[s][i].kind = "bad" THEN "MALFORMED_RECORD"
    ELSE IF torn[s] THEN "TRUNCATED_TRANSCRIPT" ELSE "HEALTHY"
Worst(parsed, changed, alone) ==
    IF parsed # "HEALTHY" THEN parsed
    ELSE IF changed THEN "ACTIVE_WRITE_UNCERTAIN"
    ELSE IF alone THEN "INCOMPLETE_ROLLOUT" ELSE "HEALTHY"
\* header_only_rollout: lines that cannot be read are not counted.
HeaderOnly(s) == Cardinality({i \in DOMAIN log[s] : log[s][i].kind # "bad"}) = 1
Verdict(s) == Worst(Parsed(s), FALSE, HeaderOnly(s))

-----------------------------------------------------------------------------
\* A cache file that was not written whole counts as none.  The order in which the
\* rollouts are examined is left open.
BatchStart(whole) ==
    /\ pc = "idle" /\ batches < Batches
    /\ batches' = batches + 1
    /\ cache' = IF whole THEN cache ELSE {}
    /\ batch' = [NoBatch EXCEPT !.todo = {p \in Paths : There(p)}]
    /\ newCache' = {} /\ served' = NoServed
    /\ pc' = "doctorPrint" /\ result' = "none" /\ UNCHANGED printed

\* compute_file_fingerprint: a stat, then the first and the last bytes.
DoctorPrint(p) ==
    /\ pc = "doctorPrint" /\ p \in batch.todo
    /\ LET next == [NoBatch EXCEPT !.todo = batch.todo \ {p}, !.now = p]
           s    == p.session
       IN  \/ /\ There(p)
              /\ batch' = [next EXCEPT !.print = [NoPrint EXCEPT !.size = Size(s),
                                                                !.mtime = mtime[s]]]
              /\ printed' = Verdict(s) /\ Goto("doctorSample")
           \/ ~There(p) /\ batch' = next /\ Goto("doctorLookup") /\ UNCHANGED printed
    /\ served' = NoServed
    /\ UNCHANGED <<cache, newCache, batches>>

\* The first 4096 bytes are all hashed, what was appended since the stat included; of a
\* longer file nothing behind the size of the stat is.
DoctorSample ==
    /\ pc = "doctorSample"
    /\ \E sample \in {batch.print.size, Size(S)} :
          batch' = [batch EXCEPT !.print = IF There(Now) THEN [@ EXCEPT !.sample = sample]
                                                         ELSE NoPrint]
    /\ Goto("doctorLookup") /\ UNCHANGED <<cache, newCache, served, batches, printed>>

\* An entry counts if the file is what it was, and was not written to in the last two
\* seconds, which is left open.
Hits == {e \in cache : e.path = Now /\ e.print = batch.print /\ batch.print # NoPrint}
DoctorLookup ==
    /\ pc = "doctorLookup"
    /\ \/ \E e \in Hits :
             /\ newCache' = newCache \cup {e}
             /\ served' = [paths |-> {Now}, status |-> e.status]
             /\ Goto("doctorPrint")
       \/ Goto("doctorParse") /\ UNCHANGED <<newCache, served>>
    /\ UNCHANGED <<batch, cache, batches, printed>>

KeptLate == IF There(Now)       \* mutant: the fingerprint is taken afterwards
            THEN [size |-> Size(S), mtime |-> mtime[S], sample |-> Size(S)] ELSE NoPrint
\* Whatever doctor_session found is kept under the fingerprint taken before.
Kept == batch.print
Report(status) ==
    /\ newCache' = newCache \cup
          {e \in {[path |-> Now, print |-> Kept, status |-> status]} : e.print # NoPrint}
    /\ batch' = [NoBatch EXCEPT !.todo = batch.todo]
    /\ Goto("doctorPrint")

\* doctor_session: parse_transcript, then scan_rollout_alpha5 between two stats.
DoctorParse ==
    /\ pc = "doctorParse"
    /\ \/ /\ There(Now)
          /\ batch' = [batch EXCEPT !.parsed = Parsed(S)]
          /\ Goto("doctorBefore") /\ UNCHANGED newCache
       \/ ~There(Now) /\ Report("SCAN_EXCEPTION")
    /\ UNCHANGED <<cache, served, batches, printed>>

DoctorBefore ==
    /\ pc = "doctorBefore"
    /\ \/ /\ There(Now)
          /\ batch' = [batch EXCEPT !.before = Stat(S)]
          /\ Goto("doctorScan") /\ UNCHANGED newCache
       \/ ~There(Now) /\ Report("SCAN_EXCEPTION")
    /\ UNCHANGED <<cache, served, batches, printed>>

DoctorScan ==
    /\ pc = "doctorScan"
    /\ \/ /\ There(Now)
          /\ batch' = [batch EXCEPT !.header = HeaderOnly(S)]
          /\ Goto("doctorAfter") /\ UNCHANGED newCache
       \/ ~There(Now) /\ Report("SCAN_EXCEPTION")
    /\ UNCHANGED <<cache, served, batches, printed>>

DoctorAfter ==
    /\ pc = "doctorAfter"
    /\ Report(IF There(Now) THEN Worst(batch.parsed, Stat(S) # batch.before, batch.header)
              ELSE "SCAN_EXCEPTION")
    /\ UNCHANGED <<cache, served, batches, printed>>

\* The file is replaced, or left as it was if it cannot be written.
BatchEnd ==
    /\ pc = "doctorPrint" /\ batch.todo = {}
    /\ cache' \in {newCache, cache}
    /\ newCache' = {} /\ served' = NoServed
    /\ Answer("batch") /\ UNCHANGED <<batch, batches, printed>>

DoctorStep ==
    /\ \/ \E whole \in BOOLEAN : BatchStart(whole)
       \/ \E p \in batch.todo : DoctorPrint(p)
       \/ DoctorSample \/ DoctorLookup \/ DoctorParse \/ DoctorBefore
       \/ DoctorScan \/ DoctorAfter \/ BatchEnd
    /\ UNCHANGED home

\* The command beside a Codex that takes any turn.
DoctorSpec ==
    /\ HomeInit /\ pc = "idle" /\ result = "none" /\ DoctorInit
    /\ [][DoctorStep \/ (HomeTurn /\ UNCHANGED doctorVars)]_<<home, pc, result, doctorVars>>

-----------------------------------------------------------------------------
\* A verdict served from the cache is the one an examination of the rollout would
\* have reached when its fingerprint was taken just now, though the one it comes from
\* read the file twice while Codex wrote to it; a rollout caught in the middle of a
\* write is never served as that.  The code makes one exception: an examination that
\* failed, say because the file was away for a moment, is kept like any other and
\* served until the file is written to.
CacheIsFaithful ==
    served.paths # {} => served.status \in {printed, "SCAN_EXCEPTION"}
=============================================================================
