--------------------------- MODULE PortableSession ---------------------------
(***************************************************************************)
(* Portable packages (portable.py) and prefix salvage (salvage_stream.py). *)
(* An export scans a rollout, hashes it, takes its size and packs it, each *)
(* time from a file Codex may be writing to; an import trusts what the     *)
(* package's manifest says of the scan and compares hashes; a salvage      *)
(* copies the prefix the scan found clean.  No import reaches the live     *)
(* folders: the payload is staged and there it stays.                      *)
(***************************************************************************)
EXTENDS CodexHome

CONSTANT Exports                \* bound: exports started

ASSUME ExportAssumption == Exports \in Nat

\* What a file holds: whole lines, and half a line behind them or not.
Contents  == [lines : Seq(Records), torn : BOOLEAN]
NoContent == [lines |-> <<>>, torn |-> FALSE]
Content(s) == [lines |-> log[s], torn |-> torn[s]]
Clean(c) == ~c.torn /\ \A i \in DOMAIN c.lines : c.lines[i].kind # "bad"

Statuses == {"HEALTHY", "VALID_BUT_OVERSIZED", "TRUNCATED_TRANSCRIPT", "CORRUPTED"}
Manifests == [session : Sessions \cup {"none"}, status : Statuses, hash : Contents, safe : BOOLEAN]
NoManifest == [session |-> "none", status |-> "CORRUPTED", hash |-> NoContent, safe |-> FALSE]
NoPackage == [manifest |-> NoManifest, payload |-> NoContent]

VARIABLES
    export,     \* the manifest being built
    exports,
    package,    \* the package on disk, none at first
    plan,       \* the last ImportPlan: safe_to_import
    manifest,   \* the manifest execute_import read
    staged,     \* the file in .rescue_staging
    prefix,     \* the valid prefix, in lines, and source of a salvage
    target,     \* the salvaged file

    \* history, for the properties only
    scanned,    \* the content of the last scan
    drifted,    \* contents hashed after another one was scanned
    given       \* the import runs on a plan made for an earlier package

portVars == <<export, exports, package, plan, manifest, staged, prefix, target,
              scanned, drifted, given>>

PortTypeOK ==
    /\ export \in Manifests /\ exports \in 0..Exports
    /\ package \in [manifest : Manifests, payload : Contents]
    /\ plan \in BOOLEAN /\ manifest \in Manifests
    /\ {staged, target, scanned} \subseteq Contents /\ drifted \subseteq Contents
    /\ prefix \in [session : Sessions \cup {"none"}, lines : Nat]
    /\ given \in BOOLEAN

PortInit ==
    /\ export = NoManifest /\ exports = 0 /\ package = NoPackage
    /\ plan = FALSE /\ manifest = NoManifest
    /\ staged = NoContent /\ target = NoContent
    /\ prefix = [session |-> "none", lines |-> 0]
    /\ scanned = NoContent /\ drifted = {} /\ given = FALSE

\* scan_stream: a bad line outranks a cut tail, and that a giant record; what is bad at
\* the very end counts as a cut tail.
Holds(c, kind) == \E i \in DOMAIN c.lines : c.lines[i].kind = kind
ScanStatusTail(c) ==            \* mutant: only the tail is looked at
    IF c.torn THEN "TRUNCATED_TRANSCRIPT" ELSE "HEALTHY"
ScanStatus(c) ==
    IF \E i \in DOMAIN c.lines : c.lines[i].kind = "bad" /\ (c.torn \/ i < Len(c.lines))
    THEN "CORRUPTED"
    ELSE IF c.torn \/ Holds(c, "bad") THEN "TRUNCATED_TRANSCRIPT"
    ELSE IF Holds(c, "big") THEN "VALID_BUT_OVERSIZED" ELSE "HEALTHY"
MigrationSafe(status) == status \in {"HEALTHY", "VALID_BUT_OVERSIZED"}

CleanLinesBad(c) == Cardinality({i \in DOMAIN c.lines : c.lines[i].kind # "bad"})
                                \* mutant: lines behind a bad one count
\* valid_prefix_bytes
CleanLines(c) == CHOOSE n \in 0..Len(c.lines) :
    /\ \A i \in 1..n : c.lines[i].kind # "bad"
    /\ n = Len(c.lines) \/ c.lines[n + 1].kind = "bad"

-----------------------------------------------------------------------------
(* export_session                                                          *)
Here(s) == place[s] # "nowhere"
Gone(s, exception) == ~Here(s) /\ Answer(exception)

ExportScan(s) ==
    /\ pc = "idle" /\ Here(s) /\ exports < Exports
    /\ exports' = exports + 1
    /\ export' = [NoManifest EXCEPT !.session = s, !.status = ScanStatus(Content(s))]
    /\ scanned' = Content(s)
    /\ pc' = "exportHash" /\ result' = "none"
    /\ UNCHANGED <<package, plan, manifest, staged, prefix, target, drifted, given>>

\* The thread's id is taken from the file's name alone, so a header that names
\* another thread makes no conflict here.
Classified(m) ==
    [m EXCEPT !.safe = MigrationSafe(m.status) /\ ResolveThread(m.session, FALSE) \notin
                          {NoThread, [NoThread EXCEPT !.conflict = TRUE]}]

ExportHash ==
    /\ pc = "exportHash"
    /\ \/ /\ Here(export.session)
          /\ export' = Classified([export EXCEPT !.hash = Content(export.session)])
          /\ drifted' = IF Content(export.session) = scanned THEN drifted
                        ELSE drifted \cup {Content(export.session)}
          /\ Goto("exportPack")
       \/ Gone(export.session, "FileNotFoundError") /\ UNCHANGED <<export, drifted>>
    /\ UNCHANGED <<exports, package, plan, manifest, staged, prefix, target, scanned, given>>

\* The manifest is in the archive before the rollout is read once more; without
\* the rollout the archive is closed with the manifest alone.
ExportPack ==
    /\ pc = "exportPack"
    /\ \/ /\ Here(export.session)
          /\ package' = [manifest |-> export, payload |-> Content(export.session)]
          /\ Answer("exported")
       \/ /\ Gone(export.session, "FileNotFoundError")
          /\ package' = [manifest |-> export, payload |-> NoContent]
    /\ export' = NoManifest
    /\ UNCHANGED <<exports, plan, manifest, staged, prefix, target, scanned, drifted, given>>

-----------------------------------------------------------------------------
(* plan_import and execute_import, each after inspect_package              *)
Intact == package.payload # NoContent /\ package.payload = package.manifest.hash

\* The package of a session that is where the import would put it is in conflict.
SafePlan ==
    /\ package.manifest.safe /\ MigrationSafe(package.manifest.status)
    /\ place[package.manifest.session] # "sessions"

PlanImport(dry) ==
    /\ pc = "idle" /\ package # NoPackage
    /\ plan' = (Intact /\ SafePlan)
    /\ result' = "none"
    /\ pc' = IF ~Intact THEN "importRefused" ELSE IF dry THEN "importDry" ELSE "importRead"
    /\ given' = FALSE
    /\ UNCHANGED <<export, exports, package, manifest, staged, prefix, target, scanned, drifted>>

\* execute_import with the plan of an earlier call.
ImportAsPlanned ==
    /\ pc = "idle" /\ plan
    /\ given' = TRUE
    /\ pc' = "importRead" /\ result' = "none"
    /\ UNCHANGED <<export, exports, package, plan, manifest, staged, prefix, target, scanned,
                   drifted>>

ImportRefused ==
    /\ \/ pc = "importRefused" /\ Answer("ValueError")
       \/ pc = "importDry" /\ Answer(IF plan THEN "DRY_RUN_PASSED" ELSE "BLOCKED")
       \/ pc = "importRead" /\ ~plan /\ Answer("BLOCKED")
    /\ UNCHANGED portVars

ImportRead ==
    /\ pc = "importRead" /\ plan
    /\ \/ Intact /\ manifest' = package.manifest /\ Goto("importCopy")
       \/ ~Intact /\ Answer("ValueError") /\ UNCHANGED manifest
    /\ UNCHANGED <<export, exports, package, plan, staged, prefix, target, scanned, drifted,
                   given>>

\* The copy may fail, and then its half of the file goes too, if it can be removed.
ImportCopy ==
    /\ pc = "importCopy"
    /\ \/ staged' = package.payload /\ Goto("importVerify")
       \/ staged' \in {NoContent, [lines |-> <<>>, torn |-> TRUE]} /\ Answer("ROLLED_BACK")
    /\ UNCHANGED <<export, exports, package, plan, manifest, prefix, target, scanned, drifted,
                   given>>

ImportVerify(stageOnly) ==
    /\ pc = "importVerify"
    /\ \/ /\ staged = manifest.hash
          /\ Answer(IF stageOnly THEN "STAGED" ELSE "IMPORT_BLOCKED")
          /\ UNCHANGED staged
       \/ staged # manifest.hash /\ staged' = NoContent /\ Answer("ROLLED_BACK")
    /\ UNCHANGED <<export, exports, package, plan, manifest, prefix, target, scanned, drifted,
                   given>>

-----------------------------------------------------------------------------
(* salvage_to_target                                                       *)
SalvageScan(s) ==
    /\ pc = "idle" /\ Here(s)
    /\ prefix' = [session |-> s, lines |-> CleanLines(Content(s))]
    /\ scanned' = Content(s)
    /\ pc' = "salvageCopy" /\ result' = "none"
    /\ UNCHANGED <<export, exports, package, plan, manifest, staged, target, drifted, given>>

SalvageCopy ==
    /\ pc = "salvageCopy"
    /\ \/ /\ Here(prefix.session)
          /\ target' = [lines |-> SubSeq(log[prefix.session], 1, prefix.lines), torn |-> FALSE]
          /\ Answer("salvaged")
       \/ Gone(prefix.session, "FileNotFoundError") /\ UNCHANGED target
    /\ UNCHANGED <<export, exports, package, plan, manifest, staged, prefix, scanned, drifted,
                   given>>

PortStep ==
    /\ \/ \E s \in Sessions : ExportScan(s) \/ SalvageScan(s)
       \/ ExportHash \/ ExportPack
       \/ \E dry \in BOOLEAN : PlanImport(dry)
       \/ ImportAsPlanned \/ ImportRefused \/ ImportRead \/ ImportCopy
       \/ \E stageOnly \in BOOLEAN : ImportVerify(stageOnly)
       \/ SalvageCopy
    /\ UNCHANGED home

\* The commands beside a Codex that takes any turn.
PortSpec ==
    /\ HomeInit /\ pc = "idle" /\ result = "none" /\ PortInit
    /\ [][PortStep \/ (HomeTurn /\ UNCHANGED portVars)]_<<home, pc, result, portVars>>

-----------------------------------------------------------------------------
\* A copy this makes of a rollout holds no line the rollout did not have, however it
\* grew meanwhile.  A payload that an import stages and reports is the one the export
\* hashed, and it holds no bad or cut line, with two exceptions the code leaves open:
\* Codex wrote to the rollout between the scan and the hash, so that the manifest
\* calls healthy what nobody scanned, or the import was given a plan made for another
\* package.  A salvaged file holds the lines up to the first bad one, and no other.
CopiesAreClean ==
    /\ result \in {"STAGED", "IMPORT_BLOCKED"} =>
          /\ staged = manifest.hash
          /\ Clean(staged) \/ staged \in drifted \/ given
    /\ result = "salvaged" =>
          /\ Clean(target) /\ IsPrefix(target.lines, scanned.lines)
          /\ Len(target.lines) < Len(scanned.lines) =>
                scanned.lines[Len(target.lines) + 1].kind = "bad"
=============================================================================
