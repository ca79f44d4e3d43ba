----------------------------- MODULE Transcript -----------------------------
(***************************************************************************)
(* parse_transcript of transcript.py: one pass over a rollout that         *)
(* correlates tool calls with their outputs and follows the ordinals of a  *)
(* paginated rollout, both in bounded memory.                              *)
(*                                                                         *)
(* A step reads one line.  The rollout may end after any line, so the      *)
(* report parse_transcript returns is an operator of the state.  Left out: *)
(* the retained events, the compaction counters, the flaws of single       *)
(* records (a damaged name, malformed arguments, a large payload), and the *)
(* cap on the entries a list of findings retains.                          *)
(***************************************************************************)
EXTENDS Naturals, Sequences, FiniteSets, Functions, FiniteSetsExt

CONSTANTS
    Ids,             \* call ids
    Families,        \* _CALL_FAMILIES, each with its output family
    Ordinals,        \* ordinals a record may bear
    MaxStates,       \* MAX_CORRELATION_STATES, of the two pools together
    MaxRetired,      \* MAX_CORRELATION_STATES again, of the retired ids
    MaxOccurrences,  \* MAX_OCCURRENCES_PER_ID
    MaxOrdinals,     \* MAX_ORDINAL_STATES
    Modes,           \* history modes of the rollouts considered
    MaxRecords,      \* bound: records of a rollout, for each mode
    NoOrdinal        \* the ordinal of a record that bears none

ASSUME TranscriptAssumption ==
    /\ {MaxStates, MaxOccurrences, MaxOrdinals} \subseteq Nat
    /\ MaxRetired \in Nat \ {0}
    /\ Modes \subseteq {"legacy", "paginated"}
    /\ MaxRecords \in [Modes -> Nat]
    /\ NoOrdinal \notin Ordinals

\* A call or an output; an operational record nobody can correlate; any other.
Items == [kind : {"call", "output"}, id : Ids, family : Families]
             \cup {[kind |-> "anonymous"], [kind |-> "other"]}

Classes == {"none", "MALFORMED_RECORD", "TRUNCATED_TRANSCRIPT", "OVERSIZED_PAYLOAD",
            "UNKNOWN_OPERATIONAL_SCHEMA"}

VARIABLES
    mode,             \* ordinal_mode
    calls,            \* calls: for an id, the families of its calls
    outputs,          \* outputs: for an id, the families its outputs answer
    retired,          \* retired_order; retired_ids is its range
    overflow,         \* correlation_overflow
    reused,           \* ids found in use again after a completed correlation
    schemaIssue,      \* operational_schema_issues is not empty
    ordinals,         \* the keys of ordinal_positions
    lastOrdinal,      \* last_ordinal
    ordinalReuse,     \* ordinal_reuse_count
    ordinalOverflow,  \* ordinal_tracking_overflow
    corruption,       \* corruption_class, set by the line the parser stops at
    read              \* the records read: what the report is about

correlation == <<calls, outputs, retired, overflow, reused>>
pagination  == <<ordinals, lastOrdinal, ordinalReuse, ordinalOverflow>>
vars == <<mode, correlation, pagination, schemaIssue, corruption, read>>

Pool(pool) == Cardinality(DOMAIN pool)
OfIds(pool) == DOMAIN pool \subseteq Ids /\ \A id \in DOMAIN pool : pool[id] \in Seq(Families)

TypeOK ==
    /\ mode \in Modes
    /\ OfIds(calls) /\ OfIds(outputs)
    /\ retired \in Seq(Ids)
    /\ reused \subseteq Ids
    /\ {overflow, schemaIssue, ordinalOverflow} \subseteq BOOLEAN
    /\ ordinals \subseteq Ordinals /\ lastOrdinal \in Ordinals \cup {NoOrdinal}
    /\ ordinalReuse \in Nat
    /\ corruption \in Classes \ {"UNKNOWN_OPERATIONAL_SCHEMA"}
    /\ read \in Seq([item : Items, ordinal : Ordinals \cup {NoOrdinal}])

Init ==
    /\ mode \in Modes
    /\ calls = <<>> /\ outputs = <<>> /\ retired = <<>>
    /\ overflow = FALSE /\ reused = {} /\ schemaIssue = FALSE
    /\ ordinals = {} /\ lastOrdinal = NoOrdinal
    /\ ordinalReuse = 0 /\ ordinalOverflow = FALSE
    /\ corruption = "none" /\ read = <<>>

-----------------------------------------------------------------------------
(* The ordinal of a record of a paginated rollout.                         *)

KnownOrdinalStored(o) == o \in ordinals        \* mutant: the previous one is not kept
KnownOrdinal(o) == o \in ordinals \/ o = lastOrdinal

FollowOrdinalUnchecked(o) ==                    \* mutant: None is an ordinal
    /\ lastOrdinal' = o /\ ordinals' = ordinals \cup {o}
    /\ UNCHANGED <<ordinalReuse, ordinalOverflow>>
FollowOrdinal(o) ==
    IF mode # "paginated" \/ o = NoOrdinal THEN UNCHANGED pagination ELSE
    /\ lastOrdinal' = o
    /\ ordinalReuse' = ordinalReuse + IF KnownOrdinal(o) THEN 1 ELSE 0
    /\ LET room == Cardinality(ordinals) < MaxOrdinals IN
       /\ ordinals' = IF ~KnownOrdinal(o) /\ room THEN ordinals \cup {o} ELSE ordinals
       /\ ordinalOverflow' = (ordinalOverflow \/ (~KnownOrdinal(o) /\ ~room))

-----------------------------------------------------------------------------
(* The correlation of a call or an output.                                 *)

FullApart == Pool(calls) >= MaxStates           \* mutant: the outputs are not counted
Full == Pool(calls) + Pool(outputs) >= MaxStates

Entry(pool, id) == IF id \in DOMAIN pool THEN pool[id] ELSE <<>>
Put(pool, id, entry) == [i \in DOMAIN pool \cup {id} |-> IF i = id THEN entry ELSE pool[i]]
Without(pool, id) == Restrict(pool, DOMAIN pool \ {id})

\* A call makes an entry only for an id that has none on either side; an output,
\* for an id that has none on its own.
WantsEntry(item) ==
    /\ item.id \notin DOMAIN outputs
    /\ item.kind = "call" => item.id \notin DOMAIN calls
HasEntry(item) ==
    \/ WantsEntry(item) /\ ~Full
    \/ item.id \in DOMAIN (IF item.kind = "call" THEN calls ELSE outputs)

Occurrences(item) == Entry(IF item.kind = "call" THEN calls ELSE outputs, item.id)
Recorded(item) == HasEntry(item) /\ Len(Occurrences(item)) < MaxOccurrences

\* An entry that finds no room, or an occurrence too many.
LosesUntold(item) ==                            \* mutant: a full pool is not told
    HasEntry(item) /\ Len(Occurrences(item)) >= MaxOccurrences
Loses(item) ==
    \/ WantsEntry(item) /\ Full
    \/ HasEntry(item) /\ Len(Occurrences(item)) >= MaxOccurrences

PairsNever(callFamilies, outputFamilies) == FALSE  \* mutant: output types are not mapped
PairsLoosely(callFamilies, outputFamilies) ==   \* mutant: counts are not compared
    callFamilies # <<>> /\ Range(callFamilies) = Range(outputFamilies)
Pairs(callFamilies, outputFamilies) ==
    Len(callFamilies) = 1 /\ outputFamilies = callFamilies

Retire(id) ==
    IF id \in Range(retired) THEN retired
    ELSE Append(IF Len(retired) = MaxRetired THEN Tail(retired) ELSE retired, id)

Correlate(item) ==
    LET id   == item.id
        new  == Append(Occurrences(item), item.family)
        cs   == IF Recorded(item) /\ item.kind = "call" THEN Put(calls, id, new) ELSE calls
        os   == IF Recorded(item) /\ item.kind = "output" THEN Put(outputs, id, new) ELSE outputs
        done == Pairs(Entry(cs, id), Entry(os, id))
        again == item.kind = "call" /\ id \in Range(retired)
    IN  /\ calls'   = IF done THEN Without(cs, id) ELSE cs
        /\ outputs' = IF done THEN Without(os, id) ELSE os
        /\ retired' = IF done THEN Retire(id) ELSE retired
        /\ overflow' = (overflow \/ Loses(item) \/ again)
        /\ reused'  = IF again THEN reused \cup {id} ELSE reused

-----------------------------------------------------------------------------
(* One line.                                                               *)

Record(item, o) ==
    /\ corruption = "none"
    /\ Len(read) < MaxRecords[mode]
    /\ mode = "legacy" => o = NoOrdinal
    /\ read' = Append(read, [item |-> item, ordinal |-> o])
    /\ FollowOrdinal(o)
    /\ schemaIssue' = (schemaIssue \/ item.kind = "anonymous"
                                   \/ (mode = "paginated" /\ o = NoOrdinal))
    /\ IF item.kind \in {"call", "output"} THEN Correlate(item) ELSE UNCHANGED correlation
    /\ UNCHANGED <<mode, corruption>>

\* A line that is too long, holds a NUL or is no JSON object is the last one.
Unreadable(long, nul, complete) ==
    /\ corruption = "none"
    /\ corruption' = CASE nul -> "MALFORMED_RECORD"
                       [] ~nul /\ ~complete -> "TRUNCATED_TRANSCRIPT"
                       [] ~nul /\ complete /\ long -> "OVERSIZED_PAYLOAD"
                       [] OTHER -> "MALFORMED_RECORD"
    /\ UNCHANGED <<mode, correlation, pagination, schemaIssue, read>>

Next ==
    \/ \E item \in Items, o \in Ordinals \cup {NoOrdinal} : Record(item, o)
    \/ \E long, nul, complete \in BOOLEAN : Unreadable(long, nul, complete)

Spec == Init /\ [][Next]_vars

-----------------------------------------------------------------------------
(* The report, were the rollout to end here.                               *)

\* Calls without output are unfinished, as are those of an ambiguous id.
Unfinished ==
    {id \in DOMAIN calls : id \notin DOMAIN outputs \/ ~Pairs(calls[id], outputs[id])}
unfinished_tool_call_count == MapThenSumSet(LAMBDA id : Len(calls[id]), Unfinished)

Ambiguities ==
    reused \cup (Unfinished \cap DOMAIN outputs) \cup (DOMAIN outputs \ DOMAIN calls)

corruption_class ==
    IF corruption # "none" THEN corruption
    ELSE IF Ambiguities # {} \/ overflow \/ schemaIssue THEN "UNKNOWN_OPERATIONAL_SCHEMA"
    ELSE "none"

-----------------------------------------------------------------------------
(* Properties.                                                             *)

\* The positions of the records of an id, of one kind.
At(id, kind) == {i \in 1..Len(read) :
                    /\ read[i].item.kind = kind /\ read[i].item.id = id}
OneToOne(id) ==
    \E c, o \in 1..Len(read) :
        /\ At(id, "call") = {c} /\ At(id, "output") = {o}
        /\ read[c].item.family = read[o].item.family
Mentioned == {id \in Ids : At(id, "call") \cup At(id, "output") # {}}
Forgets == Len(retired) = MaxRetired

\* "Exactly one call and exactly one same-family output is the only correlation
\* we accept as completed" (line 653): nothing else is silent, in a rollout short
\* of the retired ids' memory.
SilentMeansOneToOne ==
    ~overflow /\ ~Forgets =>
        \A id \in Mentioned \ (Unfinished \cup Ambiguities) : OneToOne(id)

\* The same of every rollout.
OnlyPairsAreAccepted ==
    ~overflow => \A id \in Mentioned \ (Unfinished \cup Ambiguities) : OneToOne(id)

\* Nothing has answered the id's last call.
Pending(id) == \E c \in At(id, "call") : \A o \in At(id, "output") : o < c

\* A call nothing has answered since is never taken for done, however many ids
\* came and went: it is reported, or the report says that it lost count.
InterruptedIsReported ==
    \A id \in Ids : Pending(id) => overflow \/ id \in Unfinished \cup Ambiguities

\* No false alarm: a rollout of calls that are each answered once, later and in
\* kind has no finding, if it stayed within the memory.
HealthyIsClean ==
    /\ ~overflow /\ ~schemaIssue /\ corruption = "none"
    /\ \A id \in Mentioned : OneToOne(id) /\
           \A c \in At(id, "call"), o \in At(id, "output") : c < o
    => corruption_class = "none" /\ unfinished_tool_call_count = 0

\* Line 151 of transcript.py: past its cap the parser still sees an ordinal used
\* twice in a row, and otherwise says that it cannot know; below, it counts all.
OrdinalReuseIsKnown ==
    LET bearers == {i \in 1..Len(read) : mode = "paginated" /\ read[i].ordinal # NoOrdinal}
        before(i) == {j \in bearers : j < i}
        reuses == {i \in bearers : \E j \in before(i) : read[j].ordinal = read[i].ordinal}
        inARow == {i \in reuses : read[Max(before(i))].ordinal = read[i].ordinal}
    IN  IF ordinalOverflow
        THEN ordinalReuse \in Cardinality(inARow)..Cardinality(reuses)
        ELSE ordinalReuse = Cardinality(reuses)

\* The correlation never holds more entries than its bound, whatever the rollout,
\* nor remembers more retired ids.
MemoryBounded ==
    /\ Pool(calls) + Pool(outputs) <= MaxStates
    /\ Len(retired) <= MaxRetired /\ IsInjective(retired)
=============================================================================
