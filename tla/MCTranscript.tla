---------------------------- MODULE MCTranscript ----------------------------
(***************************************************************************)
(* Bounds, symmetry and view for the runs of Transcript.                   *)
(***************************************************************************)
EXTENDS Transcript, TLC

LongEnough == [m \in Modes |-> IF m = "legacy" THEN 7 ELSE 4]
Eviction == [m \in Modes |-> 8]
IdSymmetry == Permutations(Ids)

\* What of the records read the properties, now or after further records, tell
\* apart: for an id its records when there is at most one of each kind, and
\* whether its last one is a call; of the ordinals, which were seen, and how many
\* were seen again, at all and in a row.
AtMostTwo(n) == IF n > 2 THEN 2 ELSE n
RecordsOf(id) == {i \in 1..Len(read) : read[i].item \in [kind : {"call", "output"},
                                                        id : {id}, family : Families]}
OfId(id) ==
    LET c == At(id, "call")
        o == At(id, "output")
    IN  <<AtMostTwo(Cardinality(c)), AtMostTwo(Cardinality(o)),
          {<<read[i].item.kind, read[i].item.family>> : i \in RecordsOf(id)},
          IF c \cup o = {} THEN "none" ELSE read[Max(c \cup o)].item.kind>>
OfOrdinals ==
    LET bearers == {i \in 1..Len(read) : read[i].ordinal # NoOrdinal}
        before(i) == {j \in bearers : j < i}
        reuses == {i \in bearers : \E j \in before(i) : read[j].ordinal = read[i].ordinal}
    IN  <<{read[i].ordinal : i \in bearers}, Cardinality(reuses),
          Cardinality({i \in reuses : read[Max(before(i))].ordinal = read[i].ordinal})>>

Summary ==
    <<mode, calls, outputs, retired, overflow, reused, schemaIssue, ordinals, lastOrdinal,
      ordinalReuse, ordinalOverflow, corruption, Len(read),
      [id \in Ids |-> OfId(id)], OfOrdinals>>
=============================================================================
