--------------------------- MODULE ProjectionCheck ---------------------------
(***************************************************************************)
(* inspect_projection_parity of projection.py and alpha5.py: does the      *)
(* cursor a state database keeps for a session stand at the end of its     *)
(* rollout, or did the projector stop half way?  The rollout's size is     *)
(* taken first, then the rows of each database are read one after the      *)
(* other, then the rollout at the cursor, between two stats; the cursor is *)
(* never read again.  Codex appends and projects at any time.              *)
(***************************************************************************)
EXTENDS CodexHome

VARIABLES
    parity,     \* the session, canonical_size, before, the rows found so far and the
                \* stores still to read, the ordinals of the two records at the cursor
    sized, at   \* history: the rollout when it was sized, and when it was read

parityVars == <<parity, sized, at>>

\* A record that is not whole, or has no ordinal, reads as NoOrdinal.
NoOrdinal == -1
NoParity == [session |-> "none", size |-> 0, todo |-> <<>>, rows |-> {}, errors |-> FALSE,
             before |-> NoStat, first |-> NoOrdinal, second |-> NoOrdinal]

ParityTypeOK ==
    /\ parity \in [session : Sessions \cup {"none"}, size : Nat,
                   todo : Seq(Range(Stores)), rows : SUBSET Cursors, errors : BOOLEAN,
                   before : Stats, first : Nat \cup {NoOrdinal}, second : Nat \cup {NoOrdinal}]
    /\ sized \in [lines : Nat, torn : BOOLEAN] /\ at \in Seq(Records)

ParityInit == parity = NoParity /\ sized = [lines |-> 0, torn |-> FALSE] /\ at = <<>>

\* The one cursor all stores agree on.
Row == CHOOSE c \in parity.rows : TRUE

\* _read_boundary_record: the nth record from a byte offset on.
OrdinalAt(s, offset, n) ==
    LET i == offset \div 2 + n IN
    IF i <= Len(log[s]) /\ log[s][i].kind # "bad" THEN log[s][i].ordinal ELSE NoOrdinal

\* _last_record_ordinal: half a line at the end cannot be parsed.
LastOrdinal(s) ==
    IF torn[s] THEN NoOrdinal ELSE OrdinalAt(s, 2 * (Len(log[s]) - 1), 1)

-----------------------------------------------------------------------------
ParityStart(s) ==
    /\ pc = "idle" /\ place[s] # "nowhere"
    /\ parity' = [NoParity EXCEPT !.session = s, !.size = Size(s), !.todo = Stores]
    /\ sized' = [lines |-> Len(log[s]), torn |-> torn[s]] /\ at' = <<>>
    /\ pc' = "parityRows" /\ result' = "none"

\* _projection_rows: one connection per database; one that cannot be read counts
\* as an error and its rows are missing.
ParityRows ==
    /\ pc = "parityRows" /\ parity.todo # <<>>
    /\ LET c == cursor[parity.session][Head(parity.todo)] IN
       parity' = [parity EXCEPT !.todo = Tail(@),
                                !.rows = @ \cup (IF readable /\ c.present THEN {c} ELSE {}),
                                !.errors = @ \/ ~readable]
    /\ Goto("parityRows") /\ UNCHANGED <<sized, at>>

\* No row, rows that disagree, or a cursor beyond the rollout.
ParityUndecided ==
    Cardinality(parity.rows) # 1 \/ \A c \in parity.rows : c.offset > parity.size

ParityCompare ==
    /\ pc = "parityRows" /\ parity.todo = <<>>
    /\ \/ /\ ParityUndecided
          /\ Answer(IF parity.rows = {} /\ ~parity.errors THEN "not_applicable" ELSE "unknown")
       \/ /\ ~ParityUndecided /\ Row.offset = parity.size
          /\ Goto("exactStat")
       \/ /\ ~ParityUndecided /\ Row.offset < parity.size
          /\ Goto("suffixStat")
    /\ UNCHANGED parityVars

\* before, of either comparison.
ParityStat(here, next) ==
    /\ pc = here
    /\ parity' = [parity EXCEPT !.before = Stat(parity.session)]
    /\ Goto(next) /\ UNCHANGED <<sized, at>>

\* The record at the cursor, and the one behind it if the first was expected before.
SuffixRead ==
    /\ pc = "suffixRead"
    /\ LET s     == parity.session
           first == OrdinalAt(s, Row.offset, 1)
       IN  parity' = [parity EXCEPT
              !.first = first,
              !.second = IF first + 1 = Row.ordinal THEN OrdinalAt(s, Row.offset, 2)
                                                    ELSE NoOrdinal]
    /\ at' = log[parity.session]
    /\ IF parity'.first = NoOrdinal THEN Answer("unknown") ELSE Goto("suffixVerdict")
    /\ UNCHANGED sized

Changed      == Stat(parity.session) # parity.before

WedgedAtAny == parity.first # NoOrdinal       \* mutant: whatever record is at the cursor
\* A replayed boundary record, the expected one, or, of projection.py, one further.
Wedged ==
    \/ parity.first = Row.ordinal
    \/ parity.first + 1 = Row.ordinal /\ parity.second = Row.ordinal
    \/ parity.first = Row.ordinal + 1

SuffixVerdict ==
    /\ pc = "suffixVerdict"
    /\ Answer(IF Changed THEN "active_write" ELSE IF Wedged THEN "wedged" ELSE "unknown")
    /\ UNCHANGED parityVars

\* _validate_exact_eof_ordinal
ExactRead ==
    /\ pc = "exactRead"
    /\ parity' = [parity EXCEPT !.first = LastOrdinal(parity.session)]
    /\ at' = log[parity.session]
    /\ Goto("exactVerdict") /\ UNCHANGED sized

AtEndWhole == parity.first # NoOrdinal        \* mutant: any whole record at the end will do
AtEnd      == parity.first # NoOrdinal /\ parity.first + 1 = Row.ordinal
ExactVerdict ==
    /\ pc = "exactVerdict"
    /\ Answer(IF Changed THEN "active_write" ELSE IF AtEnd THEN "exact" ELSE "unknown")
    /\ UNCHANGED parityVars

ParityStep ==
    /\ \/ \E s \in Sessions : ParityStart(s)
       \/ ParityRows \/ ParityCompare
       \/ ParityStat("suffixStat", "suffixRead") \/ SuffixRead \/ SuffixVerdict
       \/ ParityStat("exactStat", "exactRead") \/ ExactRead \/ ExactVerdict
    /\ UNCHANGED home

\* The check beside a Codex that takes any turn.
ParitySpec ==
    /\ HomeInit /\ pc = "idle" /\ result = "none" /\ ParityInit
    /\ [][ParityStep \/ (HomeTurn /\ UNCHANGED parityVars)]_<<home, pc, result, parityVars>>

-----------------------------------------------------------------------------
Increasing(r) == \A i, j \in DOMAIN r : i < j => r[i].ordinal < r[j].ordinal

\* Exact means that the cursor stood at the end of the rollout that was read last,
\* not just of the one sized first, although it may have grown before either stat:
\* the ordinals of its lines give that away, unless Codex repeats one.  Wedged means
\* that the rollout already held the record at the cursor, or half of it, before the
\* cursor was read: the projector was behind, and not just the two reads apart.
\* Nothing tells a projector that hangs from one that catches up now.
ParityIsTrue ==
    /\ result = "exact" /\ Increasing(at) => Row.offset = 2 * Len(at)
    /\ result = "wedged" =>
          LET next == Row.offset \div 2 + 1 IN
          /\ next <= sized.lines \/ (sized.torn /\ next = sized.lines + 1)
          /\ Increasing(at) => at[next].ordinal \in {Row.ordinal, Row.ordinal + 1}
=============================================================================
