-------------------------- MODULE TranscriptProofs --------------------------
(***************************************************************************)
(* What holds of parse_transcript for every rollout, any number of call    *)
(* ids and families, and any memory bounds.                                *)
(***************************************************************************)
EXTENDS Transcript, FiniteSetTheorems, TLAPS

Records == [item : Items, ordinal : Ordinals \cup {NoOrdinal}]

\* An entry of the calls is never empty, and no pair waits to be retired: so a
\* report mentions every id that is in a pool.
Entries ==
    /\ OfIds(calls) /\ OfIds(outputs)
    /\ \A id \in DOMAIN calls : calls[id] # <<>>
    /\ \A id \in DOMAIN calls \cap DOMAIN outputs : ~Pairs(calls[id], outputs[id])

\* And an id nobody has answered is in a pool, unless a finding says otherwise.
PendingIsHeld ==
    \A id \in Ids : Pending(id) =>
        overflow \/ id \in DOMAIN calls \cup DOMAIN outputs \cup reused

IInv == TypeOK /\ Entries /\ PendingIsHeld

-----------------------------------------------------------------------------

\* An entry of a pool of ids is a sequence of families.
LEMMA EntryType ==
    ASSUME NEW pool, NEW id \in Ids, OfIds(pool)
    PROVE  Entry(pool, id) \in Seq(Families)
BY DEF Entry, OfIds

\* Retiring an id keeps a sequence of ids.
LEMMA RetireType ==
    ASSUME retired \in Seq(Ids), NEW id \in Ids
    PROVE  Retire(id) \in Seq(Ids)
<1>1. CASE retired = <<>>
  <2>1. MaxRetired # 0
    BY TranscriptAssumption DEF TranscriptAssumption
  <2>2. Len(retired) # MaxRetired
    BY <1>1, <2>1
  <2>. QED
    BY <2>2 DEF Retire
<1>2. CASE retired # <<>>
  <2>1. Tail(retired) \in Seq(Ids)
    BY <1>2
  <2>. QED
    BY <2>1 DEF Retire
<1>. QED
  BY <1>1, <1>2

-----------------------------------------------------------------------------

LEMMA InitIInv == Init => IInv
<1>. SUFFICES ASSUME Init PROVE IInv
  OBVIOUS
<1>1. DOMAIN calls = {} /\ DOMAIN outputs = {} /\ retired \in Seq(Ids) /\ Len(read) = 0
  BY DEF Init
<1>2. TypeOK
  <2>1. read \in Seq(Records)
    BY DEF Init
  <2>2. OfIds(calls) /\ OfIds(outputs)
    BY <1>1 DEF OfIds
  <2>. QED
    BY <1>1, <2>1, <2>2 DEF Init, TypeOK, Classes, Records
<1>3. Entries
  BY <1>1 DEF Entries, OfIds
<1>4. PendingIsHeld
  BY <1>1 DEF PendingIsHeld, Pending, At
<1>. QED
  BY <1>2, <1>3, <1>4 DEF IInv

\* What one more record changes of the records read.
LEMMA AtStep ==
    ASSUME TypeOK, NEW item \in Items, NEW o \in Ordinals \cup {NoOrdinal},
           read' = Append(read, [item |-> item, ordinal |-> o])
    PROVE  /\ Len(read) \in Nat /\ Len(read') = Len(read) + 1
           /\ \A i \in 1..Len(read) : read'[i] = read[i]
           /\ read'[Len(read) + 1].item = item /\ read'[Len(read) + 1].ordinal = o
           /\ \A id \in Ids :
                  /\ At(id, "call") \subseteq 1..Len(read)
                  /\ At(id, "output") \subseteq 1..Len(read)
                  /\ At(id, "call")' = IF item.kind = "call" /\ item.id = id
                         THEN At(id, "call") \cup {Len(read) + 1} ELSE At(id, "call")
                  /\ At(id, "output")' = IF item.kind = "output" /\ item.id = id
                         THEN At(id, "output") \cup {Len(read) + 1} ELSE At(id, "output")
<1>. DEFINE n == Len(read)
            r == [item |-> item, ordinal |-> o]
<1>1. read \in Seq(Records)
  BY DEF TypeOK, Records
<1>2. r \in Records
  BY DEF Records
<1>3. /\ n \in Nat /\ Len(read') = n + 1
      /\ \A i \in 1..n : read'[i] = read[i]
      /\ read'[n + 1] = r
  BY <1>1, <1>2
<1>4. ASSUME NEW id \in Ids, NEW kind \in {"call", "output"}
      PROVE  /\ At(id, kind) \subseteq 1..n
             /\ At(id, kind)' = IF item.kind = kind /\ item.id = id
                                   THEN At(id, kind) \cup {n + 1} ELSE At(id, kind)
  <2>1. read'[n + 1].item = item
    BY <1>3
  <2>. HIDE DEF r
  <2>. QED
    BY <1>3, <2>1 DEF At
<1>. QED
  BY <1>3, <1>4

\* What reading one record does to which ids wait for an answer: an output
\* leaves none to its id, and a record that is no call of an id makes it wait
\* no more than before.
LEMMA PendingStep ==
    ASSUME TypeOK, NEW item \in Items, NEW o \in Ordinals \cup {NoOrdinal},
           read' = Append(read, [item |-> item, ordinal |-> o]),
           NEW id \in Ids, Pending(id)'
    PROVE  \/ item.kind = "call" /\ item.id = id
           \/ Pending(id) /\ ~(item.kind = "output" /\ item.id = id)
<1>. DEFINE n == Len(read)
<1>1. /\ n \in Nat /\ At(id, "call") \subseteq 1..n /\ At(id, "output") \subseteq 1..n
      /\ At(id, "call")' = IF item.kind = "call" /\ item.id = id
                           THEN At(id, "call") \cup {n + 1} ELSE At(id, "call")
      /\ At(id, "output")' = IF item.kind = "output" /\ item.id = id
                             THEN At(id, "output") \cup {n + 1} ELSE At(id, "output")
  BY AtStep
<1>2. PICK c \in At(id, "call")' : \A q \in At(id, "output")' : q < c
  BY DEF Pending
<1>. SUFFICES ASSUME ~(item.kind = "call" /\ item.id = id)
     PROVE  Pending(id) /\ ~(item.kind = "output" /\ item.id = id)
  OBVIOUS
<1>3. c \in At(id, "call") /\ c \in 1..n
  BY <1>1, <1>2
<1>4. ~(item.kind = "output" /\ item.id = id)
  <2>. SUFFICES ASSUME item.kind = "output", item.id = id PROVE FALSE
    OBVIOUS
  <2>1. n + 1 \in At(id, "output")'
    BY <1>1
  <2>. QED
    BY <1>1, <1>2, <1>3, <2>1
<1>5. Pending(id)
  BY <1>1, <1>2, <1>3, <1>4 DEF Pending
<1>. QED
  BY <1>4, <1>5

\* Following an ordinal keeps the types of what is remembered of them.
LEMMA FollowOrdinalType ==
    ASSUME TypeOK, NEW o \in Ordinals \cup {NoOrdinal}, FollowOrdinal(o)
    PROVE  /\ ordinals' \subseteq Ordinals /\ lastOrdinal' \in Ordinals \cup {NoOrdinal}
           /\ ordinalReuse' \in Nat /\ ordinalOverflow' \in BOOLEAN
<1>1. CASE mode # "paginated" \/ o = NoOrdinal
  BY <1>1 DEF FollowOrdinal, pagination, TypeOK
<1>2. CASE ~(mode # "paginated" \/ o = NoOrdinal)
  <2>1. o \in Ordinals
    BY <1>2
  <2>2. ordinalOverflow' \in BOOLEAN
    BY <1>2 DEF FollowOrdinal
  <2>3. ordinalReuse \in Nat /\ ordinals \subseteq Ordinals
    BY DEF TypeOK
  <2>4. ordinalReuse' = ordinalReuse + IF KnownOrdinal(o) THEN 1 ELSE 0
    BY <1>2 DEF FollowOrdinal
  <2>5. lastOrdinal' = o /\ ordinals' \in {ordinals, ordinals \cup {o}}
    BY <1>2 DEF FollowOrdinal
  <2>. QED
    BY <2>1, <2>2, <2>3, <2>4, <2>5
<1>. QED
  BY <1>1, <1>2

-----------------------------------------------------------------------------
(* The correlation of one call or output.                                  *)

\* The pools before the pair is retired.
Calls(item) == IF Recorded(item) /\ item.kind = "call"
               THEN Put(calls, item.id, Append(Occurrences(item), item.family)) ELSE calls
Outputs(item) == IF Recorded(item) /\ item.kind = "output"
                 THEN Put(outputs, item.id, Append(Occurrences(item), item.family)) ELSE outputs
Done(item) == Pairs(Entry(Calls(item), item.id), Entry(Outputs(item), item.id))

Tools == [kind : {"call", "output"}, id : Ids, family : Families]

LEMMA PoolsType ==
    ASSUME TypeOK, NEW item \in Tools
    PROVE  /\ OfIds(Calls(item)) /\ OfIds(Outputs(item))
           /\ DOMAIN Calls(item) \in {DOMAIN calls, DOMAIN calls \cup {item.id}}
           /\ DOMAIN Outputs(item) \in {DOMAIN outputs, DOMAIN outputs \cup {item.id}}
           /\ \A i \in DOMAIN calls \ {item.id} : Calls(item)[i] = calls[i]
           /\ \A i \in DOMAIN outputs \ {item.id} : Outputs(item)[i] = outputs[i]
<1>. DEFINE entry == Append(Occurrences(item), item.family)
<1>1. item.id \in Ids /\ item.family \in Families /\ OfIds(calls) /\ OfIds(outputs)
  BY DEF Tools, TypeOK
<1>2. Occurrences(item) \in Seq(Families)
  BY <1>1, EntryType DEF Occurrences
<1>3. entry \in Seq(Families)
  BY <1>1, <1>2
<1>. HIDE DEF entry
<1>4. /\ OfIds(Calls(item))
      /\ DOMAIN Calls(item) \in {DOMAIN calls, DOMAIN calls \cup {item.id}}
      /\ \A i \in DOMAIN calls \ {item.id} : Calls(item)[i] = calls[i]
  <2>1. CASE Recorded(item) /\ item.kind = "call"
    <3>1. Calls(item) = Put(calls, item.id, entry)
      BY <2>1 DEF Calls, entry
    <3>2. /\ OfIds(Put(calls, item.id, entry))
          /\ DOMAIN Put(calls, item.id, entry) = DOMAIN calls \cup {item.id}
          /\ \A i \in DOMAIN calls \ {item.id} : Put(calls, item.id, entry)[i] = calls[i]
      BY <1>1, <1>3 DEF Put, OfIds
    <3>. QED
      BY <3>1, <3>2
  <2>2. CASE ~(Recorded(item) /\ item.kind = "call")
    BY <2>2, <1>1 DEF Calls
  <2>. QED
    BY <2>1, <2>2
<1>5. /\ OfIds(Outputs(item))
      /\ DOMAIN Outputs(item) \in {DOMAIN outputs, DOMAIN outputs \cup {item.id}}
      /\ \A i \in DOMAIN outputs \ {item.id} : Outputs(item)[i] = outputs[i]
  <2>1. CASE Recorded(item) /\ item.kind = "output"
    <3>1. Outputs(item) = Put(outputs, item.id, entry)
      BY <2>1 DEF Outputs, entry
    <3>2. /\ OfIds(Put(outputs, item.id, entry))
          /\ DOMAIN Put(outputs, item.id, entry) = DOMAIN outputs \cup {item.id}
          /\ \A i \in DOMAIN outputs \ {item.id} : Put(outputs, item.id, entry)[i] = outputs[i]
      BY <1>1, <1>3 DEF Put, OfIds
    <3>. QED
      BY <3>1, <3>2
  <2>2. CASE ~(Recorded(item) /\ item.kind = "output")
    BY <2>2, <1>1 DEF Outputs
  <2>. QED
    BY <2>1, <2>2
<1>. QED
  BY <1>4, <1>5

LEMMA CorrelateStep ==
    ASSUME TypeOK, NEW item \in Tools, Correlate(item)
    PROVE  /\ calls' = IF Done(item) THEN Without(Calls(item), item.id) ELSE Calls(item)
           /\ outputs' = IF Done(item) THEN Without(Outputs(item), item.id) ELSE Outputs(item)
           /\ retired' = IF Done(item) THEN Retire(item.id) ELSE retired
           /\ overflow' = (overflow \/ Loses(item)
                               \/ (item.kind = "call" /\ item.id \in Range(retired)))
           /\ reused' \in {reused, reused \cup {item.id}}
BY DEF Correlate, Calls, Outputs, Done

\* A call completes nothing: if its id has outputs already, it is not recorded.
LEMMA CallIsNotDone ==
    ASSUME TypeOK, Entries, NEW item \in Tools, item.kind = "call"
    PROVE  ~Done(item)
<1>. SUFFICES ASSUME Done(item) PROVE FALSE
  OBVIOUS
<1>1. item.id \in Ids /\ OfIds(calls) /\ OfIds(outputs) /\ item.family \in Families
  BY DEF Tools, TypeOK
<1>2. Outputs(item) = outputs
  BY DEF Outputs
<1>3. /\ Len(Entry(Calls(item), item.id)) = 1
      /\ Entry(outputs, item.id) = Entry(Calls(item), item.id)
  BY <1>2 DEF Done, Pairs
<1>4. item.id \in DOMAIN outputs
  <2>1. Len(Entry(outputs, item.id)) = 1
    BY <1>3
  <2>. QED
    BY <2>1 DEF Entry
<1>5. CASE Recorded(item)
  <2>1. item.id \in DOMAIN calls /\ Occurrences(item) = calls[item.id]
    BY <1>4, <1>5 DEF Recorded, HasEntry, WantsEntry, Occurrences, Entry
  <2>2. calls[item.id] \in Seq(Families) /\ calls[item.id] # <<>>
    BY <2>1, <1>1 DEF Entries, OfIds
  <2>3. Append(calls[item.id], item.family) \in Seq(Families)
    BY <2>2, <1>1
  <2>4. Entry(Calls(item), item.id) = Append(calls[item.id], item.family)
    <3>. DEFINE entry == Append(calls[item.id], item.family)
    <3>1. Calls(item) = Put(calls, item.id, entry)
      BY <1>5, <2>1 DEF Calls
    <3>. HIDE DEF entry
    <3>2. item.id \in DOMAIN Put(calls, item.id, entry)
      BY DEF Put
    <3>3. Put(calls, item.id, entry)[item.id] = entry
      BY DEF Put
    <3>4. Entry(Put(calls, item.id, entry), item.id) = entry
      BY <3>2, <3>3 DEF Entry
    <3>. QED
      BY <3>1, <3>4 DEF entry
  <2>. QED
    BY <2>2, <2>4, <1>3, <1>1
<1>6. CASE ~Recorded(item)
  <2>1. Calls(item) = calls
    BY <1>6 DEF Calls
  <2>2. item.id \in DOMAIN calls
    BY <2>1, <1>3 DEF Entry
  <2>. QED
    BY <2>1, <2>2, <1>2, <1>4 DEF Done, Entry, Entries
<1>. QED
  BY <1>5, <1>6

\* Outside the record's id the pools keep their entries; of a completed pair
\* nothing stays.
LEMMA PoolsStep ==
    ASSUME TypeOK, NEW item \in Tools, Correlate(item)
    PROVE  /\ OfIds(calls') /\ OfIds(outputs')
           /\ item.id \in DOMAIN calls' \/ item.id \in DOMAIN outputs' => ~Done(item)
           /\ ~Done(item) => calls' = Calls(item) /\ outputs' = Outputs(item)
           /\ DOMAIN calls' \ {item.id} = DOMAIN calls \ {item.id}
           /\ DOMAIN outputs' \ {item.id} = DOMAIN outputs \ {item.id}
           /\ \A i \in DOMAIN calls' \ {item.id} : calls'[i] = calls[i]
           /\ \A i \in DOMAIN outputs' \ {item.id} : outputs'[i] = outputs[i]
<1>1. item.id \in Ids
  BY DEF Tools
<1>2. CASE Done(item)
  <2>1. calls' = Without(Calls(item), item.id) /\ outputs' = Without(Outputs(item), item.id)
    BY <1>2, CorrelateStep
  <2>2. /\ OfIds(Without(Calls(item), item.id))
        /\ DOMAIN Without(Calls(item), item.id) = DOMAIN Calls(item) \ {item.id}
        /\ \A i \in DOMAIN Calls(item) \ {item.id} :
               Without(Calls(item), item.id)[i] = Calls(item)[i]
    BY <1>1, PoolsType DEF Without, Restrict, OfIds
  <2>3. /\ OfIds(Without(Outputs(item), item.id))
        /\ DOMAIN Without(Outputs(item), item.id) = DOMAIN Outputs(item) \ {item.id}
        /\ \A i \in DOMAIN Outputs(item) \ {item.id} :
               Without(Outputs(item), item.id)[i] = Outputs(item)[i]
    BY <1>1, PoolsType DEF Without, Restrict, OfIds
  <2>. QED
    BY <1>2, <2>1, <2>2, <2>3, PoolsType
<1>3. CASE ~Done(item)
  BY <1>3, CorrelateStep, PoolsType
<1>. QED
  BY <1>2, <1>3

LEMMA EntriesStep ==
    ASSUME TypeOK, Entries, NEW item \in Tools, Correlate(item)
    PROVE  Entries' /\ retired' \in Seq(Ids) /\ reused' \subseteq Ids
<1>. DEFINE x == item.id
<1>1. x \in Ids /\ retired \in Seq(Ids) /\ reused \subseteq Ids
  BY DEF Tools, TypeOK
<1>2. retired' \in Seq(Ids) /\ reused' \subseteq Ids
  BY <1>1, CorrelateStep, RetireType
<1>3. OfIds(calls)' /\ OfIds(outputs)'
  BY PoolsStep
<1>4. /\ x \in DOMAIN calls' \/ x \in DOMAIN outputs' => ~Done(item)
      /\ ~Done(item) => calls' = Calls(item) /\ outputs' = Outputs(item)
  BY PoolsStep
<1>5. /\ \A i \in DOMAIN calls' \ {x} : i \in DOMAIN calls /\ calls'[i] = calls[i]
      /\ \A i \in DOMAIN outputs' \ {x} : i \in DOMAIN outputs /\ outputs'[i] = outputs[i]
  BY PoolsStep
<1>6. x \in DOMAIN calls' => calls'[x] # <<>>
  <2>. SUFFICES ASSUME x \in DOMAIN calls' PROVE calls'[x] # <<>>
    OBVIOUS
  <2>1. calls' = Calls(item)
    BY <1>4
  <2>2. CASE Recorded(item) /\ item.kind = "call"
    <3>1. Occurrences(item) \in Seq(Families) /\ item.family \in Families
      BY <1>1, EntryType DEF Occurrences, TypeOK, Tools
    <3>2. Append(Occurrences(item), item.family) # <<>>
      BY <3>1
    <3>3. calls'[x] = Append(Occurrences(item), item.family)
      BY <2>1, <2>2 DEF Calls, Put
    <3>. QED
      BY <3>2, <3>3
  <2>3. CASE ~(Recorded(item) /\ item.kind = "call")
    BY <2>1, <2>3 DEF Calls, Entries
  <2>. QED
    BY <2>2, <2>3
<1>7. x \in DOMAIN calls' \cap DOMAIN outputs' => ~Pairs(calls'[x], outputs'[x])
  BY <1>4 DEF Done, Entry
<1>8. \A id \in DOMAIN calls' : calls'[id] # <<>>
  BY <1>5, <1>6 DEF Entries
<1>9. \A id \in DOMAIN calls' \cap DOMAIN outputs' : ~Pairs(calls'[id], outputs'[id])
  BY <1>5, <1>7 DEF Entries
<1>. QED
  BY <1>2, <1>3, <1>8, <1>9 DEF Entries, Pairs

\* A call is held, or its loss is told; what was held of another id stays.
LEMMA HeldStep ==
    ASSUME TypeOK, Entries, NEW item \in Tools, Correlate(item)
    PROVE  /\ item.kind = "call" =>
                  overflow' \/ item.id \in DOMAIN calls' \cup DOMAIN outputs'
           /\ overflow => overflow'
           /\ reused \subseteq reused'
           /\ (DOMAIN calls \cup DOMAIN outputs) \ {item.id}
                  \subseteq DOMAIN calls' \cup DOMAIN outputs'
<1>1. item.id \in Ids /\ OfIds(calls) /\ OfIds(outputs)
  BY DEF Tools, TypeOK
<1>2. overflow => overflow'
  BY CorrelateStep
<1>3. reused \subseteq reused'
  BY CorrelateStep
<1>4. (DOMAIN calls \cup DOMAIN outputs) \ {item.id} \subseteq DOMAIN calls' \cup DOMAIN outputs'
  BY PoolsStep
<1>5. ASSUME item.kind = "call", ~overflow'
      PROVE  item.id \in DOMAIN calls' \cup DOMAIN outputs'
  <2>1. calls' = Calls(item) /\ outputs' = Outputs(item)
    BY <1>5, CallIsNotDone, CorrelateStep
  <2>2. ~Loses(item)
    BY <1>5, CorrelateStep
  <2>3. CASE WantsEntry(item)
    <3>1. HasEntry(item)
      BY <2>2, <2>3 DEF Loses, HasEntry
    <3>2. Occurrences(item) \in Seq(Families) /\ MaxOccurrences \in Nat
      BY <1>1, EntryType, TranscriptAssumption DEF Occurrences, TranscriptAssumption
    <3>3. Recorded(item)
      BY <2>2, <3>1, <3>2 DEF Loses, Recorded
    <3>. QED
      BY <1>5, <2>1, <3>3 DEF Calls, Put
  <2>4. CASE ~WantsEntry(item)
    <3>1. item.id \in DOMAIN calls \cup DOMAIN outputs
      BY <1>5, <2>4 DEF WantsEntry
    <3>. QED
      BY <2>1, <3>1, PoolsType
  <2>. QED
    BY <2>3, <2>4
<1>. QED
  BY <1>2, <1>3, <1>4, <1>5

-----------------------------------------------------------------------------

LEMMA RecordIInv ==
    ASSUME IInv, NEW item \in Items, NEW o \in Ordinals \cup {NoOrdinal}, Record(item, o)
    PROVE  IInv'
<1>1. TypeOK /\ Entries /\ PendingIsHeld
  BY DEF IInv
<1>2. read' = Append(read, [item |-> item, ordinal |-> o])
  BY DEF Record
<1>3. /\ ordinals' \subseteq Ordinals /\ lastOrdinal' \in Ordinals \cup {NoOrdinal}
      /\ ordinalReuse' \in Nat /\ ordinalOverflow' \in BOOLEAN
  BY <1>1, FollowOrdinalType DEF Record
<1>4. /\ mode' \in Modes /\ corruption' \in Classes \ {"UNKNOWN_OPERATIONAL_SCHEMA"}
      /\ schemaIssue' \in BOOLEAN
  BY <1>1 DEF Record, TypeOK
<1>5. read' \in Seq([item : Items, ordinal : Ordinals \cup {NoOrdinal}])
  BY <1>1, <1>2 DEF TypeOK
<1>6. \A id \in Ids : Pending(id)' =>
         \/ item.kind = "call" /\ item.id = id
         \/ Pending(id) /\ ~(item.kind = "output" /\ item.id = id)
  BY <1>1, <1>2, PendingStep
<1>7. CASE item.kind \in {"call", "output"}
  <2>1. item \in Tools
    BY <1>7 DEF Items, Tools
  <2>2. Correlate(item)
    BY <1>7 DEF Record
  <2>3. Entries' /\ retired' \in Seq(Ids) /\ reused' \subseteq Ids
    BY <1>1, <2>1, <2>2, EntriesStep
  <2>4. overflow' \in BOOLEAN
    BY <2>2 DEF Correlate
  <2>5. TypeOK'
    BY <1>3, <1>4, <1>5, <2>3, <2>4 DEF TypeOK, Entries
  <2>6. PendingIsHeld'
    BY <1>1, <1>6, <1>7, <2>1, <2>2, HeldStep DEF PendingIsHeld
  <2>. QED
    BY <2>3, <2>5, <2>6 DEF IInv
<1>8. CASE item.kind \notin {"call", "output"}
  <2>1. UNCHANGED correlation
    BY <1>8 DEF Record
  <2>2. Entries'
    BY <1>1, <2>1 DEF Entries, correlation, OfIds, Pairs
  <2>3. TypeOK'
    BY <1>1, <1>3, <1>4, <1>5, <2>1 DEF TypeOK, correlation, OfIds
  <2>4. PendingIsHeld'
    BY <1>1, <1>6, <1>8, <2>1 DEF PendingIsHeld, correlation
  <2>. QED
    BY <2>2, <2>3, <2>4 DEF IInv
<1>. QED
  BY <1>7, <1>8

\* A step that reads no record keeps the invariant.
LEMMA NoRecordIInv ==
    ASSUME IInv, UNCHANGED <<mode, correlation, pagination, schemaIssue, read>>,
           corruption' \in Classes \ {"UNKNOWN_OPERATIONAL_SCHEMA"}
    PROVE  IInv'
BY DEF IInv, TypeOK, Entries, PendingIsHeld, Pending, At, OfIds, Pairs, correlation, pagination

LEMMA NextIInv == IInv /\ [Next]_vars => IInv'
<1>. SUFFICES ASSUME IInv, [Next]_vars PROVE IInv'
  OBVIOUS
<1>1. ASSUME NEW item \in Items, NEW o \in Ordinals \cup {NoOrdinal}, Record(item, o)
      PROVE  IInv'
  BY <1>1, RecordIInv
<1>2. ASSUME NEW long \in BOOLEAN, NEW nul \in BOOLEAN, NEW complete \in BOOLEAN,
             Unreadable(long, nul, complete)
      PROVE  IInv'
  <2>1. corruption' \in Classes \ {"UNKNOWN_OPERATIONAL_SCHEMA"}
    BY <1>2 DEF Unreadable, Classes
  <2>. QED
    BY <1>2, <2>1, NoRecordIInv DEF Unreadable
<1>3. CASE UNCHANGED vars
  <2>1. corruption' \in Classes \ {"UNKNOWN_OPERATIONAL_SCHEMA"}
    BY <1>3 DEF vars, IInv, TypeOK
  <2>. QED
    BY <1>3, <2>1, NoRecordIInv DEF vars
<1>. QED
  BY <1>1, <1>2, <1>3 DEF Next

-----------------------------------------------------------------------------
(* What the pools know of the records read so far.                         *)

Unmentioned(id) == At(id, "call") = {} /\ At(id, "output") = {}

\* Of an id in no pool the rollout held one pair, if it is retired, or nothing;
\* calls without outputs have none, and a single one is the only call read.
SilentEntry(id) ==
    /\ id \notin DOMAIN calls \cup DOMAIN outputs =>
           IF id \in Range(retired) THEN OneToOne(id) ELSE Unmentioned(id)
    /\ id \in DOMAIN calls \ DOMAIN outputs =>
           /\ At(id, "output") = {}
           /\ \A f \in Families : calls[id] = <<f>> =>
                  \E c \in 1..Len(read) :
                      At(id, "call") = {c} /\ read[c].item.family = f

\* So far nothing is wrong with an id: at most one call and, after it and in
\* kind, at most one output.
Fine(id) ==
    /\ \A c, d \in At(id, "call") : c = d
    /\ \A o, p \in At(id, "output") : o = p
    /\ \A o \in At(id, "output") : \E c \in At(id, "call") :
           c < o /\ read[c].item.family = read[o].item.family

\* Then the pools hold its call until it is answered, and nothing else of it.
FineEntry(id) == Fine(id) =>
    /\ id \notin DOMAIN outputs
    /\ At(id, "call") = {} => id \notin DOMAIN calls /\ id \notin Range(retired)
    /\ At(id, "output") # {} => id \notin DOMAIN calls
    /\ At(id, "output") = {} => \A c \in At(id, "call") :
           id \in DOMAIN calls /\ calls[id] = <<read[c].item.family>>

\* What the report may conclude from silence and from a finding.
Faithful ==
    /\ \A id \in DOMAIN outputs : outputs[id] # <<>>
    /\ ~overflow => reused = {}
    /\ ~overflow => \A id \in Ids : FineEntry(id)
    /\ ~overflow /\ Len(retired) < MaxRetired => \A id \in Ids : SilentEntry(id)

\* A step leaves the records and the entries of an id as they are.
Same(id) ==
    /\ At(id, "call")' = At(id, "call") /\ At(id, "output")' = At(id, "output")
    /\ Len(read) \in Nat /\ Len(read') \in Nat /\ Len(read) <= Len(read')
    /\ \A i \in 1..Len(read) : read'[i] = read[i]
    /\ id \in DOMAIN calls' <=> id \in DOMAIN calls
    /\ id \in DOMAIN calls => calls'[id] = calls[id]
    /\ id \in DOMAIN outputs' <=> id \in DOMAIN outputs

\* The facts of an id the step does not touch are those of the old records.
LEMMA SameId ==
    ASSUME NEW id \in Ids, Same(id)
    PROVE  /\ Unmentioned(id)' <=> Unmentioned(id)
           /\ OneToOne(id) => OneToOne(id)'
           /\ Fine(id)' => Fine(id)
           /\ \A kind \in {"call", "output"} : \A i \in At(id, kind) : read'[i] = read[i]
<1>1. \A kind \in {"call", "output"} : At(id, kind) \subseteq 1..Len(read)
  BY DEF At
<1>2. \A kind \in {"call", "output"} : \A i \in At(id, kind) : read'[i] = read[i]
  BY <1>1 DEF Same
<1>3. Unmentioned(id)' <=> Unmentioned(id)
  BY DEF Unmentioned, Same
<1>4. OneToOne(id) => OneToOne(id)'
  <2>. SUFFICES ASSUME OneToOne(id) PROVE OneToOne(id)'
    OBVIOUS
  <2>1. PICK c \in 1..Len(read), o \in 1..Len(read) :
            /\ At(id, "call") = {c} /\ At(id, "output") = {o}
            /\ read[c].item.family = read[o].item.family
    BY DEF OneToOne
  <2>2. c \in 1..Len(read') /\ o \in 1..Len(read')
    BY DEF Same
  <2>3. At(id, "call")' = {c} /\ At(id, "output")' = {o}
    BY <2>1 DEF Same
  <2>4. read'[c] = read[c] /\ read'[o] = read[o]
    BY DEF Same
  <2>. QED
    BY <2>1, <2>2, <2>3, <2>4 DEF OneToOne
<1>5. Fine(id)' => Fine(id)
  BY <1>2 DEF Fine, Same
<1>. QED
  BY <1>2, <1>3, <1>4, <1>5

LEMMA SameSilent ==
    ASSUME NEW id \in Ids, Same(id), SilentEntry(id),
           id \in Range(retired') <=> id \in Range(retired)
    PROVE  SilentEntry(id)'
<1>1. /\ Unmentioned(id)' <=> Unmentioned(id)
      /\ OneToOne(id) => OneToOne(id)'
  BY SameId
<1>2. id \notin DOMAIN calls' \cup DOMAIN outputs' =>
          IF id \in Range(retired') THEN OneToOne(id)' ELSE Unmentioned(id)'
  BY <1>1 DEF SilentEntry, Same
<1>3. ASSUME id \in DOMAIN calls' \ DOMAIN outputs'
      PROVE  /\ At(id, "output")' = {}
             /\ \A f \in Families : calls'[id] = <<f>> =>
                    \E c \in 1..Len(read') :
                        At(id, "call")' = {c} /\ read'[c].item.family = f
  <2>1. id \in DOMAIN calls \ DOMAIN outputs /\ calls'[id] = calls[id]
    BY <1>3 DEF Same
  <2>2. At(id, "output")' = {}
    BY <2>1 DEF Same, SilentEntry
  <2>3. ASSUME NEW f \in Families, calls'[id] = <<f>>
        PROVE  \E c \in 1..Len(read') :
                   At(id, "call")' = {c} /\ read'[c].item.family = f
    <3>1. PICK c \in 1..Len(read) : At(id, "call") = {c} /\ read[c].item.family = f
      BY <2>1, <2>3 DEF SilentEntry
    <3>2. c \in 1..Len(read') /\ read'[c] = read[c] /\ At(id, "call")' = {c}
      BY <3>1 DEF Same
    <3>. QED
      BY <3>1, <3>2
  <2>. QED
    BY <2>2, <2>3
<1>. QED
  BY <1>2, <1>3 DEF SilentEntry

LEMMA SameFine ==
    ASSUME NEW id \in Ids, Same(id), FineEntry(id),
           id \in Range(retired') => id \in Range(retired)
    PROVE  FineEntry(id)'
<1>. SUFFICES ASSUME Fine(id)'
     PROVE  /\ id \notin DOMAIN outputs'
            /\ At(id, "call")' = {} => id \notin DOMAIN calls' /\ id \notin Range(retired')
            /\ At(id, "output")' # {} => id \notin DOMAIN calls'
            /\ At(id, "output")' = {} => \A c \in At(id, "call")' :
                   id \in DOMAIN calls' /\ calls'[id] = <<read'[c].item.family>>
  BY DEF FineEntry
<1>1. Fine(id)
  BY SameId
<1>2. \A i \in At(id, "call") : read'[i] = read[i]
  BY SameId
<1>. QED
  BY <1>1, <1>2 DEF FineEntry, Same

\* An entry is made, or its loss is told.
LEMMA RecordedOrLost ==
    ASSUME TypeOK, NEW item \in Tools, Correlate(item), ~overflow',
           HasEntry(item) \/ WantsEntry(item)
    PROVE  Recorded(item)
<1>1. ~Loses(item)
  BY CorrelateStep
<1>2. HasEntry(item)
  BY <1>1 DEF Loses, HasEntry
<1>3. Occurrences(item) \in Seq(Families) /\ MaxOccurrences \in Nat
  BY EntryType, TranscriptAssumption DEF Occurrences, TranscriptAssumption, TypeOK, Tools
<1>. QED
  BY <1>1, <1>2, <1>3 DEF Loses, Recorded

\* A call the parser did not lose count at adds to the entry of its id, or finds
\* that its id has outputs.
LEMMA CallStep ==
    ASSUME TypeOK, Entries, NEW item \in Tools, Correlate(item), ~overflow',
           item.kind = "call"
    PROVE  /\ item.id \notin Range(retired) /\ retired' = retired
           /\ outputs' = outputs /\ reused' = reused
           /\ item.id \notin DOMAIN outputs =>
                  /\ item.id \in DOMAIN calls'
                  /\ calls'[item.id] = Append(Entry(calls, item.id), item.family)
<1>1. ~Done(item)
  BY CallIsNotDone
<1>2. retired' = retired /\ outputs' = outputs /\ calls' = Calls(item)
  BY <1>1, CorrelateStep DEF Outputs
<1>3. item.id \notin Range(retired)
  BY CorrelateStep
<1>4. reused' = reused
  BY <1>3 DEF Correlate
<1>5. ASSUME item.id \notin DOMAIN outputs
      PROVE  /\ item.id \in DOMAIN calls'
             /\ calls'[item.id] = Append(Entry(calls, item.id), item.family)
  <2>. DEFINE entry == Append(Occurrences(item), item.family)
  <2>1. Recorded(item)
    BY <1>5, RecordedOrLost DEF HasEntry, WantsEntry
  <2>2. calls' = Put(calls, item.id, entry)
    BY <1>2, <2>1 DEF Calls
  <2>3. entry = Append(Entry(calls, item.id), item.family)
    BY DEF Occurrences
  <2>. HIDE DEF entry
  <2>4. item.id \in DOMAIN calls' /\ calls'[item.id] = entry
    BY <2>2 DEF Put
  <2>. QED
    BY <2>3, <2>4
<1>. QED
  BY <1>2, <1>3, <1>4, <1>5

\* An output the parser did not lose count at completes its call, if it is the
\* first and the call the only one of its kind; else it stays in the outputs.
LEMMA OutputStep ==
    ASSUME TypeOK, \A id \in DOMAIN outputs : outputs[id] # <<>>,
           NEW item \in Tools, Correlate(item), ~overflow', item.kind = "output"
    PROVE  /\ reused' = reused
           /\ \/ /\ item.id \notin DOMAIN outputs
                 /\ item.id \in DOMAIN calls /\ calls[item.id] = <<item.family>>
                 /\ item.id \notin DOMAIN calls' \cup DOMAIN outputs'
                 /\ retired' = Retire(item.id)
              \/ /\ item.id \in DOMAIN outputs' /\ retired' = retired
                 /\ ~(item.id \notin DOMAIN outputs /\ item.id \in DOMAIN calls
                         /\ calls[item.id] = <<item.family>>)
<1>. DEFINE x == item.id
            f == item.family
            entry == Append(Occurrences(item), f)
<1>1. /\ x \in Ids /\ f \in Families /\ OfIds(calls) /\ OfIds(outputs)
      /\ x \in DOMAIN outputs => Occurrences(item) = outputs[x]
      /\ x \notin DOMAIN outputs => Occurrences(item) = <<>>
  BY DEF Tools, TypeOK, Occurrences, Entry
<1>2. reused' = reused
  BY DEF Correlate
<1>3. Recorded(item)
  BY RecordedOrLost DEF HasEntry, WantsEntry
<1>4. Calls(item) = calls /\ Outputs(item) = Put(outputs, x, entry)
  BY <1>3 DEF Calls, Outputs
<1>5. Occurrences(item) \in Seq(Families)
  BY <1>1, EntryType DEF Occurrences
<1>6. entry \in Seq(Families) /\ entry # <<>> /\ Len(entry) = Len(Occurrences(item)) + 1
  BY <1>1, <1>5
<1>7. x \notin DOMAIN outputs => entry = <<f>>
  BY <1>1
<1>8. x \in DOMAIN outputs => Len(entry) # 1
  <2>. SUFFICES ASSUME x \in DOMAIN outputs PROVE Len(Occurrences(item)) # 0
    BY <1>5, <1>6
  <2>1. Occurrences(item) # <<>>
    BY <1>1
  <2>. QED
    BY <1>5, <2>1
<1>. HIDE DEF entry
<1>9. /\ DOMAIN Outputs(item) = DOMAIN outputs \cup {x}
      /\ Outputs(item)[x] = entry /\ Entry(Outputs(item), x) = entry
      /\ \A id \in DOMAIN outputs \ {x} : Outputs(item)[id] = outputs[id]
  BY <1>4 DEF Put, Entry
<1>10. Done(item) <=> Len(Entry(calls, x)) = 1 /\ entry = Entry(calls, x)
  BY <1>4, <1>9 DEF Done, Pairs
<1>11. Len(<<f>>) = 1 /\ <<f>> # <<>>
  OBVIOUS
<1>12. Done(item) <=> x \notin DOMAIN outputs /\ x \in DOMAIN calls /\ calls[x] = <<f>>
  <2>1. ASSUME Done(item) PROVE x \notin DOMAIN outputs /\ x \in DOMAIN calls /\ calls[x] = <<f>>
    <3>1. x \notin DOMAIN outputs
      BY <1>8, <1>10, <2>1
    <3>2. Entry(calls, x) = <<f>>
      BY <1>7, <1>10, <2>1, <3>1
    <3>. QED
      BY <1>11, <3>1, <3>2 DEF Entry
  <2>2. ASSUME x \notin DOMAIN outputs, x \in DOMAIN calls, calls[x] = <<f>> PROVE Done(item)
    BY <1>7, <1>10, <1>11, <2>2 DEF Entry
  <2>. QED
    BY <2>1, <2>2
<1>13. CASE Done(item)
  <2>1. calls' = Without(calls, x) /\ outputs' = Without(Outputs(item), x)
          /\ retired' = Retire(x)
    BY <1>4, <1>13, CorrelateStep
  <2>2. x \notin DOMAIN calls' \cup DOMAIN outputs'
    BY <2>1 DEF Without, Restrict
  <2>. QED
    BY <1>2, <1>12, <1>13, <2>1, <2>2
<1>14. CASE ~Done(item)
  <2>1. outputs' = Outputs(item) /\ retired' = retired
    BY <1>14, CorrelateStep
  <2>. QED
    BY <1>2, <1>9, <1>12, <1>14, <2>1
<1>. QED
  BY <1>13, <1>14

\* What retiring an id does to the ids retired before.
LEMMA RetireRange ==
    ASSUME retired \in Seq(Ids), NEW id \in Ids
    PROVE  /\ \A i \in Range(Retire(id)) : i = id \/ i \in Range(retired)
           /\ id \in Range(Retire(id))
           /\ Len(retired) <= MaxRetired =>
                  Len(Retire(id)) <= MaxRetired
           /\ IsInjective(retired) => IsInjective(Retire(id))
           /\ Len(retired) <= MaxRetired /\ Len(Retire(id)) < MaxRetired =>
                  /\ Len(retired) < MaxRetired
                  /\ Range(retired) \subseteq Range(Retire(id))
<1>. DEFINE kept == IF Len(retired) = MaxRetired THEN Tail(retired) ELSE retired
<1>1. MaxRetired \in Nat \ {0} /\ Len(retired) \in Nat
  BY TranscriptAssumption DEF TranscriptAssumption
<1>2. CASE id \in Range(retired)
  BY <1>1, <1>2 DEF Retire
<1>3. CASE id \notin Range(retired)
  <2>1. Retire(id) = Append(kept, id)
    BY <1>3 DEF Retire
  <2>2. /\ kept \in Seq(Ids) /\ \A i \in Range(kept) : i \in Range(retired)
        /\ IsInjective(retired) => IsInjective(kept)
        /\ Len(retired) <= MaxRetired => Len(kept) < MaxRetired
        /\ Len(retired) # MaxRetired => kept = retired
        /\ Len(retired) = MaxRetired => Len(kept) = MaxRetired - 1
    <3>1. CASE Len(retired) = MaxRetired
      <4>1. retired # <<>>
        BY <1>1, <3>1
      <4>2. kept = Tail(retired)
        BY <3>1
      <4>3. /\ Tail(retired) \in Seq(Ids) /\ Len(Tail(retired)) = Len(retired) - 1
            /\ \A i \in 1..Len(retired) - 1 : Tail(retired)[i] = retired[i + 1]
        BY <4>1
      <4>. HIDE DEF kept
      <4>4. \A i \in Range(kept) : i \in Range(retired)
        BY <1>1, <4>2, <4>3 DEF Range
      <4>5. IsInjective(retired) => IsInjective(kept)
        BY <1>1, <4>2, <4>3 DEF IsInjective
      <4>. QED
        BY <1>1, <3>1, <4>2, <4>3, <4>4, <4>5
    <3>2. CASE Len(retired) # MaxRetired
      BY <1>1, <3>2
    <3>. QED
      BY <3>1, <3>2
  <2>. HIDE DEF kept
  <2>3. /\ Append(kept, id) \in Seq(Ids) /\ Len(Append(kept, id)) = Len(kept) + 1
        /\ \A i \in 1..Len(kept) : Append(kept, id)[i] = kept[i]
        /\ Append(kept, id)[Len(kept) + 1] = id
        /\ Len(kept) \in Nat
    BY <2>2
  <2>4. DOMAIN kept = 1..Len(kept) /\ DOMAIN Append(kept, id) = 1..(Len(kept) + 1)
    BY <2>2, <2>3
  <2>5. Range(Append(kept, id)) = Range(kept) \cup {id}
    BY <2>3, <2>4 DEF Range
  <2>6. IsInjective(retired) => IsInjective(Append(kept, id))
    <3>. SUFFICES ASSUME IsInjective(retired),
                         NEW i \in 1..(Len(kept) + 1), NEW j \in 1..(Len(kept) + 1),
                         Append(kept, id)[i] = Append(kept, id)[j]
         PROVE  i = j
      BY <2>4 DEF IsInjective
    <3>1. \A k \in 1..Len(kept) : kept[k] # id
      BY <1>3, <2>2, <2>4 DEF Range
    <3>2. \A k, l \in 1..Len(kept) : kept[k] = kept[l] => k = l
      BY <2>2, <2>4 DEF IsInjective
    <3>. QED
      BY <2>3, <3>1, <3>2
  <2>. QED
    BY <1>1, <2>1, <2>2, <2>3, <2>5, <2>6
<1>. QED
  BY <1>2, <1>3

\* A call or an output leaves the records and the entries of another id alone.
LEMMA OtherIdStep ==
    ASSUME TypeOK, NEW item \in Tools, NEW o \in Ordinals \cup {NoOrdinal},
           read' = Append(read, [item |-> item, ordinal |-> o]), Correlate(item),
           NEW id \in Ids, id # item.id
    PROVE  Same(id)
<1>1. item \in Items
  BY DEF Tools, Items
<1>2. /\ At(id, "call")' = At(id, "call") /\ At(id, "output")' = At(id, "output")
      /\ Len(read) \in Nat /\ Len(read') = Len(read) + 1
      /\ \A i \in 1..Len(read) : read'[i] = read[i]
  BY <1>1, AtStep
<1>3. /\ id \in DOMAIN calls' <=> id \in DOMAIN calls
      /\ id \in DOMAIN calls => calls'[id] = calls[id]
      /\ id \in DOMAIN outputs' <=> id \in DOMAIN outputs
  BY PoolsStep
<1>. QED
  BY <1>2, <1>3 DEF Same

\* The id of a call.
LEMMA CallFaithful ==
    ASSUME TypeOK, Entries, Faithful, NEW item \in Tools,
           NEW o \in Ordinals \cup {NoOrdinal},
           read' = Append(read, [item |-> item, ordinal |-> o]), Correlate(item),
           ~overflow', item.kind = "call"
    PROVE  /\ FineEntry(item.id)'
           /\ Len(retired') < MaxRetired => SilentEntry(item.id)'
<1>. DEFINE x == item.id
            f == item.family
            n == Len(read)
<1>1. item \in Items /\ x \in Ids /\ f \in Families
  BY DEF Tools, Items
<1>2. /\ n \in Nat /\ Len(read') = n + 1 /\ read'[n + 1].item = item
      /\ \A i \in 1..n : read'[i] = read[i]
      /\ At(x, "call") \subseteq 1..n /\ At(x, "output") \subseteq 1..n
      /\ At(x, "call")' = At(x, "call") \cup {n + 1} /\ At(x, "output")' = At(x, "output")
  BY <1>1, AtStep
<1>3. /\ x \notin Range(retired) /\ retired' = retired /\ outputs' = outputs
      /\ x \notin DOMAIN outputs =>
             x \in DOMAIN calls' /\ calls'[x] = Append(Entry(calls, x), f)
  BY CallStep
<1>4. ~overflow
  BY CorrelateStep
<1>5. Entry(calls, x) \in Seq(Families)
  BY <1>1, EntryType DEF TypeOK
<1>6. x \notin DOMAIN calls => Entry(calls, x) = <<>>
  BY DEF Entry
<1>7. FineEntry(x)'
  <2>. SUFFICES ASSUME Fine(x)'
       PROVE  /\ x \notin DOMAIN outputs'
              /\ At(x, "call")' # {} /\ At(x, "output")' = {}
              /\ \A c \in At(x, "call")' :
                     x \in DOMAIN calls' /\ calls'[x] = <<read'[c].item.family>>
    BY DEF FineEntry
  <2>1. At(x, "call") = {} /\ At(x, "call")' = {n + 1}
    BY <1>2 DEF Fine
  <2>2. At(x, "output") = {}
    <3>. SUFFICES ASSUME NEW p \in At(x, "output") PROVE FALSE
      OBVIOUS
    <3>1. PICK c \in At(x, "call")' : c < p
      BY <1>2 DEF Fine
    <3>. QED
      BY <1>2, <2>1, <3>1
  <2>3. Fine(x)
    BY <2>1, <2>2 DEF Fine
  <2>4. x \notin DOMAIN outputs /\ x \notin DOMAIN calls
    BY <1>1, <1>4, <2>1, <2>3 DEF Faithful, FineEntry
  <2>5. calls'[x] = <<f>> /\ x \in DOMAIN calls'
    BY <1>3, <1>6, <2>4
  <2>. QED
    BY <1>2, <1>3, <2>1, <2>2, <2>4, <2>5
<1>8. ASSUME Len(retired') < MaxRetired PROVE SilentEntry(x)'
  <2>1. SilentEntry(x)
    BY <1>1, <1>3, <1>4, <1>8 DEF Faithful
  <2>2. CASE x \in DOMAIN outputs
    BY <1>3, <2>2 DEF SilentEntry
  <2>3. CASE x \notin DOMAIN outputs
    <3>1. x \in DOMAIN calls' /\ calls'[x] = Append(Entry(calls, x), f)
      BY <1>3, <2>3
    <3>2. At(x, "output")' = {}
      BY <1>2, <1>3, <2>1, <2>3 DEF SilentEntry, Unmentioned
    <3>3. ASSUME NEW g \in Families, calls'[x] = <<g>>
          PROVE  \E c \in 1..Len(read') : At(x, "call")' = {c} /\ read'[c].item.family = g
      <4>1. Len(Entry(calls, x)) = 0 /\ g = f
        <5>1. /\ Len(Append(Entry(calls, x), f)) = Len(Entry(calls, x)) + 1
              /\ Append(Entry(calls, x), f)[Len(Entry(calls, x)) + 1] = f
              /\ Len(Entry(calls, x)) \in Nat
          BY <1>1, <1>5
        <5>2. Len(<<g>>) = 1 /\ <<g>>[1] = g
          OBVIOUS
        <5>. QED
          BY <3>1, <3>3, <5>1, <5>2
      <4>2. x \notin DOMAIN calls
        BY <1>5, <4>1 DEF Entries, Entry
      <4>3. At(x, "call") = {}
        BY <1>3, <2>1, <2>3, <4>2 DEF SilentEntry, Unmentioned
      <4>. QED
        BY <1>2, <4>1, <4>3
    <3>. QED
      BY <3>1, <3>2, <3>3 DEF SilentEntry
  <2>. QED
    BY <2>2, <2>3
<1>. QED
  BY <1>7, <1>8

\* The id of an output.
LEMMA OutputFaithful ==
    ASSUME TypeOK, Entries, Faithful, NEW item \in Tools,
           NEW o \in Ordinals \cup {NoOrdinal},
           read' = Append(read, [item |-> item, ordinal |-> o]), Correlate(item),
           Len(retired) <= MaxRetired, ~overflow', item.kind = "output"
    PROVE  /\ FineEntry(item.id)'
           /\ Len(retired') < MaxRetired => SilentEntry(item.id)'
<1>. DEFINE x == item.id
            f == item.family
            n == Len(read)
            paired == x \notin DOMAIN outputs /\ x \in DOMAIN calls /\ calls[x] = <<f>>
<1>1. item \in Items /\ x \in Ids /\ f \in Families /\ retired \in Seq(Ids)
  BY DEF Tools, Items, TypeOK
<1>2. /\ n \in Nat /\ Len(read') = n + 1 /\ read'[n + 1].item = item
      /\ \A i \in 1..n : read'[i] = read[i]
      /\ At(x, "call") \subseteq 1..n /\ At(x, "output") \subseteq 1..n
      /\ At(x, "output")' = At(x, "output") \cup {n + 1} /\ At(x, "call")' = At(x, "call")
  BY <1>1, AtStep
<1>3. \/ paired /\ x \notin DOMAIN calls' \cup DOMAIN outputs' /\ retired' = Retire(x)
      \/ ~paired /\ x \in DOMAIN outputs' /\ retired' = retired
  BY OutputStep DEF Faithful
<1>4. ~overflow
  BY CorrelateStep
<1>5. FineEntry(x)'
  <2>. SUFFICES ASSUME Fine(x)'
       PROVE  /\ x \notin DOMAIN outputs' /\ x \notin DOMAIN calls'
              /\ At(x, "call")' # {} /\ At(x, "output")' # {}
    BY DEF FineEntry
  <2>1. At(x, "output") = {} /\ At(x, "output")' = {n + 1}
    BY <1>2 DEF Fine
  <2>2. PICK c \in At(x, "call") : c < n + 1 /\ read'[c].item.family = f
    BY <1>2, <2>1 DEF Fine
  <2>3. Fine(x)
    BY <1>2, <2>1 DEF Fine
  <2>4. x \notin DOMAIN outputs /\ x \in DOMAIN calls /\ calls[x] = <<read[c].item.family>>
    BY <1>1, <1>4, <2>1, <2>2, <2>3 DEF Faithful, FineEntry
  <2>5. read'[c] = read[c]
    BY <1>2
  <2>6. paired
    BY <2>2, <2>4, <2>5
  <2>. QED
    BY <1>2, <1>3, <2>1, <2>2, <2>6
<1>6. ASSUME Len(retired') < MaxRetired PROVE SilentEntry(x)'
  <2>1. CASE ~paired
    BY <1>3, <2>1 DEF SilentEntry
  <2>2. CASE paired
    <3>1. retired' = Retire(x) /\ x \notin DOMAIN calls' \cup DOMAIN outputs'
      BY <1>3, <2>2
    <3>2. x \in Range(retired') /\ Len(retired) < MaxRetired
      BY <1>1, <1>6, <3>1, RetireRange
    <3>3. SilentEntry(x)
      BY <1>1, <1>4, <3>2 DEF Faithful
    <3>4. At(x, "output") = {}
      BY <2>2, <3>3 DEF SilentEntry
    <3>5. PICK c \in 1..n : At(x, "call") = {c} /\ read[c].item.family = f
      BY <1>1, <2>2, <3>3 DEF SilentEntry
    <3>6. At(x, "call")' = {c} /\ At(x, "output")' = {n + 1}
      BY <1>2, <3>4, <3>5
    <3>7. read'[c].item.family = read'[n + 1].item.family
      BY <1>2, <3>5
    <3>8. c \in 1..Len(read') /\ n + 1 \in 1..Len(read')
      BY <1>2
    <3>9. OneToOne(x)'
      BY <3>6, <3>7, <3>8 DEF OneToOne
    <3>. QED
      BY <3>1, <3>2, <3>9 DEF SilentEntry
  <2>. QED
    BY <2>1, <2>2
<1>. QED
  BY <1>5, <1>6

LEMMA FaithfulStep ==
    ASSUME TypeOK, Entries, Faithful, Len(retired) <= MaxRetired, NEW item \in Tools,
           NEW o \in Ordinals \cup {NoOrdinal},
           read' = Append(read, [item |-> item, ordinal |-> o]), Correlate(item)
    PROVE  Faithful'
<1>. DEFINE x == item.id
<1>1. x \in Ids /\ retired \in Seq(Ids) /\ item.kind \in {"call", "output"}
  BY DEF Tools, TypeOK
<1>2. overflow => overflow'
  BY CorrelateStep
<1>3. \A id \in DOMAIN outputs' : outputs'[id] # <<>>
  <2>1. CASE x \in DOMAIN outputs' => outputs'[x] # <<>>
    BY <2>1, PoolsStep DEF Faithful
  <2>2. ASSUME x \in DOMAIN outputs' PROVE outputs'[x] # <<>>
    <3>1. outputs' = Outputs(item)
      BY <2>2, PoolsStep
    <3>2. CASE Recorded(item) /\ item.kind = "output"
      <4>1. Occurrences(item) \in Seq(Families) /\ item.family \in Families
        BY EntryType DEF Occurrences, TypeOK, Tools
      <4>2. Append(Occurrences(item), item.family) # <<>>
        BY <4>1
      <4>3. outputs'[x] = Append(Occurrences(item), item.family)
        BY <3>1, <3>2 DEF Outputs, Put
      <4>. QED
        BY <4>2, <4>3
    <3>3. CASE ~(Recorded(item) /\ item.kind = "output")
      BY <2>2, <3>1, <3>3 DEF Outputs, Faithful
    <3>. QED
      BY <3>2, <3>3
  <2>. QED
    BY <2>1, <2>2
<1>4. ASSUME ~overflow' PROVE reused' = {}
  BY <1>1, <1>2, <1>4, CallStep, OutputStep DEF Faithful
<1>5. ASSUME ~overflow', NEW id \in Ids PROVE FineEntry(id)'
  <2>1. CASE id = x
    BY <1>1, <1>5, <2>1, CallFaithful, OutputFaithful
  <2>2. CASE id # x
    <3>1. Same(id)
      BY <2>2, OtherIdStep
    <3>2. id \in Range(retired') => id \in Range(retired)
      BY <1>1, <2>2, CorrelateStep, RetireRange
    <3>3. FineEntry(id)
      BY <1>2, <1>5 DEF Faithful
    <3>. QED
      BY <3>1, <3>2, <3>3, SameFine
  <2>. QED
    BY <2>1, <2>2
<1>6. ASSUME ~overflow', Len(retired') < MaxRetired, NEW id \in Ids PROVE SilentEntry(id)'
  <2>1. CASE id = x
    BY <1>1, <1>6, <2>1, CallFaithful, OutputFaithful
  <2>2. CASE id # x
    <3>1. Same(id)
      BY <2>2, OtherIdStep
    <3>2. /\ id \in Range(retired') <=> id \in Range(retired)
          /\ Len(retired) < MaxRetired
      BY <1>1, <1>6, <2>2, CorrelateStep, RetireRange
    <3>3. SilentEntry(id)
      BY <1>2, <1>6, <3>2 DEF Faithful
    <3>. QED
      BY <3>1, <3>2, <3>3, SameSilent
  <2>. QED
    BY <2>1, <2>2
<1>. QED
  BY <1>3, <1>4, <1>5, <1>6 DEF Faithful

-----------------------------------------------------------------------------
(* The memory of the correlation.                                          *)

Bounded ==
    /\ IsFiniteSet(DOMAIN calls) /\ IsFiniteSet(DOMAIN outputs)
    /\ MemoryBounded

\* Before a pair is retired, the pools grew by one entry at most, and only if
\* there was room.
LEMMA PoolsGrow ==
    ASSUME TypeOK, Bounded, NEW item \in Tools
    PROVE  /\ IsFiniteSet(DOMAIN Calls(item)) /\ IsFiniteSet(DOMAIN Outputs(item))
           /\ Pool(Calls(item)) + Pool(Outputs(item)) <= MaxStates
<1>. DEFINE x == item.id
<1>1. /\ Pool(calls) \in Nat /\ Pool(outputs) \in Nat /\ MaxStates \in Nat
      /\ Pool(calls) + Pool(outputs) <= MaxStates
      /\ IsFiniteSet(DOMAIN calls) /\ IsFiniteSet(DOMAIN outputs)
  BY FS_CardinalityType, TranscriptAssumption
     DEF Bounded, MemoryBounded, Pool, TranscriptAssumption
<1>2. CASE DOMAIN Calls(item) = DOMAIN calls /\ DOMAIN Outputs(item) = DOMAIN outputs
  BY <1>1, <1>2 DEF Pool
<1>3. CASE ~(DOMAIN Calls(item) = DOMAIN calls /\ DOMAIN Outputs(item) = DOMAIN outputs)
  <2>1. Recorded(item)
    BY <1>3 DEF Calls, Outputs
  <2>2. Pool(calls) + Pool(outputs) < MaxStates
    <3>1. \/ WantsEntry(item) /\ ~Full
          \/ x \in DOMAIN (IF item.kind = "call" THEN calls ELSE outputs)
      BY <2>1 DEF Recorded, HasEntry
    <3>2. ~(x \in DOMAIN (IF item.kind = "call" THEN calls ELSE outputs))
      BY <1>3 DEF Calls, Outputs, Put
    <3>. QED
      BY <1>1, <3>1, <3>2 DEF Full
  <2>3. ASSUME NEW S, IsFiniteSet(S)
        PROVE  /\ IsFiniteSet(S \cup {x}) /\ Cardinality(S \cup {x}) \in Nat
               /\ Cardinality(S \cup {x}) <= Cardinality(S) + 1
    <3>1. Cardinality(S) \in Nat
      BY <2>3, FS_CardinalityType
    <3>2. /\ IsFiniteSet(S \cup {x})
          /\ Cardinality(S \cup {x}) \in {Cardinality(S), Cardinality(S) + 1}
      BY <2>3, FS_AddElement
    <3>. QED
      BY <3>1, <3>2
  <2>4. \/ DOMAIN Calls(item) = DOMAIN calls /\ DOMAIN Outputs(item) = DOMAIN outputs \cup {x}
        \/ DOMAIN Calls(item) = DOMAIN calls \cup {x} /\ DOMAIN Outputs(item) = DOMAIN outputs
    BY <1>3 DEF Calls, Outputs, Put
  <2>. QED
    BY <1>1, <2>2, <2>3, <2>4 DEF Pool
<1>. QED
  BY <1>2, <1>3

LEMMA BoundedStep ==
    ASSUME TypeOK, Bounded, NEW item \in Tools, Correlate(item)
    PROVE  Bounded'
<1>1. DOMAIN calls' \subseteq DOMAIN Calls(item) /\ DOMAIN outputs' \subseteq DOMAIN Outputs(item)
  BY CorrelateStep DEF Without, Restrict
<1>2. /\ IsFiniteSet(DOMAIN Calls(item)) /\ IsFiniteSet(DOMAIN Outputs(item))
      /\ Pool(Calls(item)) + Pool(Outputs(item)) <= MaxStates
  BY PoolsGrow
<1>3. /\ IsFiniteSet(DOMAIN calls') /\ Cardinality(DOMAIN calls') <= Pool(Calls(item))
      /\ IsFiniteSet(DOMAIN outputs') /\ Cardinality(DOMAIN outputs') <= Pool(Outputs(item))
  BY <1>1, <1>2, FS_Subset DEF Pool
<1>4. /\ Cardinality(DOMAIN calls') \in Nat /\ Cardinality(DOMAIN outputs') \in Nat
      /\ Pool(Calls(item)) \in Nat /\ Pool(Outputs(item)) \in Nat /\ MaxStates \in Nat
  BY <1>2, <1>3, FS_CardinalityType, TranscriptAssumption DEF Pool, TranscriptAssumption
<1>5. Cardinality(DOMAIN calls') + Cardinality(DOMAIN outputs') <= MaxStates
  BY <1>2, <1>3, <1>4
<1>6. retired \in Seq(Ids) /\ item.id \in Ids
  BY DEF TypeOK, Tools
<1>7. Len(retired') <= MaxRetired /\ IsInjective(retired')
  BY <1>6, CorrelateStep, RetireRange DEF Bounded, MemoryBounded
<1>. QED
  BY <1>3, <1>5, <1>7 DEF Bounded, MemoryBounded, Pool

-----------------------------------------------------------------------------
(* The ordinals.                                                           *)

\* The records that bear an ordinal, those before one of them, those that bear
\* an ordinal again, and those that bear the one of the bearer just before.
Bearers == {i \in 1..Len(read) : mode = "paginated" /\ read[i].ordinal # NoOrdinal}
Before(i) == {j \in Bearers : j < i}
Reuses == {i \in Bearers : \E j \in Before(i) : read[j].ordinal = read[i].ordinal}
InARow == {i \in Reuses : read[Max(Before(i))].ordinal = read[i].ordinal}
Last(m) == m \in Bearers /\ \A j \in Bearers : j <= m

\* The bearers before a bearer have a last one, if there are any.
HaveLast == \A i \in Bearers : Before(i) # {} =>
                \E m \in Before(i) : \A j \in Before(i) : j <= m

\* Up to its cap the parser knows every ordinal there was; it always knows the
\* last one, and it counted the reuses it knew of.
OrdinalsKnown ==
    /\ \A o \in ordinals : \E i \in Bearers : read[i].ordinal = o
    /\ ~ordinalOverflow => \A i \in Bearers : read[i].ordinal \in ordinals
    /\ IF Bearers = {} THEN lastOrdinal = NoOrdinal
       ELSE \E m \in Bearers : Last(m) /\ read[m].ordinal = lastOrdinal
    /\ HaveLast
    /\ IF ordinalOverflow
       THEN ordinalReuse \in Cardinality(InARow)..Cardinality(Reuses)
       ELSE ordinalReuse = Cardinality(Reuses)

LEMMA LastIsMax ==
    ASSUME NEW m, Len(read) \in Nat, Last(m)
    PROVE  Max(Before(Len(read) + 1)) = m
<1>1. Before(Len(read) + 1) = Bearers
  BY DEF Before, Bearers
<1>2. Bearers \subseteq Nat
  BY DEF Bearers
<1>3. m \in Bearers /\ \A j \in Bearers : m >= j
  BY <1>2 DEF Last
<1>4. \A k \in Bearers : (\A j \in Bearers : k >= j) => k = m
  BY <1>2, <1>3
<1>. QED
  BY <1>1, <1>3, <1>4 DEF Max

\* A set of the first n + 1 positions, from the one it is of the first n.
LEMMA OneMore ==
    ASSUME NEW n \in Nat, NEW S, S \subseteq 1..n, NEW T, T \subseteq 1..(n + 1),
           \A i \in 1..n : i \in T <=> i \in S
    PROVE  T = IF n + 1 \in T THEN S \cup {n + 1} ELSE S
<1>1. \A i \in 1..(n + 1) : i \in 1..n \/ i = n + 1
  OBVIOUS
<1>2. n + 1 \notin 1..n
  OBVIOUS
<1>3. \A i : i \in T <=> i \in S \/ (i = n + 1 /\ n + 1 \in T)
  BY <1>1, <1>2
<1>. QED
  BY <1>3

\* What one more record changes of them.
LEMMA BearersStep ==
    ASSUME TypeOK, NEW item \in Items, NEW o \in Ordinals \cup {NoOrdinal},
           read' = Append(read, [item |-> item, ordinal |-> o]), mode' = mode,
           HaveLast
    PROVE  /\ mode # "paginated" \/ o = NoOrdinal =>
                  Bearers' = Bearers /\ Reuses' = Reuses /\ InARow' = InARow
           /\ ~(mode # "paginated" \/ o = NoOrdinal) =>
                  /\ Bearers' = Bearers \cup {Len(read) + 1}
                  /\ Reuses' = IF \E i \in Bearers : read[i].ordinal = o
                               THEN Reuses \cup {Len(read) + 1} ELSE Reuses
                  /\ \A m \in Bearers : Last(m) =>
                         InARow' = IF read[m].ordinal = o
                                   THEN InARow \cup {Len(read) + 1} ELSE InARow
                  /\ Bearers = {} => InARow' = {}
<1>0. PICK n : n = Len(read)
  OBVIOUS
<1>1. /\ n \in Nat /\ Len(read') = n + 1 /\ read'[n + 1].ordinal = o
      /\ \A i \in 1..n : read'[i] = read[i]
  BY <1>0, AtStep
<1>2. /\ Bearers \subseteq 1..n
      /\ Bearers' = IF mode # "paginated" \/ o = NoOrdinal THEN Bearers
                    ELSE Bearers \cup {n + 1}
  BY <1>0, <1>1 DEF Bearers
<1>3. \A i \in 1..(n + 1) : Before(i)' = Before(i)
  BY <1>1, <1>2 DEF Before
<1>4. \A i \in 1..n : i \in Reuses' <=> i \in Reuses
  <2>1. \A i \in 1..n : i \in Bearers' <=> i \in Bearers
    BY <1>1, <1>2
  <2>2. \A i \in 1..n : \A j \in Before(i) : read'[j] = read[j]
    BY <1>1, <1>2 DEF Before
  <2>3. ASSUME NEW i \in 1..n PROVE i \in Reuses' <=> i \in Reuses
    <3>1. read'[i] = read[i] /\ Before(i)' = Before(i)
      BY <1>1, <1>3
    <3>. QED
      BY <2>1, <2>2, <3>1 DEF Reuses
  <2>. QED
    BY <2>3
<1>5. \A i \in 1..n : i \in InARow' <=> i \in InARow
  <2>1. ASSUME NEW i \in Reuses PROVE Max(Before(i)) \in 1..n
    <3>1. Before(i) # {} /\ Before(i) \subseteq 1..n
      BY <1>1, <1>2, <2>1 DEF Reuses, Before
    <3>2. PICK k \in Before(i) : \A j \in Before(i) : j <= k
      BY <2>1, <3>1 DEF HaveLast, Reuses
    <3>3. \A j \in Before(i) : k >= j
      BY <1>1, <3>1, <3>2
    <3>. QED
      BY <3>1, <3>2, <3>3 DEF Max
  <2>2. ASSUME NEW i \in 1..n PROVE i \in InARow' <=> i \in InARow
    <3>1. CASE i \notin Reuses
      BY <1>4, <3>1 DEF InARow
    <3>2. CASE i \in Reuses
      <4>1. Max(Before(i))' = Max(Before(i))
        BY <1>1, <1>3 DEF Max
      <4>2. read'[Max(Before(i))] = read[Max(Before(i))] /\ read'[i] = read[i]
        BY <1>1, <2>1, <3>2
      <4>. QED
        BY <1>4, <3>2, <4>1, <4>2 DEF InARow
    <3>. QED
      BY <3>1, <3>2
  <2>. QED
    BY <2>2
<1>6. Reuses \subseteq 1..n /\ InARow \subseteq 1..n
  BY <1>2 DEF Reuses, InARow
<1>7. CASE mode # "paginated" \/ o = NoOrdinal
  <2>1. Bearers' = Bearers
    BY <1>2, <1>7
  <2>2. Reuses' \subseteq 1..n /\ InARow' \subseteq 1..n
    BY <1>2, <2>1 DEF Reuses, InARow
  <2>. QED
    BY <1>4, <1>5, <1>6, <1>7, <2>1, <2>2
<1>8. CASE ~(mode # "paginated" \/ o = NoOrdinal)
  <2>1. Bearers' = Bearers \cup {n + 1}
    BY <1>2, <1>8
  <2>2. Reuses' \subseteq 1..(n + 1) /\ InARow' \subseteq 1..(n + 1)
    <3>1. Bearers' \subseteq 1..(n + 1)
      BY <1>1, <1>2, <2>1
    <3>2. Reuses' \subseteq Bearers'
      BY DEF Reuses
    <3>3. InARow' \subseteq Reuses'
      BY DEF InARow
    <3>. QED
      BY <3>1, <3>2, <3>3
  <2>3. Before(n + 1)' = Bearers
    <3>1. \A j \in Bearers : j < n + 1
      BY <1>1, <1>2
    <3>2. Before(n + 1) = Bearers
      BY <3>1 DEF Before
    <3>. QED
      BY <1>1, <1>3, <3>2
  <2>4. n + 1 \in Reuses' <=> \E i \in Bearers : read[i].ordinal = o
    BY <1>1, <1>2, <2>1, <2>3 DEF Reuses
  <2>5. Reuses' = IF \E i \in Bearers : read[i].ordinal = o
                  THEN Reuses \cup {n + 1} ELSE Reuses
    <3>1. Reuses' = IF n + 1 \in Reuses' THEN Reuses \cup {n + 1} ELSE Reuses
      BY <1>1, <1>4, <1>6, <2>2, OneMore
    <3>. QED
      BY <2>4, <3>1
  <2>6. ASSUME NEW m \in Bearers, Last(m)
        PROVE  InARow' = IF read[m].ordinal = o THEN InARow \cup {n + 1} ELSE InARow
    <3>1. Max(Before(n + 1))' = m
      <4>1. Max(Before(n + 1)) = m
        BY <1>0, <1>1, <2>6, LastIsMax
      <4>2. Before(n + 1)' = Before(n + 1)
        BY <1>1, <1>3
      <4>. QED
        BY <4>1, <4>2 DEF Max
    <3>2. read'[m] = read[m]
      BY <1>1, <1>2
    <3>3. n + 1 \in InARow' <=> read[m].ordinal = o
      BY <1>1, <2>4, <3>1, <3>2 DEF InARow
    <3>4. InARow' = IF n + 1 \in InARow' THEN InARow \cup {n + 1} ELSE InARow
      BY <1>1, <1>5, <1>6, <2>2, OneMore
    <3>. QED
      BY <3>3, <3>4
  <2>7. ASSUME Bearers = {} PROVE InARow' = {}
    BY <1>6, <2>4, <2>5, <2>7 DEF InARow, Reuses
  <2>. QED
    BY <1>0, <1>8, <2>1, <2>5, <2>6, <2>7
<1>. QED
  BY <1>7, <1>8

LEMMA OrdinalsStep ==
    ASSUME TypeOK, OrdinalsKnown, NEW item \in Items, NEW o \in Ordinals \cup {NoOrdinal},
           read' = Append(read, [item |-> item, ordinal |-> o]), mode' = mode,
           FollowOrdinal(o)
    PROVE  OrdinalsKnown'
<1>0. PICK n : n = Len(read)
  OBVIOUS
<1>1. /\ n \in Nat /\ Len(read') = n + 1 /\ read'[n + 1].ordinal = o
      /\ \A i \in 1..n : read'[i] = read[i]
  BY <1>0, AtStep
<1>2. Bearers \subseteq 1..n /\ Reuses \subseteq 1..n /\ InARow \subseteq Reuses
  BY <1>0 DEF Bearers, Reuses, InARow
<1>3. \A i \in Bearers : read'[i] = read[i]
  BY <1>1, <1>2
<1>4. HaveLast
  BY DEF OrdinalsKnown
<1>5. Bearers # {} => \E m \in Bearers : Last(m) /\ read[m].ordinal = lastOrdinal
  BY DEF OrdinalsKnown
<1>6. CASE mode # "paginated" \/ o = NoOrdinal
  <2>1. Bearers' = Bearers /\ Reuses' = Reuses /\ InARow' = InARow
    BY <1>4, <1>6, BearersStep
  <2>2. UNCHANGED pagination
    BY <1>6 DEF FollowOrdinal
  <2>3. \A i : Before(i)' = Before(i)
    BY <2>1 DEF Before
  <2>4. HaveLast'
    BY <1>4, <2>1, <2>3 DEF HaveLast
  <2>5. \A m : Last(m)' <=> Last(m)
    BY <2>1 DEF Last
  <2>. QED
    BY <1>3, <2>1, <2>2, <2>4, <2>5 DEF OrdinalsKnown, pagination
<1>7. CASE ~(mode # "paginated" \/ o = NoOrdinal)
  <2>1. Bearers' = Bearers \cup {n + 1}
    BY <1>0, <1>4, <1>7, BearersStep
  <2>2. /\ lastOrdinal' = o
        /\ ordinalReuse' = ordinalReuse + IF KnownOrdinal(o) THEN 1 ELSE 0
        /\ ordinals' = IF ~KnownOrdinal(o) /\ Cardinality(ordinals) < MaxOrdinals
                       THEN ordinals \cup {o} ELSE ordinals
        /\ ordinalOverflow' = (ordinalOverflow \/
               (~KnownOrdinal(o) /\ ~(Cardinality(ordinals) < MaxOrdinals)))
    BY <1>7 DEF FollowOrdinal
  <2>3. KnownOrdinal(o) => \E i \in Bearers : read[i].ordinal = o
    BY <1>5, <1>7 DEF OrdinalsKnown, KnownOrdinal
  <2>4. ~ordinalOverflow =>
            (KnownOrdinal(o) <=> \E i \in Bearers : read[i].ordinal = o)
    BY <2>3 DEF OrdinalsKnown, KnownOrdinal
  <2>5. \A m \in Bearers : Last(m) /\ read[m].ordinal = o => KnownOrdinal(o)
    <3>. SUFFICES ASSUME NEW m \in Bearers, Last(m), read[m].ordinal = o
         PROVE  KnownOrdinal(o)
      OBVIOUS
    <3>1. PICK k \in Bearers : Last(k) /\ read[k].ordinal = lastOrdinal
      BY <1>5
    <3>2. k = m
      BY <1>1, <1>2, <3>1 DEF Last
    <3>. QED
      BY <3>1, <3>2 DEF KnownOrdinal
  <2>6. Last(n + 1)'
    BY <1>1, <1>2, <2>1 DEF Last
  <2>7. \A p \in ordinals' : \E i \in Bearers' : read'[i].ordinal = p
    <3>1. \A p \in ordinals : \E i \in Bearers' : read'[i].ordinal = p
      BY <1>3, <2>1 DEF OrdinalsKnown
    <3>2. \E i \in Bearers' : read'[i].ordinal = o
      BY <1>1, <2>1
    <3>. QED
      BY <2>2, <3>1, <3>2
  <2>8. ASSUME ~ordinalOverflow', NEW i \in Bearers' PROVE read'[i].ordinal \in ordinals'
    <3>1. ~ordinalOverflow /\ (KnownOrdinal(o) \/ ordinals' = ordinals \cup {o})
      BY <2>2, <2>8
    <3>2. \A j \in Bearers : read'[j].ordinal \in ordinals
      BY <1>3, <3>1 DEF OrdinalsKnown
    <3>3. o \in ordinals'
      <4>1. CASE ordinals' = ordinals \cup {o}
        BY <4>1
      <4>2. CASE KnownOrdinal(o)
        <5>1. o \in ordinals
          BY <2>3, <3>1, <4>2 DEF OrdinalsKnown
        <5>. QED
          BY <2>2, <5>1
      <4>. QED
        BY <3>1, <4>1, <4>2
    <3>4. ordinals \subseteq ordinals'
      BY <2>2
    <3>. QED
      BY <1>1, <2>1, <3>2, <3>3, <3>4
  <2>9. HaveLast'
    <3>1. \A i \in 1..n : Before(i)' = Before(i)
      BY <1>1, <2>1 DEF Before
    <3>2. Before(n + 1)' = Bearers
      <4>1. (\A j \in Bearers : j < n + 1) /\ ~(n + 1 < n + 1)
        BY <1>1, <1>2
      <4>. QED
        BY <2>1, <4>1 DEF Before
    <3>3. Bearers # {} => \E m \in Bearers : \A j \in Bearers : j <= m
      BY <1>5 DEF Last
    <3>. QED
      BY <1>2, <1>4, <2>1, <3>1, <3>2, <3>3 DEF HaveLast
  <2>10. IF ordinalOverflow' THEN ordinalReuse' \in Cardinality(InARow')..Cardinality(Reuses')
         ELSE ordinalReuse' = Cardinality(Reuses')
    <3>1. IsFiniteSet(Reuses) /\ IsFiniteSet(InARow)
      <4>1. IsFiniteSet(1..n)
        BY <1>1, FS_Interval
      <4>. QED
        BY <1>2, <4>1, FS_Subset
    <3>2. /\ Cardinality(Reuses) \in Nat /\ Cardinality(InARow) \in Nat
          /\ Cardinality(InARow) <= Cardinality(Reuses)
      BY <1>2, <3>1, FS_CardinalityType, FS_Subset
    <3>3. n + 1 \notin Reuses /\ n + 1 \notin InARow
      BY <1>1, <1>2
    <3>4. /\ Cardinality(Reuses \cup {n + 1}) = Cardinality(Reuses) + 1
          /\ Cardinality(InARow \cup {n + 1}) = Cardinality(InARow) + 1
      BY <3>1, <3>3, FS_AddElement
    <3>5. Reuses' = IF \E i \in Bearers : read[i].ordinal = o
                    THEN Reuses \cup {n + 1} ELSE Reuses
      BY <1>0, <1>4, <1>7, BearersStep
    <3>6. /\ InARow' \in {InARow, InARow \cup {n + 1}, {}}
          /\ ~KnownOrdinal(o) => InARow' \in {InARow, {}}
      <4>1. CASE Bearers = {}
        BY <1>4, <1>7, <4>1, BearersStep
      <4>2. CASE Bearers # {}
        <5>1. PICK m \in Bearers : Last(m)
          BY <1>5, <4>2
        <5>2. InARow' = IF read[m].ordinal = o THEN InARow \cup {n + 1} ELSE InARow
          BY <1>0, <1>4, <1>7, <5>1, BearersStep
        <5>. QED
          BY <2>5, <5>1, <5>2
      <4>. QED
        BY <4>1, <4>2
    <3>7. Cardinality({}) = 0
      BY FS_EmptySet
    <3>8. ordinalReuse \in Nat
      BY DEF TypeOK
    <3>9. PICK r, a : r = Cardinality(Reuses) /\ a = Cardinality(InARow)
      OBVIOUS
    <3>10. r \in Nat /\ a \in Nat /\ a <= r
      BY <3>2, <3>9
    <3>11. ordinalReuse <= r /\ IF ordinalOverflow THEN a <= ordinalReuse ELSE ordinalReuse = r
      BY <3>8, <3>9, <3>10 DEF OrdinalsKnown
    <3>12. CASE KnownOrdinal(o)
      <4>1. ordinalReuse' = ordinalReuse + 1 /\ ordinalOverflow' = ordinalOverflow
        BY <2>2, <3>12 DEF TypeOK
      <4>2. Cardinality(Reuses') = r + 1
        BY <2>3, <3>4, <3>5, <3>9, <3>12
      <4>3. Cardinality(InARow') \in {a, a + 1, 0}
        BY <3>4, <3>6, <3>7, <3>9
      <4>. QED
        BY <3>8, <3>10, <3>11, <4>1, <4>2, <4>3
    <3>13. CASE ~KnownOrdinal(o)
      <4>1. ordinalReuse' = ordinalReuse
        BY <2>2, <3>8, <3>13
      <4>2. ordinalOverflow => ordinalOverflow'
        BY <2>2
      <4>3. Cardinality(InARow') \in {a, 0}
        BY <3>6, <3>7, <3>9, <3>13
      <4>4. /\ Cardinality(Reuses') \in {r, r + 1}
            /\ ~ordinalOverflow => Cardinality(Reuses') = r
        BY <2>4, <3>4, <3>5, <3>9, <3>13
      <4>. QED
        BY <3>8, <3>10, <3>11, <4>1, <4>2, <4>3, <4>4
    <3>. QED
      BY <3>12, <3>13
  <2>11. Bearers' # {} /\ \E m \in Bearers' : Last(m)' /\ read'[m].ordinal = lastOrdinal'
    BY <1>1, <2>1, <2>2, <2>6
  <2>. QED
    BY <2>7, <2>8, <2>9, <2>10, <2>11 DEF OrdinalsKnown
<1>. QED
  BY <1>6, <1>7

-----------------------------------------------------------------------------

HInv == IInv /\ Bounded /\ Faithful /\ OrdinalsKnown

LEMMA InitHInv == Init => HInv
<1>. SUFFICES ASSUME Init PROVE HInv
  OBVIOUS
<1>1. IInv
  BY InitIInv
<1>2. /\ DOMAIN calls = {} /\ DOMAIN outputs = {} /\ retired = <<>> /\ Len(read) = 0
      /\ overflow = FALSE /\ reused = {}
      /\ ordinals = {} /\ lastOrdinal = NoOrdinal /\ ordinalReuse = 0 /\ ordinalOverflow = FALSE
  BY DEF Init
<1>3. IsFiniteSet({}) /\ Cardinality({}) = 0
  BY FS_EmptySet
<1>4. MaxStates \in Nat /\ MaxRetired \in Nat
  BY TranscriptAssumption DEF TranscriptAssumption
<1>5. Bounded
  <2>1. Len(retired) = 0 /\ DOMAIN retired = {}
    BY <1>2
  <2>2. IsInjective(retired)
    BY <2>1 DEF IsInjective
  <2>. QED
    BY <1>2, <1>3, <1>4, <2>1, <2>2 DEF Bounded, MemoryBounded, Pool
<1>6. \A id \in Ids : At(id, "call") = {} /\ At(id, "output") = {}
  BY <1>2 DEF At
<1>7. Faithful
  <2>1. Range(retired) = {}
    BY <1>2 DEF Range
  <2>2. \A id \in Ids : FineEntry(id) /\ SilentEntry(id)
    BY <1>2, <1>6, <2>1 DEF FineEntry, SilentEntry, Unmentioned
  <2>. QED
    BY <1>2, <2>2 DEF Faithful
<1>8. OrdinalsKnown
  <2>1. Bearers = {}
    BY <1>2 DEF Bearers
  <2>2. Reuses = {}
    BY <2>1 DEF Reuses
  <2>. QED
    BY <1>2, <1>3, <2>1, <2>2 DEF OrdinalsKnown, HaveLast
<1>. QED
  BY <1>1, <1>5, <1>7, <1>8 DEF HInv

\* A step that leaves the pools alone, and adds to no id, keeps what they hold.
LEMMA NoToolFaithful ==
    ASSUME Faithful, UNCHANGED correlation, Len(read) \in Nat, Len(read') \in Nat,
           Len(read) <= Len(read'), \A i \in 1..Len(read) : read'[i] = read[i],
           \A id \in Ids : /\ At(id, "call")' = At(id, "call")
                           /\ At(id, "output")' = At(id, "output")
    PROVE  Faithful'
<1>1. \A id \in Ids : Same(id)
  BY DEF Same, correlation
<1>2. \A id \in Ids : FineEntry(id) => FineEntry(id)'
  BY <1>1, SameFine DEF correlation
<1>3. \A id \in Ids : SilentEntry(id) => SilentEntry(id)'
  BY <1>1, SameSilent DEF correlation
<1>. QED
  BY <1>2, <1>3 DEF Faithful, correlation

LEMMA RecordHInv ==
    ASSUME HInv, NEW item \in Items, NEW o \in Ordinals \cup {NoOrdinal}, Record(item, o)
    PROVE  HInv'
<1>1. TypeOK /\ Entries /\ Bounded /\ Faithful /\ OrdinalsKnown /\ IInv
  BY DEF HInv, IInv
<1>2. read' = Append(read, [item |-> item, ordinal |-> o]) /\ mode' = mode /\ FollowOrdinal(o)
  BY DEF Record
<1>3. IInv'
  BY <1>1, RecordIInv
<1>4. OrdinalsKnown'
  BY <1>1, <1>2, OrdinalsStep
<1>5. CASE item.kind \in {"call", "output"}
  <2>1. item \in Tools /\ Correlate(item)
    BY <1>5 DEF Items, Tools, Record
  <2>2. Bounded'
    BY <1>1, <2>1, BoundedStep
  <2>3. Faithful'
    BY <1>1, <1>2, <2>1, FaithfulStep DEF Bounded, MemoryBounded
  <2>. QED
    BY <1>3, <1>4, <2>2, <2>3 DEF HInv
<1>6. CASE item.kind \notin {"call", "output"}
  <2>1. UNCHANGED correlation
    BY <1>6 DEF Record
  <2>2. Bounded'
    BY <1>1, <2>1 DEF Bounded, MemoryBounded, Pool, IsInjective, correlation
  <2>3. /\ Len(read) \in Nat /\ Len(read') = Len(read) + 1
        /\ \A i \in 1..Len(read) : read'[i] = read[i]
        /\ \A id \in Ids : /\ At(id, "call")' = At(id, "call")
                           /\ At(id, "output")' = At(id, "output")
    BY <1>1, <1>2, <1>6, AtStep
  <2>4. Faithful'
    BY <1>1, <2>1, <2>3, NoToolFaithful
  <2>. QED
    BY <1>3, <1>4, <2>2, <2>4 DEF HInv
<1>. QED
  BY <1>5, <1>6

\* A step that reads no record keeps the invariant.
LEMMA NoRecordHInv ==
    ASSUME HInv, IInv', UNCHANGED <<mode, correlation, pagination, read>>
    PROVE  HInv'
<1>1. TypeOK /\ Bounded /\ Faithful /\ OrdinalsKnown
  BY DEF HInv, IInv
<1>2. Bounded'
  BY <1>1 DEF Bounded, MemoryBounded, Pool, IsInjective, correlation
<1>3. Faithful'
  <2>1. Len(read) \in Nat /\ Len(read') = Len(read)
    BY <1>1 DEF TypeOK
  <2>2. \A id \in Ids : /\ At(id, "call")' = At(id, "call")
                        /\ At(id, "output")' = At(id, "output")
    BY DEF At
  <2>. QED
    BY <1>1, <2>1, <2>2, NoToolFaithful
<1>4. OrdinalsKnown'
  <2>1. Bearers' = Bearers
    BY DEF Bearers
  <2>2. \A i : Before(i)' = Before(i)
    BY <2>1 DEF Before
  <2>3. Reuses' = Reuses
    BY <2>1, <2>2 DEF Reuses
  <2>4. InARow' = InARow
    <3>1. \A i : Max(Before(i))' = Max(Before(i))
      BY <2>2 DEF Max
    <3>. QED
      BY <2>3, <3>1 DEF InARow
  <2>5. HaveLast' /\ \A m : Last(m)' <=> Last(m)
    BY <1>1, <2>1, <2>2 DEF OrdinalsKnown, HaveLast, Last
  <2>. QED
    BY <1>1, <2>1, <2>3, <2>4, <2>5 DEF OrdinalsKnown, pagination
<1>. QED
  BY <1>2, <1>3, <1>4 DEF HInv

LEMMA NextHInv == HInv /\ [Next]_vars => HInv'
<1>. SUFFICES ASSUME HInv, [Next]_vars PROVE HInv'
  OBVIOUS
<1>1. ASSUME NEW item \in Items, NEW o \in Ordinals \cup {NoOrdinal}, Record(item, o)
      PROVE  HInv'
  BY <1>1, RecordHInv
<1>2. IInv'
  BY NextIInv DEF HInv
<1>3. ASSUME NEW long \in BOOLEAN, NEW nul \in BOOLEAN, NEW complete \in BOOLEAN,
             Unreadable(long, nul, complete)
      PROVE  HInv'
  BY <1>2, <1>3, NoRecordHInv DEF Unreadable
<1>4. CASE UNCHANGED vars
  BY <1>2, <1>4, NoRecordHInv DEF vars
<1>. QED
  BY <1>1, <1>3, <1>4 DEF Next

-----------------------------------------------------------------------------

\* The pools hold families of known ids, retired ids are ids, counters count.
THEOREM TypeCorrect == Spec => []TypeOK
<1>1. IInv => TypeOK
  BY DEF IInv
<1>. QED
  BY <1>1, InitIInv, NextIInv, PTL DEF Spec

\* No rollout, however long, and no bound of the parser's memory makes it take
\* a call that nothing has answered since for done.
THEOREM InterruptedReported == Spec => []InterruptedIsReported
<1>1. IInv => InterruptedIsReported
  BY DEF IInv, Entries, PendingIsHeld, InterruptedIsReported, Unfinished, Ambiguities
<1>. QED
  BY <1>1, InitIInv, NextIInv, PTL DEF Spec

\* The parser's memory stays within its bounds, whatever the rollout holds, and
\* it never remembers an id as retired twice.
THEOREM MemoryIsBounded == Spec => []MemoryBounded
<1>1. HInv => MemoryBounded
  BY DEF HInv, Bounded
<1>. QED
  BY <1>1, InitHInv, NextHInv, PTL DEF Spec

\* While it remembers all it retired, what the report passes over in silence is
\* one call with one output of its family.
THEOREM SilenceMeansOnePair == Spec => []SilentMeansOneToOne
<1>1. HInv => SilentMeansOneToOne
  <2>. SUFFICES ASSUME HInv, ~overflow, ~Forgets,
                       NEW id \in Mentioned \ (Unfinished \cup Ambiguities)
       PROVE  OneToOne(id)
    BY DEF SilentMeansOneToOne
  <2>1. id \in Ids /\ ~Unmentioned(id)
    BY DEF Mentioned, Unmentioned
  <2>2. id \notin DOMAIN calls \cup DOMAIN outputs
    BY DEF HInv, IInv, Entries, Unfinished, Ambiguities
  <2>3. Len(retired) < MaxRetired
    <3>1. Len(retired) \in Nat /\ MaxRetired \in Nat
      BY TranscriptAssumption DEF TranscriptAssumption, HInv, IInv, TypeOK
    <3>. QED
      BY <3>1 DEF HInv, Bounded, MemoryBounded, Forgets
  <2>4. SilentEntry(id)
    BY <2>1, <2>3 DEF HInv, Faithful
  <2>. QED
    BY <2>1, <2>2, <2>4 DEF SilentEntry
<1>. QED
  BY <1>1, InitHInv, NextHInv, PTL DEF Spec

\* A rollout of calls that are each answered once, later and in kind is reported
\* healthy, however long, unless the parser said that it lost count.
THEOREM NoFalseAlarm == Spec => []HealthyIsClean
<1>1. HInv => HealthyIsClean
  <2>. SUFFICES ASSUME HInv, ~overflow, ~schemaIssue, corruption = "none",
                       \A id \in Mentioned : OneToOne(id) /\
                           \A c \in At(id, "call"), o \in At(id, "output") : c < o
       PROVE  corruption_class = "none" /\ unfinished_tool_call_count = 0
    BY DEF HealthyIsClean
  <2>1. ASSUME NEW id \in Ids PROVE id \notin DOMAIN calls /\ id \notin DOMAIN outputs
    <3>1. FineEntry(id)
      BY DEF HInv, Faithful
    <3>2. CASE id \in Mentioned
      <4>1. PICK c \in 1..Len(read), o \in 1..Len(read) :
                /\ At(id, "call") = {c} /\ At(id, "output") = {o}
                /\ read[c].item.family = read[o].item.family
        BY <3>2 DEF OneToOne
      <4>2. c < o
        BY <3>2, <4>1
      <4>. QED
        BY <3>1, <4>1, <4>2 DEF FineEntry, Fine
    <3>3. CASE id \notin Mentioned
      <4>1. At(id, "call") = {} /\ At(id, "output") = {}
        BY <3>3 DEF Mentioned
      <4>. QED
        BY <3>1, <4>1 DEF FineEntry, Fine
    <3>. QED
      BY <3>2, <3>3
  <2>2. DOMAIN calls = {} /\ DOMAIN outputs = {}
    BY <2>1 DEF HInv, IInv, TypeOK, OfIds
  <2>3. Unfinished = {} /\ Ambiguities = {}
    BY <2>2 DEF Unfinished, Ambiguities, HInv, Faithful
  <2>4. unfinished_tool_call_count = 0
    BY <2>3 DEF unfinished_tool_call_count, MapThenSumSet, MapThenFoldSet
  <2>5. corruption_class = "none"
    BY <2>3 DEF corruption_class
  <2>. QED
    BY <2>4, <2>5
<1>. QED
  BY <1>1, InitHInv, NextHInv, PTL DEF Spec

\* Below its cap the parser counts every ordinal that is used again; past it, at
\* least those used twice in a row and never one that is new.
THEOREM OrdinalReuseKnown == Spec => []OrdinalReuseIsKnown
<1>1. HInv => OrdinalReuseIsKnown
  BY DEF HInv, OrdinalsKnown, OrdinalReuseIsKnown, Bearers, Before, Reuses, InARow
<1>. QED
  BY <1>1, InitHInv, NextHInv, PTL DEF Spec
=============================================================================
