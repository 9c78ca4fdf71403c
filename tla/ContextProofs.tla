--------------------------- MODULE ContextProofs ---------------------------
(***************************************************************************)
(* Working memory for every threshold, every set of keys, goals and sizes, *)
(* and any number of payloads.                                             *)
(***************************************************************************)
EXTENDS Context, TLAPS

(* Evicting keeps the length of the log and every field but raw.           *)
LEMMA EvictShape ==
  ASSUME NEW ps \in Seq(Payload)
  PROVE  /\ Evict(ps) \in Seq(Payload)
         /\ Len(Evict(ps)) = Len(ps)
         /\ \A i \in DOMAIN ps :
              /\ Evict(ps)[i].key = ps[i].key
              /\ Evict(ps)[i].kind = ps[i].kind
              /\ Evict(ps)[i].summary = ps[i].summary
              /\ Evict(ps)[i].pinned = ps[i].pinned
              /\ Evict(ps)[i].raw = IF i \in Evictable(ps) THEN Gone ELSE ps[i].raw
<1>1. DOMAIN ps = 1 .. Len(ps) /\ Len(ps) \in Nat
  OBVIOUS
<1>2. ASSUME NEW i \in DOMAIN ps
      PROVE  /\ Evict(ps)[i] \in Payload
             /\ Evict(ps)[i].key = ps[i].key
             /\ Evict(ps)[i].kind = ps[i].kind
             /\ Evict(ps)[i].summary = ps[i].summary
             /\ Evict(ps)[i].pinned = ps[i].pinned
             /\ Evict(ps)[i].raw = IF i \in Evictable(ps) THEN Gone ELSE ps[i].raw
  <2>1. ps[i] \in Payload
    OBVIOUS
  <2>2. CASE i \in Evictable(ps)
    <3>1. Evict(ps)[i] = [ps[i] EXCEPT !.raw = Gone]
      BY <2>2 DEF Evict
    <3>2. QED
      BY <2>1, <2>2, <3>1 DEF Payload
  <2>3. CASE i \notin Evictable(ps)
    <3>1. Evict(ps)[i] = ps[i]
      BY <2>3 DEF Evict
    <3>2. QED
      BY <2>1, <2>3, <3>1
  <2>4. QED
    BY <2>2, <2>3
<1>3. Evict(ps) \in [1 .. Len(ps) -> Payload]
  BY <1>1, <1>2 DEF Evict
<1>4. QED
  BY <1>1, <1>2, <1>3

(* Compaction, whether it evicts or not, keeps the log and the pinned text.*)
LEMMA CompactedShape ==
  ASSUME NEW ps \in Seq(Payload), NEW goals, NEW known
  PROVE  /\ Compacted(ps, goals, known) \in Seq(Payload)
         /\ Len(Compacted(ps, goals, known)) = Len(ps)
         /\ \A i \in DOMAIN ps :
              LET q == Compacted(ps, goals, known)[i]
              IN  /\ q.key = ps[i].key
                  /\ q.kind = ps[i].kind
                  /\ q.summary = ps[i].summary
                  /\ q.pinned = ps[i].pinned
                  /\ q.raw \in {ps[i].raw, Gone}
                  /\ ps[i].pinned => q.raw = ps[i].raw
<1>1. CASE EstimatedTokens(ps, goals, known) <= Threshold
  BY <1>1 DEF Compacted
<1>2. CASE ~(EstimatedTokens(ps, goals, known) <= Threshold)
  BY <1>2, EvictShape DEF Compacted, Evictable
<1>3. QED
  BY <1>1, <1>2

(* Pinning and releasing change the flag and nothing else.                 *)
LEMMA PinShape ==
  ASSUME NEW ps \in Seq(Payload), NEW key, NEW flag \in BOOLEAN
  PROVE  /\ WithPin(ps, key, flag) \in Seq(Payload)
         /\ Len(WithPin(ps, key, flag)) = Len(ps)
         /\ \A i \in DOMAIN ps :
              /\ WithPin(ps, key, flag)[i].key = ps[i].key
              /\ WithPin(ps, key, flag)[i].kind = ps[i].kind
              /\ WithPin(ps, key, flag)[i].summary = ps[i].summary
              /\ WithPin(ps, key, flag)[i].raw = ps[i].raw
<1> DEFINE qs == WithPin(ps, key, flag)
<1>1. DOMAIN ps = 1 .. Len(ps) /\ Len(ps) \in Nat
  OBVIOUS
<1>2. ASSUME NEW i \in DOMAIN ps
      PROVE  /\ qs[i] \in Payload
             /\ qs[i].key = ps[i].key
             /\ qs[i].kind = ps[i].kind
             /\ qs[i].summary = ps[i].summary
             /\ qs[i].raw = ps[i].raw
  <2>1. ps[i] \in Payload
    OBVIOUS
  <2>2. CASE ps[i].key = key
    <3>1. qs[i] = [ps[i] EXCEPT !.pinned = flag]
      BY <2>2 DEF WithPin
    <3> HIDE DEF qs
    <3>2. QED
      BY <2>1, <3>1 DEF Payload
  <2>3. CASE ps[i].key # key
    <3>1. qs[i] = ps[i]
      BY <2>3 DEF WithPin
    <3>2. QED
      BY <2>1, <3>1
  <2>4. QED
    BY <2>2, <2>3
<1>3. qs \in [1 .. Len(ps) -> Payload]
  BY <1>1, <1>2 DEF WithPin
<1>4. QED
  BY <1>1, <1>2, <1>3

(* Every variable keeps its type, and a key is tagged only if it was read. *)
THEOREM TypeCorrect == Spec => []TypeOK
<1>1. Init => TypeOK
  BY DEF Init, TypeOK
<1>2. TypeOK /\ [Next]_vars => TypeOK'
  <2> SUFFICES ASSUME TypeOK, [Next]_vars PROVE TypeOK'
    OBVIOUS
  <2> USE DEF TypeOK
  <2>1. ASSUME NEW g \in Goals, AddSubGoal(g) \/ ResolveSubGoal(g) PROVE TypeOK'
    BY <2>1 DEF AddSubGoal, ResolveSubGoal
  <2>2. ASSUME NEW f \in Facts, RecordSymbolFact(f) PROVE TypeOK'
    BY <2>2 DEF RecordSymbolFact
  <2>3. ASSUME NEW key \in Keys, NEW kind \in Kinds, NEW raw \in Sizes,
               NEW summary \in SummarySizes, NEW pinned \in BOOLEAN,
               RecordPayload(key, kind, raw, summary, pinned)
        PROVE  TypeOK'
    <3>1. NewPayload(key, kind, raw, summary, pinned) \in Payload
      BY DEF NewPayload, Payload
    <3>2. payloads' \in Seq(Payload)
      BY <2>3, <3>1 DEF RecordPayload
    <3>3. filesRead' \subseteq Keys /\ rereads' \subseteq filesRead'
      BY <2>3 DEF RecordPayload, RereadsAfter
    <3>4. QED
      BY <2>3, <3>2, <3>3 DEF RecordPayload, durable
  <2>4. ASSUME NEW key \in Keys, Pin(key) \/ Release(key) PROVE TypeOK'
    BY <2>4, PinShape DEF Pin, Release, SetPinned, durable
  <2>5. CASE Compact
    BY <2>5, CompactedShape DEF Compact, durable
  <2>6. CASE UNCHANGED vars
    BY <2>6 DEF vars
  <2>7. QED
    BY <2>1, <2>2, <2>3, <2>4, <2>5, <2>6 DEF Next
<1>3. QED
  BY <1>1, <1>2, PTL DEF Spec

(* No operation takes anything out of durable state or reopens a sub-goal. *)
THEOREM DurableStateIsKept == Spec => DurableStateSurvives
<1>1. [Next]_vars => [DurableGrows]_vars
  <2> SUFFICES ASSUME [Next]_vars PROVE DurableGrows
    OBVIOUS
  <2> USE DEF DurableGrows, durable
  <2>1. ASSUME NEW g \in Goals, AddSubGoal(g) \/ ResolveSubGoal(g) PROVE DurableGrows
    BY <2>1 DEF AddSubGoal, ResolveSubGoal
  <2>2. ASSUME NEW f \in Facts, RecordSymbolFact(f) PROVE DurableGrows
    BY <2>2 DEF RecordSymbolFact
  <2>3. ASSUME NEW key, NEW kind, NEW raw, NEW summary, NEW pinned,
               RecordPayload(key, kind, raw, summary, pinned)
        PROVE  DurableGrows
    BY <2>3 DEF RecordPayload
  <2>4. ASSUME NEW key \in Keys, Pin(key) \/ Release(key) PROVE DurableGrows
    BY <2>4 DEF Pin, Release, SetPinned
  <2>5. CASE Compact
    BY <2>5 DEF Compact
  <2>6. CASE UNCHANGED vars
    BY <2>6 DEF vars
  <2>7. QED
    BY <2>1, <2>2, <2>3, <2>4, <2>5, <2>6 DEF Next
<1>2. QED
  BY <1>1, PTL DEF Spec, DurableStateSurvives

(* The log of payloads is only appended to, pinned and summarised.         *)
THEOREM PayloadLogIsKept == Spec => PayloadLogPreserved
<1>1. TypeOK /\ [Next]_vars => [LogPreserved]_vars
  <2> SUFFICES ASSUME TypeOK, [Next]_vars PROVE LogPreserved
    OBVIOUS
  <2>0. payloads \in Seq(Payload) /\ Len(payloads) \in Nat
    BY DEF TypeOK
  <2>1. CASE UNCHANGED payloads
    BY <2>0, <2>1 DEF LogPreserved
  <2>2. ASSUME NEW key \in Keys, NEW kind \in Kinds, NEW raw \in Sizes,
               NEW summary \in SummarySizes, NEW pinned \in BOOLEAN,
               RecordPayload(key, kind, raw, summary, pinned)
        PROVE  LogPreserved
    <3>1. NewPayload(key, kind, raw, summary, pinned) \in Payload
      BY DEF NewPayload, Payload
    <3>2. QED
      BY <2>0, <2>2, <3>1 DEF RecordPayload, LogPreserved
  <2>3. ASSUME NEW key \in Keys, Pin(key) \/ Release(key) PROVE LogPreserved
    <3>1. PICK flag \in BOOLEAN : payloads' = WithPin(payloads, key, flag)
      BY <2>3 DEF Pin, Release, SetPinned
    <3>2. QED
      BY <2>0, <3>1, PinShape DEF LogPreserved
  <2>4. CASE Compact
    BY <2>0, <2>4, CompactedShape DEF Compact, LogPreserved
  <2>5. QED
    BY <2>1, <2>2, <2>3, <2>4
    DEF Next, vars, AddSubGoal, ResolveSubGoal, RecordSymbolFact
<1>2. QED
  BY <1>1, TypeCorrect, PTL DEF Spec, PayloadLogPreserved

(* Eviction spares the last payload of a log whose last payload is live.   *)
LEMMA LastSpared ==
  ASSUME NEW ps \in Seq(Payload), ps # <<>>, ~Evicted(ps[Len(ps)]),
         NEW goals, NEW known
  PROVE  ~Evicted(Compacted(ps, goals, known)[Len(ps)])
<1>1. Len(ps) \in Nat /\ Len(ps) \in DOMAIN ps /\ \A i \in DOMAIN ps : i <= Len(ps)
  OBVIOUS
<1>2. Len(ps) \in MostRecentLive(ps)
  BY <1>1 DEF MostRecentLive, Live
<1>3. Len(ps) \notin Evictable(ps)
  BY <1>2 DEF Evictable
<1>4. Evict(ps)[Len(ps)] = ps[Len(ps)]
  BY <1>1, <1>3 DEF Evict
<1>5. QED
  BY <1>4 DEF Compacted

(* The payload recorded last is live in every reachable state.             *)
THEOREM LatestStaysLive == Spec => []LatestPayloadLive
<1>1. Init => LatestPayloadLive
  BY DEF Init, LatestPayloadLive
<1>2. TypeOK /\ LatestPayloadLive /\ [Next]_vars => LatestPayloadLive'
  <2> SUFFICES ASSUME TypeOK, LatestPayloadLive, [Next]_vars
               PROVE  LatestPayloadLive'
    OBVIOUS
  <2>0. payloads \in Seq(Payload) /\ Len(payloads) \in Nat
    BY DEF TypeOK
  <2>1. CASE UNCHANGED payloads
    BY <2>1 DEF LatestPayloadLive, Evicted
  <2>2. ASSUME NEW key \in Keys, NEW kind \in Kinds, NEW raw \in Sizes,
               NEW summary \in SummarySizes, NEW pinned \in BOOLEAN,
               RecordPayload(key, kind, raw, summary, pinned)
        PROVE  LatestPayloadLive'
    <3> DEFINE p == NewPayload(key, kind, raw, summary, pinned)
    <3>1. p \in Payload /\ p.raw = raw
      BY DEF NewPayload, Payload
    <3>2. payloads' = Append(payloads, p)
      BY <2>2 DEF RecordPayload
    <3> HIDE DEF p
    <3>3. payloads'[Len(payloads')] = p
      BY <2>0, <3>1, <3>2
    <3>4. raw # Gone
      BY SizesAssumption DEF Gone
    <3>5. QED
      BY <3>1, <3>3, <3>4 DEF LatestPayloadLive, Evicted
  <2>3. ASSUME NEW key \in Keys, Pin(key) \/ Release(key) PROVE LatestPayloadLive'
    <3>0. PICK flag \in BOOLEAN : payloads' = WithPin(payloads, key, flag)
      BY <2>3 DEF Pin, Release, SetPinned
    <3>1. /\ Len(payloads') = Len(payloads)
          /\ \A i \in DOMAIN payloads : payloads'[i].raw = payloads[i].raw
          /\ payloads' \in Seq(Payload)
      BY <2>0, <3>0, PinShape
    <3>2. QED
      BY <2>0, <3>1 DEF LatestPayloadLive, Evicted
  <2>4. CASE Compact
    <3>1. payloads' \in Seq(Payload) /\ Len(payloads') = Len(payloads)
      BY <2>0, <2>4, CompactedShape DEF Compact
    <3>2. payloads # <<>> => ~Evicted(payloads'[Len(payloads)])
      BY <2>0, <2>4, LastSpared DEF Compact, LatestPayloadLive
    <3>3. QED
      BY <2>0, <3>1, <3>2 DEF LatestPayloadLive, Evicted
  <2>5. QED
    BY <2>1, <2>2, <2>3, <2>4
    DEF Next, vars, AddSubGoal, ResolveSubGoal, RecordSymbolFact
<1>3. QED
  BY <1>1, <1>2, TypeCorrect, PTL DEF Spec

(* One pass evicts all it may: a second finds nothing left to evict.       *)
LEMMA EvictOnce ==
  ASSUME NEW ps \in Seq(Payload)
  PROVE  Evict(Evict(ps)) = Evict(ps)
<1> DEFINE qs == Evict(ps)
<1>1. DOMAIN ps = 1 .. Len(ps) /\ DOMAIN qs = 1 .. Len(ps) /\ Len(ps) \in Nat
  BY DEF Evict
<1>2. \A i \in DOMAIN ps :
         /\ qs[i].pinned = ps[i].pinned
         /\ qs[i].raw = IF i \in Evictable(ps) THEN Gone ELSE ps[i].raw
  BY EvictShape
<1> HIDE DEF qs
<1>3. Live(qs) = Live(ps) \ Evictable(ps)
  BY <1>1, <1>2 DEF Live, Evicted, Evictable
<1>4. MostRecentLive(ps) \subseteq MostRecentLive(qs)
  BY <1>3 DEF MostRecentLive, Evictable
<1>5. Evictable(qs) = {}
  <2> SUFFICES ASSUME NEW i \in Evictable(qs) PROVE FALSE
    OBVIOUS
  <2>1. i \in Live(ps) /\ i \notin Evictable(ps) /\ i \notin MostRecentLive(ps) /\ ~qs[i].pinned
    BY <1>3, <1>4 DEF Evictable
  <2>2. i \in DOMAIN ps
    BY <2>1 DEF Live
  <2>3. QED
    BY <1>2, <2>1, <2>2 DEF Evictable
<1>6. Evict(qs) = [i \in DOMAIN qs |-> qs[i]]
  BY <1>5 DEF Evict
<1>7. qs = [i \in DOMAIN qs |-> qs[i]]
  BY DEF qs, Evict
<1>8. QED
  BY <1>6, <1>7 DEF qs

(* Compaction is idempotent in every reachable state.                      *)
THEOREM CompactionIsIdempotent == Spec => []CompactionIdempotent
<1>1. TypeOK => CompactionIdempotent
  BY EvictOnce DEF TypeOK, CompactionIdempotent, Compacted
<1>2. QED
  BY <1>1, TypeCorrect, PTL

(* One compaction reaches the floor: the threshold, or a log in which only *)
(* the last payload and the pinned ones keep their text.                   *)
THEOREM FloorIsReached == Spec => CompactionReachesFloor
<1>1. TypeOK /\ LatestPayloadLive /\ [Next]_vars => [Compact => AtTheFloor']_vars
  <2> SUFFICES ASSUME TypeOK, LatestPayloadLive, Compact PROVE AtTheFloor'
    OBVIOUS
  <2>1. payloads \in Seq(Payload) /\ Len(payloads) \in Nat
    BY DEF TypeOK
  <2>2. /\ payloads' = Compacted(payloads, subGoals, facts)
        /\ subGoals' = subGoals /\ facts' = facts
    BY DEF Compact, durable
  <2>3. CASE EstimatedTokens(payloads, subGoals, facts) <= Threshold
    BY <2>2, <2>3 DEF AtTheFloor, Compacted
  <2>4. CASE ~(EstimatedTokens(payloads, subGoals, facts) <= Threshold)
    <3>1. payloads' = Evict(payloads)
      BY <2>2, <2>4 DEF Compacted
    <3>2. ASSUME NEW i \in 1 .. Len(payloads) - 1
          PROVE  Evicted(payloads'[i]) \/ payloads'[i].pinned
      <4>1. i \in DOMAIN payloads /\ Len(payloads) \in DOMAIN payloads /\ i < Len(payloads)
        BY <2>1
      <4>2. Len(payloads) \in Live(payloads)
        BY <2>1, <4>1 DEF LatestPayloadLive, Live
      <4>3. i \notin MostRecentLive(payloads)
        BY <2>1, <4>1, <4>2 DEF MostRecentLive
      <4>4. /\ payloads'[i].pinned = payloads[i].pinned
            /\ payloads'[i].raw = IF i \in Evictable(payloads) THEN Gone ELSE payloads[i].raw
        BY <2>1, <3>1, <4>1, EvictShape
      <4>5. QED
        BY <4>1, <4>3, <4>4 DEF Evicted, Evictable, Live
    <3>3. Len(payloads') = Len(payloads)
      BY <2>1, <3>1, EvictShape
    <3>4. QED
      BY <3>2, <3>3 DEF AtTheFloor
  <2>5. QED
    BY <2>3, <2>4
<1>2. QED
  BY <1>1, TypeCorrect, LatestStaysLive, PTL DEF Spec, CompactionReachesFloor

(* The files read are those of the log, evicted texts included.            *)
FileAt(ps, i, k) == ps[i].key = k /\ ps[i].kind = "file"
ReadsInv == filesRead = {k \in Keys : \E i \in DOMAIN payloads : FileAt(payloads, i, k)}

(* A file is tagged exactly if the log holds it twice, whatever was        *)
(* evicted, pinned or read under other kinds in between.                   *)
THEOREM RereadsAreTagged == Spec => []RereadTagExact
<1>1. Init => ReadsInv /\ RereadTagExact
  BY DEF Init, ReadsInv, RereadTagExact
<1>2. TypeOK /\ TypeOK' /\ ReadsInv /\ RereadTagExact /\ [Next]_vars => ReadsInv' /\ RereadTagExact'
  <2> SUFFICES ASSUME TypeOK, TypeOK', ReadsInv, RereadTagExact, [Next]_vars
               PROVE  ReadsInv' /\ RereadTagExact'
    OBVIOUS
  <2>0. payloads \in Seq(Payload) /\ payloads' \in Seq(Payload) /\ Len(payloads) \in Nat
    BY DEF TypeOK
  <2>1. ASSUME UNCHANGED <<filesRead, rereads>>, DOMAIN payloads' = DOMAIN payloads,
               \A i \in DOMAIN payloads : payloads'[i].key = payloads[i].key
                                           /\ payloads'[i].kind = payloads[i].kind
        PROVE  ReadsInv' /\ RereadTagExact'
    BY <2>1 DEF ReadsInv, FileAt, RereadTagExact
  <2>2. ASSUME NEW key \in Keys, NEW kind \in Kinds, NEW raw \in Sizes,
               NEW summary \in SummarySizes, NEW pinned \in BOOLEAN,
               RecordPayload(key, kind, raw, summary, pinned)
        PROVE  ReadsInv' /\ RereadTagExact'
    <3> DEFINE n == Len(payloads) + 1
    <3>1. /\ n \notin DOMAIN payloads /\ DOMAIN payloads' = DOMAIN payloads \cup {n}
          /\ \A i \in DOMAIN payloads : payloads'[i] = payloads[i]
          /\ payloads'[n].key = key /\ payloads'[n].kind = kind
      BY <2>0, <2>2 DEF RecordPayload, NewPayload
    <3> HIDE DEF n
    <3>2. \A i \in DOMAIN payloads, k \in Keys : FileAt(payloads', i, k) <=> FileAt(payloads, i, k)
      BY <3>1 DEF FileAt
    <3>3. \A k \in Keys : FileAt(payloads', n, k) <=> k = key /\ kind = "file"
      BY <3>1 DEF FileAt
    <3>4. ReadsInv'
      <4>1. CASE kind = "file"
        <5>1. filesRead' = filesRead \cup {key}
          BY <2>2, <4>1 DEF RecordPayload
        <5>2. QED
          BY <3>1, <3>2, <3>3, <4>1, <5>1 DEF ReadsInv
      <4>2. CASE kind # "file"
        <5>1. filesRead' = filesRead
          BY <2>2, <4>2 DEF RecordPayload
        <5>2. QED
          BY <3>1, <3>2, <3>3, <4>2, <5>1 DEF ReadsInv
      <4>3. QED
        BY <4>1, <4>2
    <3>5. RereadTagExact'
      <4> DEFINE Twice(ps, k) == \E i, j \in DOMAIN ps : i # j /\ FileAt(ps, i, k) /\ FileAt(ps, j, k)
      <4>1. \A k \in Keys : k \in rereads <=> Twice(payloads, k)
        BY DEF RereadTagExact, FileAt
      <4>2. \A k \in Keys : k \in filesRead <=> \E i \in DOMAIN payloads : FileAt(payloads, i, k)
        BY DEF ReadsInv
      <4>3. \A k \in Keys : Twice(payloads', k) <=> Twice(payloads, k) \/ (k = key /\ kind = "file" /\ k \in filesRead)
        BY <3>1, <3>2, <3>3, <4>2
      <4>4. rereads' = rereads \cup {k \in {key} : kind = "file" /\ k \in filesRead}
        BY <2>2 DEF RecordPayload, RereadsAfter
      <4>5. rereads' \subseteq Keys
        BY <4>4 DEF TypeOK
      <4>6. \A k \in Keys : k \in rereads' <=> Twice(payloads', k)
        BY <4>1, <4>3, <4>4
      <4>7. rereads' = {k \in Keys : Twice(payloads', k)}
        BY <4>5, <4>6
      <4>8. QED
        BY <4>7 DEF RereadTagExact, FileAt
    <3>6. QED
      BY <3>4, <3>5
  <2>3. ASSUME NEW key \in Keys, Pin(key) \/ Release(key) PROVE ReadsInv' /\ RereadTagExact'
    <3>1. PICK flag \in BOOLEAN : SetPinned(key, flag)
      BY <2>3 DEF Pin, Release
    <3>2. QED
      BY <2>0, <2>1, <3>1, PinShape DEF SetPinned
  <2>4. CASE Compact
    BY <2>0, <2>1, <2>4, CompactedShape DEF Compact
  <2>5. CASE UNCHANGED <<payloads, filesRead, rereads>>
    BY <2>1, <2>5
  <2>6. QED
    BY <2>2, <2>3, <2>4, <2>5 DEF Next, vars, AddSubGoal, ResolveSubGoal, RecordSymbolFact
<1>3. QED
  BY <1>1, <1>2, TypeCorrect, PTL DEF Spec
=============================================================================
