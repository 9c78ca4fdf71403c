------------------------------ MODULE Context ------------------------------
(***************************************************************************)
(* The working memory of a run, agent/context.py: durable state (the plan  *)
(* and the symbol facts) beside raw tool payloads, which `compact`         *)
(* replaces by their summaries when the estimated footprint is over the    *)
(* threshold.  A text is modelled by its number of characters, the only    *)
(* thing about it that this component looks at; a sub-goal, a fact and a   *)
(* payload key are values compared by equality.  The plan is a set of      *)
(* descriptions and the subset resolved: add_sub_goal admits a description *)
(* once, and the order of the plan decides nothing.                        *)
(***************************************************************************)
EXTENDS Integers, FiniteSets, FiniteSetsExt, Sequences

CONSTANTS
    Keys,             \* payload keys: call ids, or paths of files
    Goals,            \* descriptions of sub-goals
    Facts,            \* symbol facts
    Sizes,            \* lengths of raw tool results, in characters
    SummarySizes,     \* lengths of summaries, in characters
    Threshold,        \* threshold_tokens
    TaskChars,        \* length of the task
    GoalChars,        \* length of a sub-goal's description
    FactChars,        \* length of a symbol fact
    MaxPayloads       \* bound on the payloads recorded in one run

ASSUME SizesAssumption == Sizes \subseteq Nat /\ SummarySizes \subseteq Nat
ASSUME ThresholdAssumption == Threshold \in Int
ASSUME CharsAssumption == TaskChars \in Nat /\ GoalChars \in Nat /\ FactChars \in Nat
ASSUME MaxPayloadsAssumption == MaxPayloads \in Nat

VARIABLES
    subGoals,         \* descriptions on the plan
    resolved,         \* those of them marked resolved
    facts,            \* _symbol_facts
    payloads,         \* _payloads, oldest first
    filesRead,        \* _files_read
    rereads           \* keys for which [CONTEXT REREAD] was emitted

vars == <<subGoals, resolved, facts, payloads, filesRead, rereads>>
durable == <<subGoals, resolved, facts>>

Kinds == {"file", "result"}
Gone == -1            \* Payload.raw once the payload is evicted

Payload == [key : Keys, kind : Kinds, summary : SummarySizes,
            raw : Sizes \cup {Gone}, pinned : BOOLEAN]

TypeOK ==
    /\ subGoals \subseteq Goals
    /\ resolved \subseteq subGoals
    /\ facts \subseteq Facts
    /\ payloads \in Seq(Payload)
    /\ filesRead \subseteq Keys
    /\ rereads \subseteq filesRead

Init ==
    /\ subGoals = {}
    /\ resolved = {}
    /\ facts = {}
    /\ payloads = <<>>
    /\ filesRead = {}
    /\ rereads = {}

-----------------------------------------------------------------------------
(* Footprint.                                                              *)
EstimateTokens(chars) == chars \div 4

Evicted(p) == p.raw = Gone

Footprint(p) == EstimateTokens(IF Evicted(p) THEN p.summary ELSE p.raw)

DurableTokens(goals, known) ==
    EstimateTokens(TaskChars + Cardinality(goals) * GoalChars
                             + Cardinality(known) * FactChars)

EstimatedTokens(ps, goals, known) ==
    DurableTokens(goals, known)
        + MapThenSumSet(LAMBDA i : Footprint(ps[i]), DOMAIN ps)

-----------------------------------------------------------------------------
(* Compaction, as a function of the payload list.                          *)
Live(ps) == {i \in DOMAIN ps : ~Evicted(ps[i])}

(* Faulty variants of Evictable: one payload goes per pass; pins are       *)
(* forgotten.                                                              *)
EvictableOneByOne(ps) == {i \in Live(ps) : ~ps[i].pinned /\ \A j \in Live(ps) : i <= j}
EvictableIgnoringPins(ps) == {i \in Live(ps) : \E j \in Live(ps) : i < j}

(* The last live payload, the one spared (at most one index).              *)
MostRecentLive(ps) == {i \in Live(ps) : \A j \in Live(ps) : j <= i}

Evictable(ps) == {i \in Live(ps) \ MostRecentLive(ps) : ~ps[i].pinned}

Evict(ps) ==
    [i \in DOMAIN ps |->
        IF i \in Evictable(ps) THEN [ps[i] EXCEPT !.raw = Gone] ELSE ps[i]]

Compacted(ps, goals, known) ==
    IF EstimatedTokens(ps, goals, known) <= Threshold THEN ps ELSE Evict(ps)

-----------------------------------------------------------------------------
(* Faulty variant: a resolved step is planned anew.                        *)
AddSubGoalAfresh(g) ==
    /\ subGoals' = subGoals \cup {g}
    /\ resolved' = resolved \ {g}
    /\ UNCHANGED <<facts, payloads, filesRead, rereads>>

AddSubGoal(g) ==
    /\ subGoals' = subGoals \cup {g}
    /\ UNCHANGED <<resolved, facts, payloads, filesRead, rereads>>

(* Lenient: a step the plan never listed is recorded as resolved.          *)
ResolveSubGoal(g) ==
    /\ subGoals' = subGoals \cup {g}
    /\ resolved' = resolved \cup {g}
    /\ UNCHANGED <<facts, payloads, filesRead, rereads>>

RecordSymbolFact(f) ==
    /\ facts' = facts \cup {f}
    /\ UNCHANGED <<subGoals, resolved, payloads, filesRead, rereads>>

NewPayload(key, kind, raw, summary, pinned) ==
    [key |-> key, kind |-> kind, summary |-> summary, raw |-> raw, pinned |-> pinned]

(* Faulty variant: the kind of the payload is not looked at.               *)
RereadAnyKind(key, kind) ==
    IF key \in filesRead THEN rereads \cup {key} ELSE rereads

(* Keys tagged after recording: a FILE read again under the same key.      *)
RereadsAfter(key, kind) ==
    IF kind = "file" /\ key \in filesRead THEN rereads \cup {key} ELSE rereads

RecordPayload(key, kind, raw, summary, pinned) ==
    /\ payloads' = Append(payloads, NewPayload(key, kind, raw, summary, pinned))
    /\ rereads' = RereadsAfter(key, kind)
    /\ filesRead' = IF kind = "file" THEN filesRead \cup {key} ELSE filesRead
    /\ UNCHANGED durable

(* Every payload recorded under the key, evicted ones included.            *)
WithPin(ps, key, flag) ==
    [i \in DOMAIN ps |->
        IF ps[i].key = key THEN [ps[i] EXCEPT !.pinned = flag] ELSE ps[i]]

SetPinned(key, flag) ==
    /\ payloads' = WithPin(payloads, key, flag)
    /\ UNCHANGED <<durable, filesRead, rereads>>

Pin(key) == SetPinned(key, TRUE)
Release(key) == SetPinned(key, FALSE)

Compact ==
    /\ payloads' = Compacted(payloads, subGoals, facts)
    /\ UNCHANGED <<durable, filesRead, rereads>>

Next ==
    \/ \E g \in Goals : AddSubGoal(g) \/ ResolveSubGoal(g)
    \/ \E f \in Facts : RecordSymbolFact(f)
    \/ /\ Len(payloads) < MaxPayloads
       /\ \E key \in Keys, kind \in Kinds, raw \in Sizes,
             summary \in SummarySizes, pinned \in BOOLEAN :
             RecordPayload(key, kind, raw, summary, pinned)
    \/ \E key \in Keys : Pin(key) \/ Release(key)
    \/ Compact

Spec == Init /\ [][Next]_vars

-----------------------------------------------------------------------------
(* Durable state is never lost and a resolved sub-goal is never reopened,  *)
(* whatever is recorded, compacted, or planned again (context.py:5-20,     *)
(* 166-180): the property a twenty-call session relies on.                 *)
DurableGrows ==
    /\ subGoals \subseteq subGoals'
    /\ resolved \subseteq resolved'
    /\ facts \subseteq facts'

DurableStateSurvives == [][DurableGrows]_vars

(* The payload log only grows at its end, an evicted payload never comes   *)
(* back to life, no live text is changed, and what is pinned stays raw:    *)
(* compaction, pinning and recording, in any order, rewrite nothing else.  *)
LogPreserved ==
    /\ Len(payloads) <= Len(payloads')
    /\ \A i \in DOMAIN payloads :
         /\ payloads'[i].key = payloads[i].key
         /\ payloads'[i].summary = payloads[i].summary
         /\ payloads'[i].raw \in {payloads[i].raw, Gone}
         /\ payloads[i].pinned => payloads'[i].raw = payloads[i].raw

PayloadLogPreserved == [][LogPreserved]_vars

(* However many compactions a run goes through, the payload recorded last  *)
(* is never the one that lost its text (context.py:262-265).               *)
LatestPayloadLive ==
    payloads # <<>> => ~Evicted(payloads[Len(payloads)])

(* A second compaction changes nothing: one pass reaches the floor the     *)
(* policy allows, even when that floor is still over the threshold.        *)
CompactionIdempotent ==
    LET once == Compacted(payloads, subGoals, facts)
    IN  Compacted(once, subGoals, facts) = once

(* [CONTEXT REREAD] is emitted for exactly the files recorded twice, no    *)
(* matter what was evicted in between (context.py:220-223).                *)
RereadTagExact ==
    rereads = {k \in Keys : \E i, j \in DOMAIN payloads :
                 /\ i # j
                 /\ payloads[i].key = k /\ payloads[i].kind = "file"
                 /\ payloads[j].key = k /\ payloads[j].kind = "file"}

(* After a compaction the footprint is within the threshold, or every text *)
(* but the spared one and the pinned ones is gone (context.py:262-265).    *)
AtTheFloor ==
    \/ EstimatedTokens(payloads, subGoals, facts) <= Threshold
    \/ \A i \in 1 .. Len(payloads) - 1 : Evicted(payloads[i]) \/ payloads[i].pinned

CompactionReachesFloor == [][Compact => AtTheFloor']_vars
=============================================================================
