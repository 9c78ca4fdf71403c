-------------------------- MODULE AgentLoopProofs --------------------------
(***************************************************************************)
(* The loop for every ceiling, batch size, set of tools, calls the model   *)
(* may make, sizes of results and threshold.                               *)
(***************************************************************************)
EXTENDS AgentLoop, FiniteSetTheorems, WellFoundedInduction, TLAPS

(* A non-empty set of positions of a sequence has a last one.              *)
LEMMA LastPosition ==
  ASSUME NEW n \in Nat, NEW S, S \subseteq 1 .. n, S # {}
  PROVE  \E i \in S : \A j \in S : j <= i
<1> DEFINE T == {n - i : i \in S}
<1>0. PICK k \in S : TRUE
  OBVIOUS
<1>1. T \subseteq Nat /\ T # {}
  <2>1. ASSUME NEW i \in S PROVE n - i \in Nat
    BY SMT
  <2>2. n - k \in T
    OBVIOUS
  <2>3. QED
    BY <2>1, <2>2
<1>2. \E x \in T : \A y \in T : ~(<<y, x>> \in OpToRel(<, Nat))
  BY <1>1, WFMin, NatLessThanWellFounded
<1>3. PICK x \in T : \A y \in T : ~(y < x)
  BY <1>1, <1>2 DEF OpToRel
<1>4. PICK i \in S : x = n - i
  BY <1>3
<1>5. ASSUME NEW j \in S PROVE j <= i
  BY <1>3, <1>4
<1>6. QED
  BY <1>4, <1>5

-----------------------------------------------------------------------------
(* What compaction does to the payloads and to the transcript.             *)

LEMMA CompactedShape ==
  ASSUME NEW ps \in Seq(Memory!Payload), NEW goals
  PROVE  LET qs == Memory!Compacted(ps, goals, {})
         IN  /\ qs \in Seq(Memory!Payload)
             /\ Len(qs) = Len(ps)
             /\ \A i \in DOMAIN ps : qs[i].key = ps[i].key
<1> DEFINE qs == Memory!Evict(ps)
<1>1. DOMAIN ps = 1 .. Len(ps) /\ Len(ps) \in Nat
  OBVIOUS
<1>2. ASSUME NEW i \in DOMAIN ps
      PROVE  qs[i] \in Memory!Payload /\ qs[i].key = ps[i].key
  <2>1. ps[i] \in Memory!Payload
    OBVIOUS
  <2>2. CASE i \in Memory!Evictable(ps)
    <3>1. qs[i] = [ps[i] EXCEPT !.raw = Memory!Gone]
      BY <2>2 DEF Memory!Evict
    <3> HIDE DEF qs
    <3>2. QED
      BY <2>1, <3>1 DEF Memory!Payload
  <2>3. CASE i \notin Memory!Evictable(ps)
    <3>1. qs[i] = ps[i]
      BY <2>3 DEF Memory!Evict
    <3>2. QED
      BY <2>1, <3>1
  <2>4. QED
    BY <2>2, <2>3
<1>3. qs \in [1 .. Len(ps) -> Memory!Payload]
  BY <1>1, <1>2 DEF Memory!Evict
<1>4. qs \in Seq(Memory!Payload) /\ Len(qs) = Len(ps)
  BY <1>1, <1>3
<1>5. QED
  BY <1>2, <1>4 DEF Memory!Compacted

LEMMA SyncShape ==
  ASSUME wire \in Seq(Messages), NEW ps \in Seq(Memory!Payload)
  PROVE  /\ Synced(ps) \in Seq(Messages)
         /\ Len(Synced(ps)) = Len(wire)
         /\ \A m \in DOMAIN wire : /\ Synced(ps)[m].id = wire[m].id
                                   /\ Synced(ps)[m].call = wire[m].call
                                   /\ Synced(ps)[m].verdict = wire[m].verdict
<1> DEFINE ws == Synced(ps)
           es(m) == EvictedUnder(wire[m].id, ps)
<1>1. DOMAIN wire = 1 .. Len(wire) /\ Len(wire) \in Nat
  OBVIOUS
<1>2. ASSUME NEW m \in DOMAIN wire
      PROVE  /\ ws[m] \in Messages
             /\ ws[m].id = wire[m].id
             /\ ws[m].call = wire[m].call
             /\ ws[m].verdict = wire[m].verdict
  <2>1. wire[m] \in Messages
    OBVIOUS
  <2>2. CASE m \in LastWith(wire[m].id) /\ es(m) # {}
    <3> DEFINE last == CHOOSE i \in es(m) : \A j \in es(m) : j <= i
    <3>1. ws[m] = [wire[m] EXCEPT !.of = last, !.form = "summary"]
      BY <2>2 DEF Synced
    <3>2. last \in Nat
      <4>1. es(m) \subseteq 1 .. Len(ps) /\ Len(ps) \in Nat
        BY DEF EvictedUnder
      <4>2. \E i \in es(m) : \A j \in es(m) : j <= i
        BY <2>2, <4>1, LastPosition
      <4> HIDE DEF es
      <4>3. last \in es(m)
        BY <4>2
      <4>4. QED
        BY <4>1, <4>3
    <3> HIDE DEF last, ws
    <3>3. QED
      BY <2>1, <3>1, <3>2 DEF Messages
  <2>3. CASE ~(m \in LastWith(wire[m].id) /\ es(m) # {})
    <3>1. ws[m] = wire[m]
      BY <2>3 DEF Synced
    <3>2. QED
      BY <2>1, <3>1
  <2>4. QED
    BY <2>2, <2>3
<1>3. ws \in [1 .. Len(wire) -> Messages]
  BY <1>1, <1>2 DEF Synced
<1>4. QED
  BY <1>1, <1>2, <1>3

-----------------------------------------------------------------------------
(* What each stretch of the loop does to the variables the invariants are  *)
(* about, out of the way of the proofs that use it.                        *)

LEMMA CallIsAsked ==
  ASSUME TypeOK, NEW call \in Calls, NEW verdict, NEW size \in Sizes \cup {AckSize},
         batch # <<>>, Len(asked) = calls + Len(batch)
  PROVE  /\ asked[calls + 1] \in Nat
         /\ verdict \in Registry!Verdicts => ToolMessage(call, verdict) \in Messages
         /\ ToolMessage(call, verdict).id = asked[calls + 1]
         /\ Memory!NewPayload(asked[calls + 1], "result", size, SummarySize, FALSE)
              \in Memory!Payload
<1>1. calls + 1 \in DOMAIN asked
  BY DEF TypeOK
<1>2. asked[calls + 1] \in Nat
  BY <1>1 DEF TypeOK
<1>3. Len(payloads) + 1 \in Nat
  BY DEF TypeOK
<1>4. QED
  BY <1>2, <1>3
  DEF ToolMessage, Messages, Memory!NewPayload, Memory!Payload, Memory!Kinds

LEMMA RegistryType ==
  ASSUME TypeOK, NEW call \in Calls, NEW verdict, Registry!Dispatch(call, verdict)
  PROVE  tools' = Tools /\ loaded' \subseteq Tools /\ lastWasSearch' \in BOOLEAN
BY DEF TypeOK, Registry!Dispatch, Registry!Search, Registry!Load, Registry!Acknowledge,
       Registry!Malformed, Registry!Invoke, Registry!vars

LEMMA PlanType ==
  ASSUME TypeOK, NEW call \in Calls, PlanVerb(call)
  PROVE  subGoals' \subseteq Goals /\ resolved' \subseteq subGoals'
<1>1. call.goals \subseteq Goals
  BY CallsAssumption DEF ToolCalls
<1>2. Added(call) \subseteq Goals /\ Done(call) \subseteq Goals
  BY <1>1, StripAssumption DEF Added, Done
<1>3. QED
  BY <1>2 DEF TypeOK, PlanVerb

-----------------------------------------------------------------------------
(* The inductive invariant of the loop.  What CallsAnsweredInOrder lacks   *)
(* is the accounting inside a turn: the calls counted are the ones         *)
(* answered, and the ones asked for are those plus the rest of the batch.  *)
LoopInv ==
    /\ TypeOK
    /\ \A i \in DOMAIN wire : wire[i].id = asked[i]
    /\ Len(wire) <= Len(asked)
    /\ phase # "over" => Len(wire) = calls /\ Len(asked) = calls + Len(batch)
    /\ phase = "turn" => batch = <<>>

LEMMA LoopInvInitial == Init => LoopInv
<1> SUFFICES ASSUME Init PROVE LoopInv
  OBVIOUS
<1>0. /\ <<>> \in Seq(Calls) /\ <<>> \in Seq(Nat) /\ <<>> \in Seq(Messages)
      /\ <<>> \in Seq(Memory!Payload)
  OBVIOUS
<1>1. TypeOK
  BY <1>0, LoadedAssumption, Zenon DEF Init, TypeOK, Outcomes
<1>2. Len(wire) = 0 /\ Len(asked) = 0 /\ Len(batch) = 0 /\ DOMAIN wire = {}
  BY DEF Init
<1>3. QED
  BY <1>1, <1>2 DEF Init, LoopInv

LEMMA AskKeepsLoopInv ==
  ASSUME LoopInv, NEW b \in Batches, AskForCalls(b)
  PROVE  LoopInv'
<1> DEFINE ids == [i \in 1 .. Len(b) |-> CallId(Len(asked) + i)]
<1>1. b \in Seq(Calls) /\ Len(b) \in Nat
  BY DEF Batches
<1>2. asked \in Seq(Nat) /\ Len(asked) \in Nat
  BY DEF LoopInv, TypeOK
<1>3. ids \in Seq(Nat) /\ Len(ids) = Len(b)
  <2>1. ASSUME NEW i \in 1 .. Len(b) PROVE CallId(Len(asked) + i) \in Nat
    BY <1>1, <1>2 DEF CallId
  <2>2. QED
    BY <1>1, <2>1
<1>4. asked' = asked \o ids
  BY DEF AskForCalls
<1> HIDE DEF ids
<1>5. /\ asked' \in Seq(Nat)
      /\ Len(asked') = Len(asked) + Len(b)
      /\ \A i \in DOMAIN asked : asked'[i] = asked[i]
  BY <1>2, <1>3, <1>4
<1>6. TypeOK'
  BY <1>1, <1>5 DEF LoopInv, TypeOK, AskForCalls, registryVars, memoryVars
<1>7. wire' = wire /\ calls' = calls /\ phase = "turn" /\ phase' = "dispatch" /\ batch' = b
  BY DEF AskForCalls
<1>8. \A i \in DOMAIN wire : i \in DOMAIN asked
  BY <1>2 DEF LoopInv, TypeOK
<1>9. Len(wire) = calls /\ Len(asked) = calls
  BY <1>2, <1>7 DEF LoopInv, TypeOK
<1>10. \A i \in DOMAIN wire' : wire'[i].id = asked'[i]
  BY <1>5, <1>7, <1>8 DEF LoopInv
<1>11. calls \in Nat
  BY DEF LoopInv, TypeOK
<1>12. Len(wire') <= Len(asked') /\ Len(asked') = calls' + Len(batch')
  BY <1>1, <1>5, <1>7, <1>9, <1>11
<1>13. QED
  BY <1>6, <1>7, <1>9, <1>10, <1>12 DEF LoopInv

LEMMA EscapeKeepsLoopInv ==
  ASSUME LoopInv, NEW call \in Calls, ToolEscapes(call)
  PROVE  LoopInv'
<1>1. Registry!Dispatch(call, "escape")
  BY DEF ToolEscapes, TakeCall
<1>2. tools' = Tools /\ loaded' \subseteq Tools /\ lastWasSearch' \in BOOLEAN
  BY <1>1, RegistryType DEF LoopInv
<1>3. /\ phase' = "over" /\ outcome' = "tool_escape"
      /\ batch' = Tail(batch) /\ batch # <<>> /\ calls' = calls + 1
      /\ UNCHANGED <<asked, wire, finished, memoryVars>>
  BY DEF ToolEscapes, TakeCall, End, Record
<1>4. TypeOK'
  BY <1>2, <1>3 DEF LoopInv, TypeOK, Outcomes, memoryVars
<1>5. QED
  BY <1>3, <1>4 DEF LoopInv

LEMMA DispatchKeepsLoopInv ==
  ASSUME LoopInv, NEW call \in Calls, NEW verdict \in Registry!Verdicts,
         NEW size \in Sizes \cup {AckSize}, DispatchCall(call, verdict, size)
  PROVE  LoopInv'
<1> DEFINE msg == ToolMessage(call, verdict)
           load == Memory!NewPayload(asked[calls + 1], "result", size, SummarySize, FALSE)
<1>1. /\ phase = "dispatch" /\ batch # <<>> /\ batch' = Tail(batch)
      /\ calls' = calls + 1 /\ asked' = asked
      /\ wire' = Append(wire, msg) /\ payloads' = Append(payloads, load)
      /\ PlanVerb(call) /\ Registry!Dispatch(call, verdict)
  BY DEF DispatchCall, TakeCall, Record, Fold
<1>2. Len(wire) = calls /\ Len(asked) = calls + Len(batch)
  BY <1>1 DEF LoopInv
<1>3. /\ msg \in Messages /\ msg.id = asked[calls + 1]
      /\ load \in Memory!Payload
  BY <1>1, <1>2, CallIsAsked DEF LoopInv
<1>4. tools' = Tools /\ loaded' \subseteq Tools /\ lastWasSearch' \in BOOLEAN
  BY <1>1, RegistryType DEF LoopInv
<1>5. subGoals' \subseteq Goals /\ resolved' \subseteq subGoals'
  BY <1>1, PlanType DEF LoopInv
<1>6. /\ phase' \in {"dispatch", "over"} /\ outcome' \in Outcomes
      /\ finished' \in Nat
  BY <1>1 DEF LoopInv, TypeOK, Outcomes, DispatchCall, End, FirstFinish
<1> HIDE DEF msg, load
<1>7. TypeOK'
  <2>1. wire' \in Seq(Messages) /\ payloads' \in Seq(Memory!Payload)
    BY <1>1, <1>3 DEF LoopInv, TypeOK
  <2>2. batch' \in Seq(Calls) /\ calls' \in Nat
    BY <1>1 DEF LoopInv, TypeOK
  <2>3. QED
    BY <1>1, <1>4, <1>5, <1>6, <2>1, <2>2 DEF LoopInv, TypeOK
<1>8. ASSUME NEW i \in DOMAIN wire' PROVE wire'[i].id = asked'[i]
  <2>1. wire \in Seq(Messages) /\ Len(wire) \in Nat
    BY DEF LoopInv, TypeOK
  <2>2. CASE i \in DOMAIN wire
    <3>1. wire'[i] = wire[i]
      BY <1>1, <1>3, <2>1, <2>2
    <3>2. QED
      BY <1>1, <2>2, <3>1 DEF LoopInv
  <2>3. CASE i \notin DOMAIN wire
    <3>1. i = Len(wire) + 1 /\ wire'[i] = msg
      BY <1>1, <1>3, <2>1, <2>3
    <3>2. QED
      BY <1>1, <1>2, <1>3, <3>1
  <2>4. QED
    BY <2>2, <2>3
<1>9. Len(wire') = calls' /\ Len(asked') = calls' + Len(batch') /\ Len(wire') <= Len(asked')
  BY <1>1, <1>2 DEF LoopInv, TypeOK
<1>10. QED
  BY <1>6, <1>7, <1>8, <1>9 DEF LoopInv

LEMMA CloseKeepsLoopInv ==
  ASSUME LoopInv, CloseTurn
  PROVE  LoopInv'
<1>1. /\ phase = "dispatch" /\ batch = <<>> /\ phase' \in {"turn", "over"}
      /\ outcome' \in {outcome, "finished"}
      /\ UNCHANGED <<calls, batch, asked, finished, registryVars, subGoals, resolved>>
  BY DEF CloseTurn, End
<1>2. payloads' \in Seq(Memory!Payload)
  BY CompactedShape DEF CloseTurn, CompactMemory, LoopInv, TypeOK
<1>3. wire' = wire \/ wire' = Synced(payloads')
  BY DEF CloseTurn, CompactMemory
<1>4. /\ wire' \in Seq(Messages) /\ Len(wire') = Len(wire)
      /\ \A m \in DOMAIN wire : wire'[m].id = wire[m].id
  BY <1>2, <1>3, SyncShape DEF LoopInv, TypeOK
<1>5. TypeOK'
  BY <1>1, <1>2, <1>4 DEF LoopInv, TypeOK, Outcomes, registryVars
<1>6. DOMAIN wire' = DOMAIN wire
  BY <1>4 DEF LoopInv, TypeOK
<1>7. QED
  BY <1>1, <1>4, <1>5, <1>6 DEF LoopInv

LEMMA LoopInvInductive == LoopInv /\ [Next]_vars => LoopInv'
<1> SUFFICES ASSUME LoopInv, [Next]_vars PROVE LoopInv'
  OBVIOUS
<1>1. CASE Abort \/ ModelRaises \/ Answer
  <2>1. /\ phase' = "over" /\ outcome' \in Outcomes
        /\ UNCHANGED <<calls, batch, asked, wire, finished, registryVars, memoryVars>>
    BY <1>1 DEF Abort, ModelRaises, Answer, End, Outcomes
  <2>2. TypeOK'
    BY <2>1 DEF LoopInv, TypeOK, registryVars, memoryVars
  <2>3. QED
    BY <2>1, <2>2 DEF LoopInv
<1>2. CASE UNCHANGED vars
  <2>1. TypeOK'
    BY <1>2 DEF LoopInv, TypeOK, vars, loopVars, registryVars, memoryVars
  <2>2. QED
    BY <1>2, <2>1 DEF LoopInv, vars, loopVars
<1>3. QED
  BY <1>1, <1>2, AskKeepsLoopInv, EscapeKeepsLoopInv, DispatchKeepsLoopInv, CloseKeepsLoopInv
  DEF Next, Over

LEMMA LoopInvInvariant == SafeSpec => []LoopInv
BY LoopInvInitial, LoopInvInductive, PTL DEF SafeSpec

(* Every variable of the loop keeps its type.                              *)
THEOREM TypeCorrect == SafeSpec => []TypeOK
<1>1. LoopInv => TypeOK
  BY DEF LoopInv
<1>2. QED
  BY <1>1, LoopInvInvariant, PTL

(* Before every model request every requested call has been answered by    *)
(* exactly one tool message, in the order asked.                           *)
THEOREM AnsweredInOrder == SafeSpec => []CallsAnsweredInOrder
<1>1. LoopInv => CallsAnsweredInOrder
  BY DEF LoopInv, TypeOK, CallsAnsweredInOrder
<1>2. QED
  BY <1>1, LoopInvInvariant, PTL

-----------------------------------------------------------------------------
(* The loop implements BoundedRun, its liveness aside: every step is a     *)
(* step of the counter or changes nothing it looks at.  With               *)
(* BoundedRunProofs, the overshoot of the ceiling is bounded for the real  *)
(* loop, whatever the tools and the registry do.                           *)
THEOREM LoopIsBounded == SafeSpec => Bounded!SafeSpec
<1>1. Init => Bounded!Init
  BY DEF Init, Bounded!Init
<1>2. LoopInv /\ [Next]_vars => [Bounded!Next]_(Bounded!vars)
  <2> SUFFICES ASSUME LoopInv, [Next]_vars PROVE [Bounded!Next]_(Bounded!vars)
    OBVIOUS
  <2>0. batch \in Seq(Calls) /\ calls \in Nat
    BY DEF LoopInv, TypeOK
  <2>1. CASE Abort
    <3>1. Bounded!Abort
      BY <2>1 DEF Abort, Bounded!Abort, Bounded!Tripped, Bounded!End, Tripped, End
    <3>2. QED
      BY <3>1 DEF Bounded!Next
  <2>2. CASE ModelRaises \/ Answer
    <3>1. Bounded!EndAtModel
      BY <2>2 DEF ModelRaises, Answer, Bounded!EndAtModel, Bounded!Tripped, Bounded!End,
                  Tripped, End
    <3>2. QED
      BY <3>1 DEF Bounded!Next
  <2>3. ASSUME NEW b \in Batches, AskForCalls(b) PROVE Bounded!Next
    <3>1. Len(b) \in 1 .. MaxBatch
      BY BatchAssumption DEF Batches
    <3>2. Bounded!AskForCalls(Len(b))
      BY <2>3 DEF AskForCalls, Bounded!AskForCalls, Bounded!Tripped, Tripped
    <3>3. QED
      BY <3>1, <3>2 DEF Bounded!Next
  <2>4. ASSUME NEW call \in Calls, NEW verdict,
               TakeCall(call, verdict),
               (UNCHANGED <<phase, outcome>>) \/ End("tool_escape") \/ End("verb_crash")
        PROVE  Bounded!Next
    <3>1. phase = "dispatch" /\ Len(batch) > 0 /\ Len(batch') = Len(batch) - 1
          /\ calls' = calls + 1
      BY <2>0, <2>4 DEF TakeCall, Record
    <3>2. Bounded!Dispatch
      BY <2>4, <3>1 DEF Bounded!Dispatch, Bounded!Record, Bounded!End, End
    <3>3. QED
      BY <3>2 DEF Bounded!Next
  <2>5. ASSUME NEW call \in Calls, ToolEscapes(call) PROVE Bounded!Next
    BY <2>4, <2>5 DEF ToolEscapes
  <2>6. ASSUME NEW call \in Calls, NEW verdict, NEW size, DispatchCall(call, verdict, size)
        PROVE  Bounded!Next
    BY <2>4, <2>6 DEF DispatchCall
  <2>7. CASE CloseTurn
    <3>1. Len(batch) = 0
      BY <2>7 DEF CloseTurn
    <3>2. Bounded!CloseTurn
      BY <2>7, <3>1 DEF CloseTurn, Bounded!CloseTurn, Bounded!End, End
    <3>3. QED
      BY <3>2 DEF Bounded!Next
  <2>8. CASE UNCHANGED vars
    BY <2>8 DEF vars, loopVars, Bounded!vars
  <2>9. QED
    BY <2>1, <2>2, <2>3, <2>5, <2>6, <2>7, <2>8 DEF Next, Over
<1>3. QED
  BY <1>1, <1>2, LoopInvInvariant, PTL DEF SafeSpec, Bounded!SafeSpec

-----------------------------------------------------------------------------
(* The transcript grows by one message per dispatched call, and otherwise  *)
(* keeps the call and the verdict of every message it has.                 *)
Kept == /\ Len(wire') = Len(wire)
        /\ \A m \in DOMAIN wire : /\ wire'[m].call = wire[m].call
                                  /\ wire'[m].verdict = wire[m].verdict

Grown(call, verdict) ==
    /\ Len(wire') = Len(wire) + 1
    /\ \A m \in DOMAIN wire : wire'[m] = wire[m]
    /\ wire'[Len(wire) + 1].call = call
    /\ wire'[Len(wire) + 1].verdict = verdict

LEMMA DispatchGrows ==
  ASSUME LoopInv, NEW call \in Calls, NEW verdict \in Registry!Verdicts,
         NEW size \in Sizes \cup {AckSize}, DispatchCall(call, verdict, size)
  PROVE  Grown(call, verdict)
<1> DEFINE msg == ToolMessage(call, verdict)
<1>1. wire' = Append(wire, msg) /\ batch # <<>> /\ phase = "dispatch"
  BY DEF DispatchCall, TakeCall, Fold
<1>2. msg \in Messages
  BY <1>1, CallIsAsked DEF LoopInv
<1>3. msg.call = call /\ msg.verdict = verdict
  BY DEF ToolMessage
<1> HIDE DEF msg
<1>4. wire \in Seq(Messages)
  BY DEF LoopInv, TypeOK
<1>5. QED
  BY <1>1, <1>2, <1>3, <1>4 DEF Grown

LEMMA CloseKeeps ==
  ASSUME LoopInv, CloseTurn
  PROVE  Kept
<1>1. payloads' \in Seq(Memory!Payload)
  BY CompactedShape DEF CloseTurn, CompactMemory, LoopInv, TypeOK
<1>2. wire' = wire \/ wire' = Synced(payloads')
  BY DEF CloseTurn, CompactMemory
<1>3. QED
  BY <1>1, <1>2, SyncShape DEF Kept, LoopInv, TypeOK

(* The finish taken as the result is the first of the transcript and was   *)
(* accepted; while none is taken, none is in the transcript.               *)
FirstAccepted ==
    /\ finished \in DOMAIN wire
    /\ wire[finished].call.name = FINISH
    /\ wire[finished].verdict = "ok"
    /\ \A i \in 1 .. finished - 1 : wire[i].call.name # FINISH

FinishInv ==
    /\ phase # "over" => outcome = "none"
    /\ phase = "turn" => finished = 0
    /\ phase # "over" /\ finished = 0 => \A i \in DOMAIN wire : wire[i].call.name # FINISH
    /\ phase # "over" /\ finished # 0 => FirstAccepted
    /\ outcome = "finished" => FirstAccepted

LEMMA KeptAccepted ==
  ASSUME LoopInv, LoopInv', Kept, finished' = finished, FirstAccepted
  PROVE  FirstAccepted'
<1>1. DOMAIN wire' = DOMAIN wire /\ DOMAIN wire = 1 .. Len(wire) /\ Len(wire) \in Nat
  BY DEF LoopInv, TypeOK, Kept
<1>2. finished \in Nat /\ \A i \in 1 .. finished - 1 : i \in DOMAIN wire
  BY <1>1 DEF FirstAccepted
<1>3. QED
  BY <1>1, <1>2 DEF Kept, FirstAccepted

(* A run that reports `finished` reports the first finish the model called *)
(* and the registry accepted.                                              *)
THEOREM FinishCorrect == SafeSpec => []FinishIsFirstAccepted
<1>1. Init => FinishInv
  BY DEF Init, FinishInv
<1>2. LoopInv /\ LoopInv' /\ FinishInv /\ [Next]_vars => FinishInv'
  <2> SUFFICES ASSUME LoopInv, LoopInv', FinishInv, [Next]_vars PROVE FinishInv'
    OBVIOUS
  <2>0. /\ wire \in Seq(Messages) /\ wire' \in Seq(Messages)
        /\ finished \in Nat /\ Len(wire) \in Nat
    BY DEF LoopInv, TypeOK
  <2>1. CASE Abort \/ ModelRaises \/ Answer
    <3>1. /\ phase' = "over" /\ outcome' # "finished"
      BY <2>1 DEF Abort, ModelRaises, Answer, End
    <3>2. QED
      BY <3>1 DEF FinishInv
  <2>2. ASSUME NEW b \in Batches, AskForCalls(b) PROVE FinishInv'
    <3>1. /\ phase = "turn" /\ phase' = "dispatch" /\ outcome' = outcome
          /\ finished' = 0 /\ wire' = wire
      BY <2>2 DEF AskForCalls
    <3>2. QED
      BY <3>1 DEF FinishInv
  <2>3. ASSUME NEW call \in Calls, ToolEscapes(call) PROVE FinishInv'
    BY <2>3 DEF ToolEscapes, End, FinishInv
  <2>4. ASSUME NEW call \in Calls, NEW verdict \in Registry!Verdicts,
               NEW size \in Sizes \cup {AckSize}, DispatchCall(call, verdict, size)
        PROVE  FinishInv'
    <3>1. Grown(call, verdict) /\ phase = "dispatch"
      BY <2>4, DispatchGrows DEF DispatchCall, TakeCall
    <3>2. CASE VerbCrashes(call, verdict)
      BY <2>4, <3>2 DEF DispatchCall, End, FinishInv
    <3>3. CASE ~VerbCrashes(call, verdict)
      <4>1. finished' = FirstFinish(call) /\ phase' = "dispatch" /\ outcome' = "none"
        BY <2>4, <3>1, <3>3 DEF DispatchCall, FinishInv
      <4>2. CASE finished # 0
        <5>1. finished' = finished /\ FirstAccepted
          BY <3>1, <4>1, <4>2 DEF FirstFinish, FinishInv
        <5>2. FirstAccepted'
          BY <2>0, <3>1, <5>1 DEF FirstAccepted, Grown
        <5>3. QED
          BY <4>1, <4>2, <5>1, <5>2 DEF FinishInv
      <4>3. CASE finished = 0 /\ call.name = FINISH
        <5>1. finished' = Len(wire) + 1 /\ verdict = "ok"
          BY <3>3, <4>1, <4>3 DEF FirstFinish, VerbCrashes
        <5>2. \A i \in 1 .. Len(wire) : wire'[i].call.name # FINISH
          BY <2>0, <3>1, <4>3 DEF FinishInv, Grown
        <5>3. FirstAccepted'
          BY <2>0, <3>1, <4>3, <5>1, <5>2 DEF FirstAccepted, Grown
        <5>4. QED
          BY <2>0, <4>1, <5>1, <5>3 DEF FinishInv
      <4>4. CASE finished = 0 /\ call.name # FINISH
        <5>1. finished' = 0
          BY <4>1, <4>4 DEF FirstFinish
        <5>2. \A i \in DOMAIN wire' : wire'[i].call.name # FINISH
          BY <2>0, <3>1, <4>4 DEF FinishInv, Grown
        <5>3. QED
          BY <4>1, <5>1, <5>2 DEF FinishInv
      <4>5. QED
        BY <4>2, <4>3, <4>4
    <3>4. QED
      BY <3>2, <3>3
  <2>5. CASE CloseTurn
    <3>1. Kept /\ finished' = finished /\ phase = "dispatch"
      BY <2>5, CloseKeeps DEF CloseTurn
    <3>2. CASE finished # 0
      <4>1. phase' = "over" /\ FirstAccepted'
        BY <2>5, <3>1, <3>2, KeptAccepted DEF CloseTurn, End, FinishInv
      <4>2. QED
        BY <4>1 DEF FinishInv
    <3>3. CASE finished = 0
      <4>1. phase' = "turn" /\ outcome' = "none"
        BY <2>5, <3>1, <3>3 DEF CloseTurn, FinishInv
      <4>2. DOMAIN wire' = DOMAIN wire
        BY <2>0, <3>1 DEF Kept
      <4>3. \A i \in DOMAIN wire' : wire'[i].call.name # FINISH
        BY <3>1, <3>3, <4>2 DEF FinishInv, Kept
      <4>4. QED
        BY <3>1, <3>3, <4>1, <4>3 DEF FinishInv
    <3>4. QED
      BY <3>2, <3>3
  <2>6. CASE UNCHANGED vars
    BY <2>6 DEF FinishInv, FirstAccepted, vars, loopVars
  <2>7. QED
    BY <2>1, <2>2, <2>3, <2>4, <2>5, <2>6 DEF Next, Over
<1>3. FinishInv => FinishIsFirstAccepted
  BY DEF FinishInv, FirstAccepted, FinishIsFirstAccepted
<1>4. QED
  BY <1>1, <1>2, <1>3, LoopInvInvariant, PTL DEF SafeSpec

-----------------------------------------------------------------------------
(* Whatever is loaded was loaded before the run or by an accepted          *)
(* load_tool of the transcript, up to position n.                          *)
LoadedBy(t, n) ==
    \/ t \in InitiallyLoaded
    \/ \E j \in 1 .. n : /\ wire[j].call.name = LOAD
                         /\ wire[j].call.tool = t
                         /\ wire[j].verdict = "ok"

LoadInv ==
    /\ LoadedBeforeUse
    /\ \A t \in loaded : LoadedBy(t, Len(wire))

(* Discovery is forced: a tool that ran was loaded earlier in the run.     *)
THEOREM DiscoveryForced == SafeSpec => []LoadedBeforeUse
<1>1. Init => LoadInv
  BY DEF Init, LoadInv, LoadedBeforeUse, LoadedBy
<1>2. LoopInv /\ LoopInv' /\ LoadInv /\ [Next]_vars => LoadInv'
  <2> SUFFICES ASSUME LoopInv, LoopInv', LoadInv, [Next]_vars PROVE LoadInv'
    OBVIOUS
  <2>0. /\ wire \in Seq(Messages) /\ wire' \in Seq(Messages) /\ Len(wire) \in Nat
        /\ DOMAIN wire = 1 .. Len(wire) /\ DOMAIN wire' = 1 .. Len(wire')
    BY DEF LoopInv, TypeOK
  <2>1. CASE UNCHANGED <<wire, loaded>>
    BY <2>1 DEF LoadInv, LoadedBeforeUse, LoadedBy
  <2>2. ASSUME NEW call \in Calls, ToolEscapes(call) PROVE LoadInv'
    <3>1. UNCHANGED <<wire, loaded>>
      BY <2>2 DEF ToolEscapes, TakeCall, Registry!Dispatch, Registry!Search, Registry!Load,
                  Registry!Acknowledge, Registry!Malformed, Registry!Invoke, Registry!vars
    <3>2. QED
      BY <2>1, <3>1
  <2>3. ASSUME NEW call \in Calls, NEW verdict \in Registry!Verdicts,
               NEW size \in Sizes \cup {AckSize}, DispatchCall(call, verdict, size)
        PROVE  LoadInv'
    <3>1. Grown(call, verdict) /\ Registry!Dispatch(call, verdict)
      BY <2>3, DispatchGrows DEF DispatchCall, TakeCall
    <3>2. ASSUME NEW t, LoadedBy(t, Len(wire)) PROVE LoadedBy(t, Len(wire))'
      <4>1. CASE t \in InitiallyLoaded
        BY <4>1 DEF LoadedBy
      <4>2. ASSUME NEW j \in 1 .. Len(wire), wire[j].call.name = LOAD,
                   wire[j].call.tool = t, wire[j].verdict = "ok"
            PROVE  LoadedBy(t, Len(wire))'
        <5>1. wire'[j] = wire[j] /\ j \in 1 .. Len(wire')
          BY <2>0, <3>1 DEF Grown
        <5>2. QED
          BY <4>2, <5>1 DEF LoadedBy
      <4>3. QED
        BY <3>2, <4>1, <4>2 DEF LoadedBy
    <3>3. \A t \in loaded' : t \in loaded \/ LoadedBy(t, Len(wire))'
      <4>1. \A t \in loaded' : t \in loaded \/ (call.name = LOAD /\ call.tool = t /\ verdict = "ok")
        <5>1. \/ loaded' = loaded
              \/ /\ call.name = LOAD /\ verdict = "ok"
                 /\ loaded' = loaded \cup {call.tool}
          BY <3>1, Zenon
          DEF Registry!Dispatch, Registry!Search, Registry!Load, LOAD,
              Registry!Acknowledge, Registry!Malformed, Registry!Invoke, Registry!vars
        <5>2. QED
          BY <5>1
      <4>2. ASSUME NEW t, call.name = LOAD, call.tool = t, verdict = "ok"
            PROVE  LoadedBy(t, Len(wire))'
        <5>1. Len(wire) + 1 \in 1 .. Len(wire')
          BY <2>0, <3>1 DEF Grown
        <5>2. QED
          BY <3>1, <4>2, <5>1 DEF LoadedBy, Grown
      <4>3. QED
        BY <4>1, <4>2
    <3>4. \A t \in loaded' : LoadedBy(t, Len(wire))'
      BY <3>2, <3>3 DEF LoadInv
    <3>5. call.name \notin Registry!CoreNames /\ verdict # "NotFoundError"
            => LoadedBy(call.name, Len(wire))
      BY <3>1 DEF LoadInv, Registry!Dispatch, Registry!Invoke, Registry!CoreNames,
                  Registry!ProtocolNames
    <3>6. ASSUME NEW i \in DOMAIN wire',
                 wire'[i].call.name \notin Registry!CoreNames,
                 wire'[i].verdict # "NotFoundError"
          PROVE  \/ wire'[i].call.name \in InitiallyLoaded
                 \/ \E j \in 1 .. i - 1 : /\ wire'[j].call.name = LOAD
                                          /\ wire'[j].call.tool = wire'[i].call.name
                                          /\ wire'[j].verdict = "ok"
      <4>1. CASE i \in DOMAIN wire
        <5>1. /\ wire'[i] = wire[i] /\ i \in Nat
              /\ \A j \in 1 .. i - 1 : j \in DOMAIN wire /\ wire'[j] = wire[j]
          BY <2>0, <3>1, <4>1 DEF Grown
        <5>2. QED
          BY <3>6, <4>1, <5>1 DEF LoadInv, LoadedBeforeUse
      <4>2. CASE i \notin DOMAIN wire
        <5>1. i = Len(wire) + 1 /\ wire'[i].call = call /\ wire'[i].verdict = verdict
          BY <2>0, <3>1, <4>2 DEF Grown
        <5>2. LoadedBy(call.name, Len(wire))
          BY <3>5, <3>6, <5>1
        <5>3. QED
          BY <2>0, <3>1, <5>1, <5>2 DEF LoadedBy, Grown
      <4>3. QED
        BY <4>1, <4>2
    <3>7. QED
      BY <3>4, <3>6 DEF LoadInv, LoadedBeforeUse
  <2>4. CASE CloseTurn
    <3>1. Kept /\ loaded' = loaded
      BY <2>4, CloseKeeps DEF CloseTurn, registryVars
    <3>2. ASSUME NEW t, LoadedBy(t, Len(wire)) PROVE LoadedBy(t, Len(wire))'
      BY <2>0, <3>1, <3>2 DEF LoadedBy, Kept
    <3>3. LoadedBeforeUse'
      <4>1. \A i \in DOMAIN wire' : i \in DOMAIN wire /\ i \in Nat
               /\ \A j \in 1 .. i - 1 : j \in DOMAIN wire
        BY <2>0, <3>1 DEF Kept
      <4>2. QED
        BY <3>1, <4>1 DEF LoadInv, LoadedBeforeUse, Kept
    <3>4. QED
      BY <3>1, <3>2, <3>3 DEF LoadInv
  <2>5. QED
    BY <2>1, <2>2, <2>3, <2>4
    DEF Next, Over, vars, loopVars, registryVars, Abort, ModelRaises, Answer, AskForCalls
<1>3. LoadInv => LoadedBeforeUse
  BY DEF LoadInv
<1>4. QED
  BY <1>1, <1>2, <1>3, LoopInvInvariant, PTL DEF SafeSpec

-----------------------------------------------------------------------------
(* A union over a domain that gains one position.                          *)
LEMMA UnionGrows ==
  ASSUME NEW D, NEW n, n \notin D, NEW F, NEW G,
         \A i \in D : G[i] = F[i]
  PROVE  UNION {G[i] : i \in D \cup {n}} = (UNION {F[i] : i \in D}) \cup G[n]
<1> DEFINE U == UNION {G[i] : i \in D \cup {n}}
           V == (UNION {F[i] : i \in D}) \cup G[n]
<1>1. ASSUME NEW x \in U PROVE x \in V
  <2>1. PICK i \in D \cup {n} : x \in G[i]
    OBVIOUS
  <2>2. QED
    BY <2>1
<1>2. ASSUME NEW x \in V PROVE x \in U
  <2>1. CASE x \in G[n]
    BY <2>1
  <2>2. ASSUME NEW i \in D, x \in F[i] PROVE x \in U
    BY <2>2
  <2>3. QED
    BY <2>1, <2>2
<1>3. QED
  BY <1>1, <1>2

(* The durable plan is what the plan verbs of the transcript add up to:    *)
(* nothing planned is lost, nothing resolved is reopened.                  *)
THEOREM PlanCorrect == SafeSpec => []PlanIsSumOfVerbs
<1>1. Init => PlanIsSumOfVerbs
  BY DEF Init, PlanIsSumOfVerbs
<1>2. LoopInv /\ LoopInv' /\ PlanIsSumOfVerbs /\ [Next]_vars => PlanIsSumOfVerbs'
  <2> SUFFICES ASSUME LoopInv, LoopInv', PlanIsSumOfVerbs, [Next]_vars
               PROVE  PlanIsSumOfVerbs'
    OBVIOUS
  <2>0. /\ Len(wire) \in Nat /\ DOMAIN wire = 1 .. Len(wire)
        /\ DOMAIN wire' = 1 .. Len(wire')
    BY DEF LoopInv, TypeOK
  <2>1. CASE UNCHANGED <<wire, subGoals, resolved>>
    BY <2>1 DEF PlanIsSumOfVerbs, Added, Done
  <2>2. ASSUME NEW call \in Calls, NEW verdict \in Registry!Verdicts,
               NEW size \in Sizes \cup {AckSize}, DispatchCall(call, verdict, size)
        PROVE  PlanIsSumOfVerbs'
    <3>1. Grown(call, verdict) /\ PlanVerb(call)
      BY <2>2, DispatchGrows DEF DispatchCall
    <3>2. /\ DOMAIN wire' = DOMAIN wire \cup {Len(wire) + 1}
          /\ Len(wire) + 1 \notin DOMAIN wire
          /\ wire'[Len(wire) + 1].call = call
          /\ \A i \in DOMAIN wire : wire'[i].call = wire[i].call
      BY <2>0, <3>1 DEF Grown
    <3> DEFINE done == UNION {Done(wire[i].call) : i \in DOMAIN wire}
               added == UNION {Added(wire[i].call) : i \in DOMAIN wire}
    <3>3. done' = done \cup Done(call)
      BY <3>2, UnionGrows
    <3>4. added' = added \cup Added(call)
      BY <3>2, UnionGrows
    <3>5. resolved = done /\ subGoals = added \cup done
      BY DEF PlanIsSumOfVerbs
    <3>6. SUFFICES resolved' = done' /\ subGoals' = added' \cup done'
      BY DEF PlanIsSumOfVerbs
    <3> HIDE DEF done, added
    <3>7. QED
      BY <3>1, <3>3, <3>4, <3>5 DEF PlanVerb
  <2>3. CASE CloseTurn
    <3>1. Kept /\ UNCHANGED <<subGoals, resolved>>
      BY <2>3, CloseKeeps DEF CloseTurn
    <3>2. DOMAIN wire' = DOMAIN wire
      BY <2>0, <3>1 DEF Kept
    <3>3. UNION {Done(wire'[i].call) : i \in DOMAIN wire'}
            = UNION {Done(wire[i].call) : i \in DOMAIN wire}
      BY <3>1, <3>2 DEF Kept
    <3>4. UNION {Added(wire'[i].call) : i \in DOMAIN wire'}
            = UNION {Added(wire[i].call) : i \in DOMAIN wire}
      BY <3>1, <3>2 DEF Kept
    <3>5. QED
      BY <3>1, <3>3, <3>4 DEF PlanIsSumOfVerbs
  <2>4. QED
    BY <2>1, <2>2, <2>3
    DEF Next, Over, vars, loopVars, memoryVars, Abort, ModelRaises, Answer, AskForCalls,
        ToolEscapes
<1>3. QED
  BY <1>1, <1>2, LoopInvInvariant, PTL DEF SafeSpec

-----------------------------------------------------------------------------
(* The transcript and the working memory of the loop agree, and the        *)
(* footprint of what the model is sent does not accumulate, for runs of    *)
(* any length.                                                             *)

(* One compaction: what it does to each payload.                           *)
LEMMA EvictFields ==
  ASSUME NEW ps \in Seq(Memory!Payload), NEW i \in DOMAIN ps
  PROVE  /\ Memory!Evict(ps)[i].pinned = ps[i].pinned
         /\ Memory!Evict(ps)[i].raw = IF i \in Memory!Evictable(ps) THEN Memory!Gone
                                      ELSE ps[i].raw
<1>1. ps[i] \in Memory!Payload
  OBVIOUS
<1>2. CASE i \in Memory!Evictable(ps)
  <2>1. Memory!Evict(ps)[i] = [ps[i] EXCEPT !.raw = Memory!Gone]
    BY <1>2 DEF Memory!Evict
  <2>2. QED
    BY <1>1, <1>2, <2>1 DEF Memory!Payload
<1>3. CASE i \notin Memory!Evictable(ps)
  BY <1>3 DEF Memory!Evict
<1>4. QED
  BY <1>2, <1>3

(* A set with at most one element has at most one element.                 *)
LEMMA AtMostOne ==
  ASSUME NEW S, \A x, y \in S : x = y
  PROVE  Cardinality(S) <= 1
<1>1. CASE S = {}
  BY <1>1, FS_EmptySet
<1>2. ASSUME NEW x \in S PROVE Cardinality(S) <= 1
  <2>1. S = {x}
    OBVIOUS
  <2>2. QED
    BY <2>1, FS_Singleton
<1>3. QED
  BY <1>1, <1>2

-----------------------------------------------------------------------------
(* The loop pins nothing, the last payload is live, and at the top of a    *)
(* turn the footprint is under control.                                    *)
MemoryInv ==
    /\ \A i \in DOMAIN payloads : ~payloads[i].pinned
    /\ payloads # <<>> => ~Memory!Evicted(payloads[Len(payloads)])
    /\ FootprintControlled

LEMMA DispatchRecords ==
  ASSUME LoopInv, NEW call \in Calls, NEW verdict \in Registry!Verdicts,
         NEW size \in Sizes \cup {AckSize}, DispatchCall(call, verdict, size)
  PROVE  /\ Len(payloads') = Len(payloads) + 1
         /\ \A i \in DOMAIN payloads : payloads'[i] = payloads[i]
         /\ payloads'[Len(payloads) + 1].key = asked[calls + 1]
         /\ payloads'[Len(payloads) + 1].pinned = FALSE
         /\ payloads'[Len(payloads) + 1].raw \in Nat
<1> DEFINE load == Memory!NewPayload(asked[calls + 1], "result", size, SummarySize, FALSE)
<1>1. payloads' = Append(payloads, load) /\ batch # <<>> /\ phase = "dispatch"
  BY DEF DispatchCall, TakeCall, Fold
<1>2. load \in Memory!Payload
  BY <1>1, CallIsAsked DEF LoopInv
<1>3. load.key = asked[calls + 1] /\ load.pinned = FALSE /\ load.raw \in Nat
  BY SizesAssumption DEF Memory!NewPayload
<1> HIDE DEF load
<1>4. payloads \in Seq(Memory!Payload)
  BY DEF LoopInv, TypeOK
<1>5. QED
  BY <1>1, <1>2, <1>3, <1>4

LEMMA CompactionFloor ==
  ASSUME NEW ps \in Seq(Memory!Payload), NEW goals,
         \A i \in DOMAIN ps : ~ps[i].pinned,
         ps # <<>> => ~Memory!Evicted(ps[Len(ps)])
  PROVE  LET qs == Memory!Compacted(ps, goals, {})
         IN  /\ \A i \in DOMAIN qs : ~qs[i].pinned
             /\ qs # <<>> => ~Memory!Evicted(qs[Len(qs)])
             /\ \A i \in DOMAIN qs : Memory!Evicted(ps[i]) => Memory!Evicted(qs[i])
             /\ \/ Memory!EstimatedTokens(qs, goals, {}) <= Threshold
                \/ Cardinality(Memory!Live(qs)) <= 1
<1> DEFINE es == Memory!Evict(ps)
<1>1. /\ DOMAIN ps = 1 .. Len(ps) /\ DOMAIN es = 1 .. Len(ps) /\ Len(es) = Len(ps)
      /\ Len(ps) \in Nat
  BY DEF Memory!Evict
<1>2. \A i \in DOMAIN ps :
         /\ ~es[i].pinned
         /\ es[i].raw = IF i \in Memory!Evictable(ps) THEN Memory!Gone ELSE ps[i].raw
  BY EvictFields
<1> HIDE DEF es
<1>3. Memory!Live(es) \subseteq Memory!MostRecentLive(ps)
  BY <1>1, <1>2 DEF Memory!Live, Memory!Evicted, Memory!Evictable
<1>4. \A i, j \in Memory!MostRecentLive(ps) : i = j
  <2>1. Memory!MostRecentLive(ps) \subseteq Nat
    BY <1>1 DEF Memory!MostRecentLive, Memory!Live
  <2>2. QED
    BY <2>1 DEF Memory!MostRecentLive
<1>5. Cardinality(Memory!Live(es)) <= 1
  BY <1>3, <1>4, AtMostOne
<1>6. ps # <<>> => ~Memory!Evicted(es[Len(es)])
  <2> SUFFICES ASSUME ps # <<>> PROVE ~Memory!Evicted(es[Len(es)])
    OBVIOUS
  <2>1. Len(ps) \in Memory!MostRecentLive(ps)
    BY <1>1 DEF Memory!MostRecentLive, Memory!Live
  <2>2. es[Len(ps)].raw = ps[Len(ps)].raw
    BY <1>1, <1>2, <2>1 DEF Memory!Evictable
  <2>3. QED
    BY <1>1, <2>2 DEF Memory!Evicted
<1>7. \A i \in DOMAIN ps : Memory!Evicted(ps[i]) => Memory!Evicted(es[i])
  BY <1>2 DEF Memory!Evicted
<1>8. es # <<>> => ps # <<>>
  BY <1>1
<1>9. CASE Memory!EstimatedTokens(ps, goals, {}) <= Threshold
  BY <1>9 DEF Memory!Compacted
<1>10. CASE ~(Memory!EstimatedTokens(ps, goals, {}) <= Threshold)
  <2>1. Memory!Compacted(ps, goals, {}) = es
    BY <1>10 DEF Memory!Compacted, es
  <2>2. QED
    BY <1>1, <1>2, <1>5, <1>6, <1>7, <1>8, <2>1
<1>11. QED
  BY <1>9, <1>10

(* Every model request is within the threshold or carries one raw result.  *)
LEMMA MemoryInvInvariant == SafeSpec => []MemoryInv
<1>1. Init => MemoryInv
  <2> SUFFICES ASSUME Init PROVE MemoryInv
    OBVIOUS
  <2>1. DOMAIN payloads = {} /\ payloads = <<>>
    BY DEF Init
  <2>2. Cardinality(Memory!Live(payloads)) <= 1
    BY <2>1, AtMostOne DEF Memory!Live
  <2>3. QED
    BY <2>1, <2>2 DEF MemoryInv, FootprintControlled
<1>2. LoopInv /\ MemoryInv /\ [Next]_vars => MemoryInv'
  <2> SUFFICES ASSUME LoopInv, MemoryInv, [Next]_vars PROVE MemoryInv'
    OBVIOUS
  <2>0. payloads \in Seq(Memory!Payload) /\ Len(payloads) \in Nat
    BY DEF LoopInv, TypeOK
  <2>1. CASE UNCHANGED payloads /\ (phase' # "turn" \/ UNCHANGED <<phase, subGoals>>)
    <3>1. FootprintControlled'
      BY <2>1 DEF MemoryInv, FootprintControlled
    <3>2. QED
      BY <2>1, <3>1 DEF MemoryInv
  <2>2. ASSUME NEW call \in Calls, NEW verdict \in Registry!Verdicts,
               NEW size \in Sizes \cup {AckSize}, DispatchCall(call, verdict, size)
        PROVE  MemoryInv'
    <3>1. phase' # "turn"
      BY <2>2 DEF DispatchCall, TakeCall, End
    <3>2. DOMAIN payloads' = 1 .. Len(payloads) + 1 /\ DOMAIN payloads = 1 .. Len(payloads)
      BY <2>0, <2>2 DEF DispatchCall, Fold
    <3>r. /\ Len(payloads') = Len(payloads) + 1
          /\ \A i \in DOMAIN payloads : payloads'[i] = payloads[i]
          /\ payloads'[Len(payloads) + 1].pinned = FALSE
          /\ payloads'[Len(payloads) + 1].raw \in Nat
      BY <2>2, DispatchRecords
    <3>3. \A i \in DOMAIN payloads' : ~payloads'[i].pinned
      BY <2>0, <3>2, <3>r DEF MemoryInv
    <3>4. ~Memory!Evicted(payloads'[Len(payloads')])
      BY <2>0, <3>r DEF Memory!Evicted, Memory!Gone
    <3>5. QED
      BY <3>1, <3>3, <3>4 DEF MemoryInv, FootprintControlled, Memory!Evicted
  <2>3. CASE CloseTurn
    <3>1. payloads' = Memory!Compacted(payloads, subGoals, {}) /\ subGoals' = subGoals
      BY <2>3 DEF CloseTurn, CompactMemory
    <3>2. QED
      BY <2>0, <3>1, CompactionFloor
      DEF MemoryInv, FootprintControlled, Memory!Evicted
  <2>4. QED
    BY <2>1, <2>2, <2>3
    DEF Next, Over, vars, loopVars, memoryVars, Abort, ModelRaises, Answer, AskForCalls,
        ToolEscapes, End
<1>3. QED
  BY <1>1, <1>2, LoopInvInvariant, PTL DEF SafeSpec

(* Every model request is within the threshold or carries one raw result.  *)
THEOREM FootprintStaysControlled == SafeSpec => []FootprintControlled
<1>1. MemoryInv => FootprintControlled
  BY DEF MemoryInv
<1>2. QED
  BY <1>1, MemoryInvInvariant, PTL

-----------------------------------------------------------------------------
(* With a provider that gives every call an id of its own, the payload and *)
(* the message of a call are found under that id, and nothing else is.     *)
MirrorInv ==
    /\ WireMirrorsMemory
    /\ \A i \in DOMAIN asked : asked[i] = i
    /\ \A i \in DOMAIN payloads : payloads[i].key = i

LEMMA SyncedOwn ==
  ASSUME LoopInv, MirrorInv, NEW ps \in Seq(Memory!Payload), Len(ps) = Len(wire),
         \A i \in DOMAIN ps : ps[i].key = i,
         NEW m \in DOMAIN wire
  PROVE  /\ Synced(ps)[m].of = m
         /\ Memory!Evicted(ps[m]) => Synced(ps)[m].form = "summary"
         /\ ~Memory!Evicted(ps[m]) => Synced(ps)[m].form = wire[m].form
<1>1. wire[m] \in Messages /\ DOMAIN ps = DOMAIN wire /\ DOMAIN wire \subseteq Nat
      /\ DOMAIN wire = 1 .. Len(wire) /\ DOMAIN asked = 1 .. Len(asked)
      /\ Len(wire) \in Nat /\ Len(asked) \in Nat
  BY DEF LoopInv, TypeOK
<1>2. \A i \in DOMAIN wire : wire[i].id = i
  BY <1>1 DEF LoopInv, MirrorInv
<1>3. LastWith(wire[m].id) = {m}
  BY <1>1, <1>2 DEF LastWith
<1>4. EvictedUnder(wire[m].id, ps) = IF Memory!Evicted(ps[m]) THEN {m} ELSE {}
  BY <1>1, <1>2 DEF EvictedUnder
<1>5. wire[m].of = m
  BY DEF MirrorInv, WireMirrorsMemory
<1>6. CASE Memory!Evicted(ps[m])
  <2>1. (CHOOSE i \in {m} : \A j \in {m} : j <= i) = m
    BY <1>1
  <2>2. EvictedUnder(wire[m].id, ps) = {m}
    BY <1>4, <1>6
  <2>3. Synced(ps)[m] = [wire[m] EXCEPT !.of = CHOOSE i \in {m} : \A j \in {m} : j <= i,
                                        !.form = "summary"]
    BY <1>3, <2>2 DEF Synced
  <2>4. Synced(ps)[m] = [wire[m] EXCEPT !.of = m, !.form = "summary"]
    BY <2>1, <2>3
  <2>5. QED
    BY <1>1, <1>6, <2>4 DEF Messages
<1>7. CASE ~Memory!Evicted(ps[m])
  <2>1. EvictedUnder(wire[m].id, ps) = {}
    BY <1>4, <1>7
  <2>2. Synced(ps)[m] = wire[m]
    BY <2>1 DEF Synced
  <2>3. QED
    BY <1>5, <1>7, <2>2
<1>8. QED
  BY <1>6, <1>7

(* The transcript shows a result raw exactly as long as memory holds it,   *)
(* and its own summary afterwards.                                         *)
LEMMA MirrorInvInvariant == ASSUME ~ReusesIds PROVE SafeSpec => []MirrorInv
<1>1. Init => MirrorInv
  BY DEF Init, MirrorInv, WireMirrorsMemory
<1>2. LoopInv /\ LoopInv' /\ MemoryInv /\ MirrorInv /\ [Next]_vars => MirrorInv'
  <2> SUFFICES ASSUME LoopInv, LoopInv', MemoryInv, MirrorInv, [Next]_vars PROVE MirrorInv'
    OBVIOUS
  <2>0. /\ payloads \in Seq(Memory!Payload) /\ payloads' \in Seq(Memory!Payload)
        /\ wire \in Seq(Messages) /\ wire' \in Seq(Messages) /\ asked \in Seq(Nat)
        /\ Len(wire) = Len(payloads) /\ Len(wire) \in Nat
        /\ DOMAIN wire = 1 .. Len(wire) /\ DOMAIN payloads = 1 .. Len(wire)
        /\ DOMAIN wire' = 1 .. Len(wire') /\ DOMAIN payloads' = 1 .. Len(payloads')
        /\ DOMAIN asked = 1 .. Len(asked) /\ Len(asked) \in Nat
    BY DEF LoopInv, TypeOK, MirrorInv, WireMirrorsMemory
  <2>1. CASE UNCHANGED <<asked, wire, payloads>>
    BY <2>1 DEF MirrorInv, WireMirrorsMemory, Memory!Evicted
  <2>2. ASSUME NEW b \in Batches, AskForCalls(b) PROVE MirrorInv'
    <3>1. UNCHANGED <<wire, payloads>>
          /\ asked' = asked \o [i \in 1 .. Len(b) |-> Len(asked) + i]
      BY <2>2 DEF AskForCalls, memoryVars, CallId
    <3>2. Len(b) \in Nat
      BY DEF Batches
    <3>3. \A i \in DOMAIN asked' : asked'[i] = i
      BY <2>0, <3>1, <3>2 DEF MirrorInv
    <3>4. QED
      BY <3>1, <3>3 DEF MirrorInv, WireMirrorsMemory, Memory!Evicted
  <2>3. ASSUME NEW call \in Calls, NEW verdict \in Registry!Verdicts,
               NEW size \in Sizes \cup {AckSize}, DispatchCall(call, verdict, size)
        PROVE  MirrorInv'
    <3>1. /\ Len(payloads') = Len(payloads) + 1
          /\ \A i \in DOMAIN payloads : payloads'[i] = payloads[i]
          /\ payloads'[Len(payloads) + 1].key = asked[calls + 1]
          /\ payloads'[Len(payloads) + 1].raw \in Nat
      BY <2>3, DispatchRecords
    <3>2. /\ phase = "dispatch" /\ batch # <<>> /\ asked' = asked
          /\ wire' = Append(wire, ToolMessage(call, verdict))
      BY <2>3 DEF DispatchCall, TakeCall, Fold
    <3>3. Len(wire) = calls /\ calls + 1 \in DOMAIN asked /\ calls \in Nat
      BY <3>2 DEF LoopInv, TypeOK
    <3>4. asked[calls + 1] = Len(payloads) + 1
      BY <2>0, <3>3 DEF MirrorInv
    <3> DEFINE msg == ToolMessage(call, verdict)
    <3>5. msg.of = Len(payloads) + 1 /\ msg.form = "raw"
      BY DEF ToolMessage
    <3>6. msg \in Messages
      BY <3>2, CallIsAsked DEF LoopInv
    <3> HIDE DEF msg
    <3>7. /\ Len(wire') = Len(wire) + 1
          /\ \A i \in DOMAIN wire : wire'[i] = wire[i]
          /\ wire'[Len(wire) + 1] = msg
      BY <2>0, <3>2, <3>6 DEF msg
    <3>8. ASSUME NEW i \in DOMAIN wire'
          PROVE  /\ wire'[i].of = i
                 /\ (wire'[i].form = "summary") <=> Memory!Evicted(payloads'[i])
                 /\ payloads'[i].key = i
      <4>1. CASE i \in DOMAIN wire
        BY <2>0, <3>1, <3>7, <4>1 DEF MirrorInv, WireMirrorsMemory
      <4>2. CASE i = Len(wire) + 1
        BY <2>0, <3>1, <3>4, <3>5, <3>7, <4>2 DEF Memory!Evicted, Memory!Gone
      <4>3. QED
        BY <2>0, <3>7, <4>1, <4>2
    <3>9. Len(wire') = Len(payloads') /\ DOMAIN payloads' = DOMAIN wire'
      BY <2>0, <3>1, <3>7
    <3>10. \A i \in DOMAIN asked' : asked'[i] = i
      BY <3>2 DEF MirrorInv
    <3>11. QED
      BY <3>8, <3>9, <3>10 DEF MirrorInv, WireMirrorsMemory
  <2>4. CASE CloseTurn
    <3>1. /\ payloads' = Memory!Compacted(payloads, subGoals, {}) /\ asked' = asked
          /\ wire' = IF payloads' = payloads THEN wire ELSE Synced(payloads')
      BY <2>4 DEF CloseTurn, CompactMemory
    <3>2. CASE payloads' = payloads
      BY <2>1, <3>1, <3>2
    <3>3. CASE payloads' # payloads
      <4>1. /\ Len(payloads') = Len(payloads)
            /\ \A i \in DOMAIN payloads : payloads'[i].key = payloads[i].key
        BY <2>0, <3>1, CompactedShape
      <4>2. \A i \in DOMAIN payloads' :
              Memory!Evicted(payloads[i]) => Memory!Evicted(payloads'[i])
        BY <2>0, <3>1, CompactionFloor DEF MemoryInv
      <4>3. DOMAIN payloads' = DOMAIN wire /\ \A i \in DOMAIN payloads' : payloads'[i].key = i
        BY <2>0, <4>1 DEF MirrorInv
      <4>4. wire' = Synced(payloads') /\ Len(wire') = Len(wire) /\ DOMAIN wire' = DOMAIN wire
        BY <2>0, <3>1, <3>3, SyncShape
      <4>5. ASSUME NEW m \in DOMAIN wire
            PROVE  /\ wire'[m].of = m
                   /\ (wire'[m].form = "summary") <=> Memory!Evicted(payloads'[m])
        <5>1. /\ wire'[m].of = m
              /\ Memory!Evicted(payloads'[m]) => wire'[m].form = "summary"
              /\ ~Memory!Evicted(payloads'[m]) => wire'[m].form = wire[m].form
          BY <2>0, <4>1, <4>3, <4>4, SyncedOwn
        <5>2. (wire[m].form = "summary") <=> Memory!Evicted(payloads[m])
          BY DEF MirrorInv, WireMirrorsMemory
        <5>3. QED
          BY <4>2, <4>3, <5>1, <5>2
      <4>6. QED
        BY <2>0, <3>1, <4>1, <4>3, <4>4, <4>5 DEF MirrorInv, WireMirrorsMemory
    <3>4. QED
      BY <3>2, <3>3
  <2>5. QED
    BY <2>1, <2>2, <2>3, <2>4
    DEF Next, Over, vars, loopVars, memoryVars, Abort, ModelRaises, Answer, ToolEscapes,
        TakeCall
<1>3. QED
  BY <1>1, <1>2, LoopInvInvariant, MemoryInvInvariant, PTL DEF SafeSpec

(* The transcript and the working memory never disagree, if ids are unique.*)
THEOREM TranscriptMirrorsMemory == ASSUME ~ReusesIds PROVE SafeSpec => []WireMirrorsMemory
<1>1. MirrorInv => WireMirrorsMemory
  BY DEF MirrorInv
<1>2. QED
  BY <1>1, MirrorInvInvariant, PTL

(* The result the model acts on next is raw in the transcript it is sent.  *)
THEOREM LatestStaysRaw == ASSUME ~ReusesIds PROVE SafeSpec => []LatestResultRaw
<1>1. LoopInv /\ MemoryInv /\ MirrorInv => LatestResultRaw
  <2> SUFFICES ASSUME LoopInv, MemoryInv, MirrorInv, wire # <<>>
               PROVE  wire[Len(wire)].form = "raw"
    BY DEF LatestResultRaw
  <2>1. Len(wire) \in DOMAIN wire /\ wire[Len(wire)] \in Messages
    BY DEF LoopInv, TypeOK
  <2>2. Len(payloads) = Len(wire) /\ payloads # <<>>
    BY <2>1 DEF MirrorInv, WireMirrorsMemory, LoopInv, TypeOK
  <2>3. wire[Len(wire)].form # "summary"
    BY <2>1, <2>2 DEF MirrorInv, MemoryInv, WireMirrorsMemory
  <2>4. QED
    BY <2>1, <2>3 DEF Messages
<1>2. QED
  BY <1>1, LoopInvInvariant, MemoryInvInvariant, MirrorInvInvariant, PTL
=============================================================================
