----------------------------- MODULE AgentLoop -----------------------------
(***************************************************************************)
(* The orchestration spine, `run` in agent/loop.py, composed with the      *)
(* call guard (agent/guard.py), the working memory (Context) and the tool  *)
(* registry (ToolRegistry).  One action is one stretch of the loop between *)
(* two calls to the outside: asking the model, dispatching one tool call   *)
(* with everything the loop does about it, and closing the turn.           *)
(* The wire transcript is kept as the ids the assistant turns asked for    *)
(* and the tool messages that answered them, in order.                     *)
(***************************************************************************)
EXTENDS Integers, FiniteSets, Sequences

CONSTANTS
    Tools,             \* the tools registered
    UnknownTool,       \* a name no tool has
    InitiallyLoaded,   \* loaded before the run: nothing for build_registry,
                       \* everything for the static and reviewer registries
    Goals,             \* sub-goal descriptions the model may write
    Strip(_),          \* str.strip on a description
    Ceiling,           \* CallGuard's ceiling
    MaxBatch,          \* most calls in one turn (a bound)
    Calls,             \* the calls the model may make
    ReusesIds,         \* FALSE: a provider's ids; TRUE: a script's "call_1"
    Sizes,             \* lengths of the results of tools and searches
    AckSize,           \* length of an acknowledgement or a folded error
    SummarySize,       \* length of "[name] result elided ..."
    Threshold,         \* threshold_tokens
    TaskChars,         \* length of the task
    GoalChars          \* length of a sub-goal's description

VARIABLES
    phase,             \* "turn", "dispatch" or "over"
    outcome,           \* how run ended, "none" while it runs
    calls,             \* guard._calls
    batch,             \* calls of the current turn still to dispatch
    asked,             \* ids of all calls requested by assistant messages
    wire,              \* the tool messages of the transcript
    finished,          \* index of the finish message taken as result, or 0
    tools,             \* registry._tools
    loaded,            \* registry._loaded
    lastWasSearch,     \* registry._last_was_search
    subGoals,          \* context._sub_goals, as in Context
    resolved,
    payloads           \* context._payloads

loopVars == <<phase, outcome, calls, batch, asked, wire, finished>>
registryVars == <<tools, loaded, lastWasSearch>>
memoryVars == <<subGoals, resolved, payloads>>
vars == <<loopVars, registryVars, memoryVars>>

Registry == INSTANCE ToolRegistry

(* The loop records neither symbol facts nor FILE payloads and pins none.  *)
Memory == INSTANCE Context WITH
    Keys <- Nat, Facts <- {}, Sizes <- Sizes \cup {AckSize},
    SummarySizes <- {SummarySize}, FactChars <- 0, MaxPayloads <- Ceiling + MaxBatch,
    facts <- {}, filesRead <- {}, rereads <- {}

SEARCH == Registry!SEARCH
LOAD == Registry!LOAD
PLANADD == Registry!PLANADD
PLANRESOLVE == Registry!PLANRESOLVE
FINISH == Registry!FINISH

(* A tool call as the model wrote it.  goals are the descriptions carried  *)
(* by a plan verb, also when the request schema rejects the call (an extra *)
(* key, an item that is not a string); iterable is FALSE for a plan_add    *)
(* whose sub_goals is a truthy value a `for` cannot walk.                  *)
ToolCalls ==
    {c \in [name : Registry!CoreNames \cup Tools \cup {UnknownTool},
            valid : BOOLEAN,
            tool : Tools \cup {UnknownTool},
            goals : SUBSET Goals,
            iterable : BOOLEAN] :
        /\ c.name = PLANADD /\ c.valid => c.iterable /\ c.goals # {}
        /\ c.name = PLANRESOLVE => Cardinality(c.goals) <= 1
        /\ ~c.iterable => c.name = PLANADD /\ c.goals = {}}

ASSUME CeilingAssumption == Ceiling \in Nat
ASSUME BatchAssumption == MaxBatch \in Nat \ {0}
ASSUME NamesAssumption ==
    /\ UnknownTool \notin Tools
    /\ Registry!CoreNames \cap (Tools \cup {UnknownTool}) = {}
ASSUME LoadedAssumption == InitiallyLoaded \subseteq Tools
ASSUME CallsAssumption == Calls \subseteq ToolCalls
ASSUME StripAssumption == \A g \in Goals : Strip(g) \in Goals
ASSUME IdsAssumption == ReusesIds \in BOOLEAN
ASSUME SizesAssumption ==
    Sizes \subseteq Nat /\ AckSize \in Nat /\ SummarySize \in Nat
        /\ Threshold \in Int /\ TaskChars \in Nat /\ GoalChars \in Nat

Outcomes == {"none", "finished", "answered", "aborted",
             "model_error", "tool_escape", "verb_crash"}

Messages == [id : Nat, call : Calls, verdict : Registry!Verdicts,
             of : Nat, form : {"raw", "summary"}]

TypeOK ==
    /\ phase \in {"turn", "dispatch", "over"}
    /\ outcome \in Outcomes
    /\ calls \in Nat
    /\ batch \in Seq(Calls)
    /\ asked \in Seq(Nat)
    /\ wire \in Seq(Messages)
    /\ finished \in Nat
    /\ tools = Tools
    /\ loaded \subseteq Tools
    /\ lastWasSearch \in BOOLEAN
    /\ subGoals \subseteq Goals
    /\ resolved \subseteq subGoals
    /\ payloads \in Seq(Memory!Payload)

Init ==
    /\ phase = "turn"
    /\ outcome = "none"
    /\ calls = 0
    /\ batch = <<>>
    /\ asked = <<>>
    /\ wire = <<>>
    /\ finished = 0
    /\ tools = Tools
    /\ loaded = InitiallyLoaded
    /\ lastWasSearch = FALSE
    /\ subGoals = {}
    /\ resolved = {}
    /\ payloads = <<>>

End(how) ==
    /\ phase' = "over"
    /\ outcome' = how

Tripped == calls >= Ceiling

-----------------------------------------------------------------------------
(* Asking the model.                                                       *)

(* guard.check raises RunAborted, and run returns.                         *)
Abort ==
    /\ phase = "turn"
    /\ Tripped
    /\ End("aborted")
    /\ UNCHANGED <<calls, batch, asked, wire, finished, registryVars, memoryVars>>

(* adapter.complete is external.  It may raise: a TransientError after the *)
(* last retry, or an error of the provider, neither caught by run.         *)
ModelRaises ==
    /\ phase = "turn"
    /\ ~Tripped
    /\ End("model_error")
    /\ UNCHANGED <<calls, batch, asked, wire, finished, registryVars, memoryVars>>

(* A turn without tool calls is the answer.                                *)
Answer ==
    /\ phase = "turn"
    /\ ~Tripped
    /\ End("answered")
    /\ UNCHANGED <<calls, batch, asked, wire, finished, registryVars, memoryVars>>

(* The id the provider gives to the nth call of the run.                   *)
CallId(n) == IF ReusesIds THEN 1 ELSE n

(* The model, having read the transcript, asks for the calls of b.         *)
AskForCalls(b) ==
    /\ phase = "turn"
    /\ ~Tripped
    /\ phase' = "dispatch"
    /\ batch' = b
    /\ asked' = asked \o [i \in 1 .. Len(b) |-> CallId(Len(asked) + i)]
    /\ finished' = 0
    /\ UNCHANGED <<outcome, calls, wire, registryVars, memoryVars>>

-----------------------------------------------------------------------------
(* Dispatching one call.                                                   *)

(* Faulty variants: the guard counts turns instead of calls; a call that   *)
(* failed is not folded back.                                              *)
RecordPerTurn == calls' = IF Len(batch) = 1 THEN calls + 1 ELSE calls

Record == calls' = calls + 1

(* guard.record and registry.dispatch on the first call of the batch.      *)
TakeCall(call, verdict) ==
    /\ phase = "dispatch"
    /\ batch # <<>>
    /\ call = Head(batch)
    /\ batch' = Tail(batch)
    /\ Record
    /\ Registry!Dispatch(call, verdict)
    /\ UNCHANGED asked

(* An exception that is not a ToolError leaves _dispatch_one, and run.     *)
ToolEscapes(call) ==
    /\ TakeCall(call, "escape")
    /\ End("tool_escape")
    /\ UNCHANGED <<wire, finished, memoryVars>>

ResultSizes(call, verdict) ==
    IF verdict = "ok" /\ call.name \notin {LOAD, PLANADD, PLANRESOLVE, FINISH}
    THEN Sizes ELSE {AckSize}

ToolMessage(call, verdict) ==
    [id |-> asked[calls + 1], call |-> call, verdict |-> verdict,
     of |-> Len(payloads) + 1, form |-> "raw"]

FoldErrorsAway(call, verdict, size) ==
    /\ wire' = IF verdict = "ok" THEN Append(wire, ToolMessage(call, verdict)) ELSE wire
    /\ payloads' = Append(payloads,
         Memory!NewPayload(asked[calls + 1], "result", size, SummarySize, FALSE))

(* messages.append(_tool_message(..)) and _record_payload, for a result or *)
(* for the structured error of a failed call.                              *)
Fold(call, verdict, size) ==
    /\ wire' = Append(wire, ToolMessage(call, verdict))
    /\ payloads' = Append(payloads,
         Memory!NewPayload(asked[calls + 1], "result", size, SummarySize, FALSE))

(* The plan a call writes: _apply_protocol_verb looks at its name and its  *)
(* raw arguments, not at the verdict.  plan_resolve strips, plan_add does  *)
(* not; add_sub_goal and resolve_sub_goal are those of Context.            *)
Added(call) == IF call.name = PLANADD THEN call.goals ELSE {}
Done(call) == IF call.name = PLANRESOLVE THEN {Strip(g) : g \in call.goals} ELSE {}

(* Faulty variants: planning a resolved step again reopens it; a resolved  *)
(* step missing from the plan is not added to it.                          *)
PlanVerbReopens(call) ==
    /\ subGoals' = subGoals \cup Added(call) \cup Done(call)
    /\ resolved' = (resolved \ Added(call)) \cup Done(call)

PlanVerb(call) ==
    /\ subGoals' = subGoals \cup Added(call) \cup Done(call)
    /\ resolved' = resolved \cup Done(call)

(* The loop walks the sub_goals of a rejected plan_add and raises a        *)
(* TypeError, or reads "result" off the folded error of a rejected finish  *)
(* and raises a KeyError.                                                  *)
VerbCrashes(call, verdict) ==
    \/ call.name = PLANADD /\ ~call.iterable
    \/ call.name = FINISH /\ verdict # "ok" /\ finished = 0

(* Faulty variant: the last finish of a turn wins.                         *)
LastFinish(call) ==
    IF call.name = FINISH THEN Len(wire) + 1 ELSE finished

(* `finished`, the first finish of the turn.                               *)
FirstFinish(call) ==
    IF call.name = FINISH /\ finished = 0 THEN Len(wire) + 1 ELSE finished

DispatchCall(call, verdict, size) ==
    /\ TakeCall(call, verdict)
    /\ verdict # "escape"
    /\ size \in ResultSizes(call, verdict)
    /\ Fold(call, verdict, size)
    /\ PlanVerb(call)
    /\ IF VerbCrashes(call, verdict)
       THEN End("verb_crash") /\ UNCHANGED finished
       ELSE finished' = FirstFinish(call) /\ UNCHANGED <<phase, outcome>>

-----------------------------------------------------------------------------
(* Closing the turn.                                                       *)

(* The evicted payloads recorded under an id, and the message by_id maps   *)
(* that id to: the last one that carries it.                               *)
EvictedUnder(id, ps) ==
    {i \in DOMAIN ps : ps[i].key = id /\ Memory!Evicted(ps[i])}

LastWith(id) == {m \in DOMAIN wire : wire[m].id = id /\
                   \A n \in DOMAIN wire : wire[n].id = id => n <= m}

(* Faulty variants: summaries are not synced; they are synced onto every   *)
(* message of the transcript.                                              *)
SyncNothing(ps) == wire
SyncEverything(ps) == [m \in DOMAIN wire |-> [wire[m] EXCEPT !.form = "summary"]]

(* _compact's second half: each evicted payload's summary replaces the     *)
(* content of the message its id is mapped to; later payloads overwrite.   *)
Synced(ps) ==
    [m \in DOMAIN wire |->
        LET es == EvictedUnder(wire[m].id, ps)
        IN  IF m \in LastWith(wire[m].id) /\ es # {}
            THEN [wire[m] EXCEPT !.of = CHOOSE i \in es : \A j \in es : j <= i,
                                 !.form = "summary"]
            ELSE wire[m]]

(* context.compact, then the sync if anything was evicted.                 *)
CompactMemory ==
    /\ payloads' = Memory!Compacted(payloads, subGoals, {})
    /\ wire' = IF payloads' = payloads THEN wire ELSE Synced(payloads')

CloseTurn ==
    /\ phase = "dispatch"
    /\ batch = <<>>
    /\ CompactMemory
    /\ IF finished # 0 THEN End("finished") ELSE phase' = "turn" /\ UNCHANGED outcome
    /\ UNCHANGED <<calls, batch, asked, finished, registryVars, subGoals, resolved>>

(* A run that is over stays as it is.                                      *)
Over ==
    /\ phase = "over"
    /\ UNCHANGED vars

Batches == UNION {[1 .. n -> Calls] : n \in 1 .. MaxBatch}

Next ==
    \/ Abort
    \/ ModelRaises
    \/ Answer
    \/ \E b \in Batches : AskForCalls(b)
    \/ \E call \in Calls : ToolEscapes(call)
    \/ \E call \in Calls, verdict \in Registry!Verdicts, size \in Sizes \cup {AckSize} :
          DispatchCall(call, verdict, size)
    \/ CloseTurn
    \/ Over

SafeSpec == Init /\ [][Next]_vars

(* One thread, and calls that return or raise: see BoundedRun.             *)
Spec == SafeSpec /\ WF_vars(Next)

-----------------------------------------------------------------------------
(* The run as BoundedRun sees it: the three ways an exception leaves run   *)
(* are one, and of the batch only its length counts.                       *)
Bounded == INSTANCE BoundedRun WITH
    left <- Len(batch),
    outcome <- IF outcome \in {"model_error", "tool_escape", "verb_crash"}
               THEN "crashed" ELSE outcome

(* The loop stays within the call ceiling's promise and always returns,    *)
(* whatever the model asks for and whatever the tools answer.              *)
ImplementsBoundedRun == Bounded!Spec

(* The wire protocol: before every model request each requested call has   *)
(* been answered by exactly one tool message, in the order asked, failures *)
(* and compactions included (loop.py:168-172, 304-310).                    *)
CallsAnsweredInOrder ==
    /\ Len(wire) <= Len(asked)
    /\ \A i \in DOMAIN wire : wire[i].id = asked[i]
    /\ phase = "turn" => Len(wire) = Len(asked)

(* The transcript and the working memory never disagree: a tool message    *)
(* shows the raw result as long as its payload is live, and that payload's *)
(* own summary once it is evicted (loop.py:266-272, 315-318).              *)
WireMirrorsMemory ==
    /\ Len(wire) = Len(payloads)
    /\ \A i \in DOMAIN wire :
         /\ wire[i].of = i
         /\ (wire[i].form = "summary") <=> Memory!Evicted(payloads[i])

(* Whatever was compacted before, the result the model acts on next is     *)
(* raw in the transcript it is sent (context.py:264-265).                  *)
LatestResultRaw ==
    phase = "turn" /\ wire # <<>> => wire[Len(wire)].form = "raw"

(* A run that reports `finished` reports the first finish the model called *)
(* and the registry accepted; no later one replaced it (loop.py:145-146).  *)
FinishIsFirstAccepted ==
    outcome = "finished" =>
        /\ finished \in DOMAIN wire
        /\ wire[finished].call.name = FINISH
        /\ wire[finished].verdict = "ok"
        /\ \A i \in 1 .. finished - 1 : wire[i].call.name # FINISH

(* Discovery is forced: a repo tool runs only if it was loaded before the  *)
(* run or by an accepted load_tool earlier in the transcript               *)
(* (registry.py:217-248).                                                  *)
LoadedBeforeUse ==
    \A i \in DOMAIN wire :
        wire[i].call.name \notin Registry!CoreNames /\ wire[i].verdict # "NotFoundError"
            => \/ wire[i].call.name \in InitiallyLoaded
               \/ \E j \in 1 .. i - 1 :
                    /\ wire[j].call.name = LOAD
                    /\ wire[j].call.tool = wire[i].call.name
                    /\ wire[j].verdict = "ok"

(* The durable plan is the sum of the plan verbs of the transcript, also   *)
(* of those whose results compaction has taken out of it: nothing planned  *)
(* is lost, nothing resolved is reopened (loop.py:283-291).                *)
PlanIsSumOfVerbs ==
    LET verbs(V(_)) == UNION {V(wire[i].call) : i \in DOMAIN wire}
    IN  /\ resolved = verbs(Done)
        /\ subGoals = verbs(Added) \cup verbs(Done)

(* Every model request is within the threshold, or carries one raw result  *)
(* only: over a run of any length the footprint does not accumulate        *)
(* (ARCHITECTURE.md section 7).                                            *)
FootprintControlled ==
    phase = "turn" =>
        \/ Memory!EstimatedTokens(payloads, subGoals, {}) <= Threshold
        \/ Cardinality(Memory!Live(payloads)) <= 1

-----------------------------------------------------------------------------
(* What comments and documents say, and the code does not do.              *)

(* A folded error is "never re-raised"; the run recovers "rather than      *)
(* crashing on it" (loop.py:48-51, 190-192): no exception leaves run for a *)
(* call the registry merely rejected.                                      *)
RejectionNeverCrashes == outcome # "verb_crash"
=============================================================================
