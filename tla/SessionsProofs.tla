--------------------------- MODULE SessionsProofs ---------------------------
(***************************************************************************)
(* Sessions for every ceiling, batch, catalogue, scope and suite: what one *)
(* run leaves to the next, and which model serves it.                      *)
(***************************************************************************)
EXTENDS Sessions, FiniteSetTheorems, TLAPS

(* First the turn loop, for every ceiling and every bound on the calls of  *)
(* one turn.                                                               *)

(* Calls are only outstanding inside a turn, and a turn is only entered    *)
(* below the ceiling: what CallsBounded lacks to be inductive is the bound *)
(* on the count at the moments the guard is consulted.                     *)
BoundInv ==
    /\ TypeOK
    /\ CallsBounded
    /\ phase = "turn" => left = 0

(* The type invariant of the turn loop.                                    *)
THEOREM TypeCorrect == SafeSpec => []TypeOK
<1>1. Init => TypeOK
  BY BatchAssumption DEF Init, TypeOK, Outcomes
<1>2. TypeOK /\ [Next]_vars => TypeOK'
  <2> SUFFICES ASSUME TypeOK, [Next]_vars PROVE TypeOK'
    OBVIOUS
  <2> USE BatchAssumption DEF TypeOK, Outcomes
  <2>1. CASE Abort
    BY <2>1 DEF Abort, End
  <2>2. ASSUME NEW n \in 1 .. MaxBatch, AskForCalls(n) PROVE TypeOK'
    BY <2>2 DEF AskForCalls
  <2>3. CASE EndAtModel
    BY <2>3 DEF EndAtModel, End
  <2>4. CASE Dispatch
    BY <2>4 DEF Dispatch, Record, End
  <2>5. CASE CloseTurn
    BY <2>5 DEF CloseTurn, End
  <2>6. CASE UNCHANGED vars
    BY <2>6 DEF vars
  <2>7. QED
    BY <2>1, <2>2, <2>3, <2>4, <2>5, <2>6 DEF Next, Over
<1>3. QED
  BY <1>1, <1>2, PTL DEF SafeSpec

(* The calls dispatched and still outstanding exceed the ceiling by less   *)
(* than one batch, for any ceiling and any batch size.                     *)
THEOREM CallsStayBounded == SafeSpec => []CallsBounded
<1>1. Init => BoundInv
  BY CeilingAssumption, BatchAssumption
  DEF Init, BoundInv, TypeOK, Outcomes, CallsBounded
<1>2. TypeOK' /\ BoundInv /\ [Next]_vars => BoundInv'
  <2> SUFFICES ASSUME TypeOK', BoundInv, [Next]_vars PROVE BoundInv'
    OBVIOUS
  <2> USE CeilingAssumption, BatchAssumption DEF BoundInv, TypeOK, CallsBounded
  <2>1. CASE Abort
    BY <2>1 DEF Abort, End
  <2>2. ASSUME NEW n \in 1 .. MaxBatch, AskForCalls(n) PROVE BoundInv'
    BY <2>2 DEF AskForCalls, Tripped
  <2>3. CASE EndAtModel
    BY <2>3 DEF EndAtModel, End
  <2>4. CASE Dispatch
    BY <2>4 DEF Dispatch, Record, End
  <2>5. CASE CloseTurn
    BY <2>5 DEF CloseTurn, End
  <2>6. CASE UNCHANGED vars
    BY <2>6 DEF vars
  <2>7. QED
    BY <2>1, <2>2, <2>3, <2>4, <2>5, <2>6 DEF Next, Over
<1>3. BoundInv => CallsBounded
  BY DEF BoundInv
<1>4. QED
  BY <1>1, <1>2, <1>3, TypeCorrect, PTL DEF SafeSpec

(* How a run ended agrees with the count of its calls.                     *)
OutcomeInv ==
    /\ TypeOK
    /\ OutcomeAgreesWithCount
    /\ phase = "dispatch" => calls + left > 0

THEOREM OutcomeCorrect == SafeSpec => []OutcomeAgreesWithCount
<1>1. Init => OutcomeInv
  BY BatchAssumption DEF Init, OutcomeInv, TypeOK, Outcomes, OutcomeAgreesWithCount
<1>2. TypeOK' /\ OutcomeInv /\ [Next]_vars => OutcomeInv'
  <2> SUFFICES ASSUME TypeOK', OutcomeInv, [Next]_vars PROVE OutcomeInv'
    OBVIOUS
  <2> USE CeilingAssumption, BatchAssumption
      DEF OutcomeInv, TypeOK, OutcomeAgreesWithCount, Tripped
  <2>1. CASE Abort
    BY <2>1 DEF Abort, End
  <2>2. ASSUME NEW n \in 1 .. MaxBatch, AskForCalls(n) PROVE OutcomeInv'
    BY <2>2 DEF AskForCalls
  <2>3. CASE EndAtModel
    BY <2>3 DEF EndAtModel, End
  <2>4. CASE Dispatch
    BY <2>4 DEF Dispatch, Record, End
  <2>5. CASE CloseTurn
    BY <2>5 DEF CloseTurn, End
  <2>6. CASE UNCHANGED vars
    BY <2>6 DEF vars
  <2>7. QED
    BY <2>1, <2>2, <2>3, <2>4, <2>5, <2>6 DEF Next, Over
<1>3. OutcomeInv => OutcomeAgreesWithCount
  BY DEF OutcomeInv
<1>4. QED
  BY <1>1, <1>2, <1>3, TypeCorrect, PTL DEF SafeSpec

-----------------------------------------------------------------------------
(* The registry only loads what it has registered.                         *)
LEMMA LoadsWhatIsRegistered ==
  ASSUME NEW call, NEW verdict, Registry!Dispatch(call, verdict), loaded \subseteq tools
  PROVE  tools' = tools /\ loaded' \subseteq tools'
BY DEF Registry!Dispatch, Registry!Search, Registry!Load, Registry!Acknowledge,
       Registry!Invoke, Registry!Malformed, Registry!vars

(* The flag is up only after a search that was answered, and the tag is    *)
(* emitted only while it is up.                                            *)
LEMMA FlagMeansSearched ==
  ASSUME NEW call, NEW verdict, CallTool(call, verdict), lastWasSearch => searched
  PROVE  (lastWasSearch' => searched') /\ (emitted' => searched)
<1>1. emitted' => lastWasSearch
  BY DEF CallTool
<1> USE DEF CallTool, Registry!Malformed, Registry!vars, Registry!SEARCH, Registry!LOAD
<1>2. CASE ~call.valid /\ verdict = "MalformedInputError" /\ UNCHANGED Registry!vars
  BY <1>1, <1>2
<1>3. CASE call.name = Registry!SEARCH /\ verdict = "ok"
  BY <1>1, <1>3
<1>4. CASE lastWasSearch' = FALSE
  BY <1>1, <1>4
<1>5. CASE call.name = Registry!LOAD /\ verdict = "NotFoundError" /\ UNCHANGED Registry!vars
  BY <1>1, <1>5
<1>6. CASE call.name \notin Registry!CoreNames /\ UNCHANGED Registry!vars
  BY <1>1, <1>6 DEF Registry!CoreNames
<1>7. QED
  BY <1>2, <1>3, <1>4, <1>5, <1>6
  DEF Registry!Dispatch, Registry!Search, Registry!Load, Registry!Acknowledge, Registry!Invoke
-----------------------------------------------------------------------------
(* The runs                                                                *)

(* While a run is under way its calls are those of BoundedRun.             *)
RunsInv ==
  /\ TypeOK /\ CallsBounded
  /\ phase = "turn" => left = 0
  /\ stage = "running" /\ phase = "over" => outcome # "none"
  /\ outcome = "aborted" => Tripped

(* One step of a run, whatever else it does, keeps RunsInv.                *)
LEMMA RunStepKeepsRuns == RunsInv /\ RunStep => RunsInv'
<1> SUFFICES ASSUME RunsInv, RunStep PROVE RunsInv'
  OBVIOUS
<1> USE CeilingAssumption, BatchAssumption
    DEF RunsInv, TypeOK, CallsBounded, Outcomes, Tripped, End, processVars
<1>1. stage = "running" /\ stage' = stage
  BY DEF RunStep
<1>2. CASE Abort
  BY <1>1, <1>2 DEF Abort
<1>3. CASE CloseTurn
  BY <1>1, <1>3 DEF CloseTurn
<1>4. CASE EndAtModel
  BY <1>1, <1>4 DEF EndAtModel
<1>5. ASSUME NEW n \in 1..MaxBatch, AskForCalls(n) PROVE RunsInv'
  BY <1>1, <1>5 DEF AskForCalls, Tripped
<1>6. CASE Dispatch
  BY <1>1, <1>6 DEF Dispatch, Record
<1>7. QED
  BY <1>2, <1>3, <1>4, <1>5, <1>6 DEF RunStep

(* A run that starts.                                                      *)
LEMMA StartKeepsRuns == ASSUME NEW job, StartRun(job) PROVE RunsInv'
BY CeilingAssumption, BatchAssumption
DEF StartRun, RunsInv, TypeOK, CallsBounded, Outcomes, Tripped

LEMMA RunsKept == SessionsSpec => []RunsInv
<1>1. SessionsInit => RunsInv
  BY CeilingAssumption, BatchAssumption
  DEF SessionsInit, RunsInv, TypeOK, CallsBounded, Outcomes, Tripped
<1>2. RunsInv /\ [SessionsNext]_allVars => RunsInv'
  <2> SUFFICES ASSUME RunsInv, [SessionsNext]_allVars PROVE RunsInv'
    OBVIOUS
  <2> USE DEF RunsInv, TypeOK, CallsBounded, Tripped
  <2>1. CASE UNCHANGED vars /\ stage' # "running"
    BY <2>1 DEF vars
  <2>2. CASE RunStep
    BY <2>2, RunStepKeepsRuns
  <2>3. CASE BootCli
    BY <2>1, <2>3, StartKeepsRuns DEF BootCli, Exit
  <2>4. CASE BootEvals
    BY <2>1, <2>4 DEF BootEvals, Exit
  <2>5. CASE EndCli
    BY <2>1, <2>5 DEF EndCli, Exit, Raise
  <2>6. CASE SetUp
    BY <2>1, <2>6, StartKeepsRuns DEF SetUp, Exit, Raise
  <2>7. CASE Unwind \/ Judge \/ Report
    BY <2>1, <2>7 DEF Unwind, Judge, Report, Exit, Raise
  <2>8. CASE UNCHANGED allVars
    BY <2>8 DEF allVars, processVars, vars
  <2>9. QED
    BY <2>2, <2>3, <2>4, <2>5, <2>6, <2>7, <2>8 DEF SessionsNext
<1>3. QED
  BY <1>1, <1>2, PTL DEF SessionsSpec

(* In every process, over any number of runs, no run passes its ceiling by *)
(* a whole batch.                                                          *)
THEOREM EveryRunBounded == SessionsSpec => []CallsBounded
<1>1. RunsInv => CallsBounded
  BY DEF RunsInv
<1>2. QED
  BY <1>1, RunsKept, PTL
-----------------------------------------------------------------------------
(* The registry's flag                                                     *)

(* Before the first run nothing was emitted; in a run the flag agrees with *)
(* what was searched in it.                                                *)
FlagInv ==
  /\ stage = "boot" => ~emitted
  /\ stage = "running" => (lastWasSearch => searched)

(* The debt tag is never a false alarm, however many runs came before.     *)
THEOREM TagIsTrue == SessionsSpec => TagOnlyForFruitlessSearch
<1>1. SessionsInit => FlagInv
  BY DEF SessionsInit, FlagInv
<1>2. ASSUME FlagInv, [SessionsNext]_allVars
      PROVE  FlagInv' /\ [emitted' => searched]_<<registryVars, calls>>
  <2> USE <1>2 DEF FlagInv
  <2>1. CASE RunStep
    <3> USE <2>1 DEF registryVars, processVars
    <3>1. CASE UNCHANGED <<registryVars, calls>>
      BY <3>1 DEF RunStep
    <3>2. ASSUME NEW call, NEW verdict, CallTool(call, verdict)
          PROVE  FlagInv' /\ (emitted' => searched)
      BY <3>2, FlagMeansSearched DEF RunStep
    <3>3. QED
      BY <3>1, <3>2 DEF RunStep, Abort, CloseTurn, EndAtModel, AskForCalls
  <2>2. CASE BootCli
    BY <2>2 DEF BootCli, Exit, StartRun, FreshRegistry, registryVars, vars
  <2>3. CASE BootEvals
    BY <2>3 DEF BootEvals, Exit, registryVars, vars
  <2>4. CASE EndCli
    BY <2>4 DEF EndCli, Exit, Raise, registryVars, vars
  <2>5. CASE SetUp
    BY <2>5 DEF SetUp, Exit, Raise, StartRun, FreshRegistry, registryVars, vars
  <2>6. CASE Unwind \/ Judge \/ Report
    BY <2>6 DEF Unwind, Judge, Report, Exit, Raise, registryVars, vars
  <2>7. CASE UNCHANGED allVars
    BY <2>7 DEF allVars, processVars, registryVars, vars
  <2>8. QED
    BY <2>1, <2>2, <2>3, <2>4, <2>5, <2>6, <2>7 DEF SessionsNext
<1>3. QED
  BY <1>1, <1>2, PTL DEF SessionsSpec, TagOnlyForFruitlessSearch
-----------------------------------------------------------------------------
(* What the suite leaves                                                   *)

(* A checkout exists exactly while its run does.                           *)
PlaceInv ==
  command.name # "run" =>
    /\ stage = "boot" => cwd = "home" /\ checkouts = 0 /\ outcome = "none"
    /\ stage = "next" => cwd = "home" /\ checkouts = 0 /\ outcome # "crashed"
    /\ stage = "running" => checkouts = 1
    /\ stage = "exited" =>
         /\ cwd = "home"
         /\ checkouts = 0 \/ (exit = "traceback" /\ checkouts = 1 /\ outcome # "crashed")

(* A suite of any length leaves nothing behind.                            *)
THEOREM NothingLeft == SessionsSpec => []SuiteLeavesNothing
<1>1. SessionsInit => PlaceInv
  BY DEF SessionsInit, PlaceInv
<1>2. PlaceInv /\ [SessionsNext]_allVars => PlaceInv'
  <2> SUFFICES ASSUME PlaceInv, [SessionsNext]_allVars PROVE PlaceInv'
    OBVIOUS
  <2> USE DEF PlaceInv
  <2>1. CASE RunStep
    BY <2>1 DEF RunStep, processVars, surroundings
  <2>2. CASE BootCli
    BY <2>2 DEF BootCli, Exit, StartRun
  <2>3. CASE BootEvals
    BY <2>3 DEF BootEvals, Exit, surroundings, vars
  <2>4. CASE EndCli
    BY <2>4 DEF EndCli, Exit, Raise
  <2>5. CASE SetUp
    <3>1. checkouts' = checkouts + 1 /\ stage = "next" /\ command' = command
      BY <2>5 DEF SetUp, StartRun, Exit, Raise
    <3>2. CASE StartRun(jobs[1])
      BY <3>1, <3>2 DEF StartRun
    <3>3. CASE Raise /\ UNCHANGED cwd
      BY <3>1, <3>3 DEF Raise, Exit, vars
    <3>4. QED
      BY <2>5, <3>2, <3>3 DEF SetUp
  <2>6. CASE Unwind
    BY <2>6 DEF Unwind, RunOver, CleanUp, Exit, Raise
  <2>7. CASE Judge
    BY <2>7 DEF Judge, RunOver, CleanUp, vars
  <2>8. CASE Report
    BY <2>8 DEF Report, Exit, surroundings, vars
  <2>9. CASE UNCHANGED allVars
    BY <2>9 DEF allVars, processVars, surroundings, vars
  <2>10. QED
    BY <2>1, <2>2, <2>3, <2>4, <2>5, <2>6, <2>7, <2>8, <2>9 DEF SessionsNext
<1>3. PlaceInv => SuiteLeavesNothing
  BY DEF PlaceInv, SuiteLeavesNothing
<1>4. QED
  BY <1>1, <1>2, <1>3, PTL DEF SessionsSpec
-----------------------------------------------------------------------------
(* The reviewer                                                            *)

(* A run has the menu of its job, and loads from it.                       *)
MenuInv == stage = "running" => tools = Menu(jobs[1]) /\ loaded \subseteq tools

LEMMA MenuKept == SessionsSpec => []MenuInv
<1>1. SessionsInit => MenuInv
  BY DEF SessionsInit, MenuInv
<1>2. MenuInv /\ [SessionsNext]_allVars => MenuInv'
  <2> SUFFICES ASSUME MenuInv, [SessionsNext]_allVars PROVE MenuInv'
    OBVIOUS
  <2> USE DEF MenuInv
  <2>1. CASE RunStep
    <3>1. stage = "running" /\ UNCHANGED <<stage, jobs>>
      BY <2>1 DEF RunStep, processVars, work
    <3>2. CASE UNCHANGED registryVars
      BY <3>1, <3>2 DEF registryVars, Menu
    <3>3. ASSUME NEW call, NEW verdict, CallTool(call, verdict) PROVE MenuInv'
      <4>1. tools' = tools /\ loaded' \subseteq tools'
        BY <3>1, <3>3, LoadsWhatIsRegistered DEF CallTool
      <4>2. QED
        BY <3>1, <4>1 DEF Menu
    <3>4. QED
      BY <2>1, <3>2, <3>3 DEF RunStep
  <2>2. ASSUME NEW job, StartRun(job), jobs'[1] = job PROVE MenuInv'
    BY <2>2 DEF StartRun, FreshRegistry, Menu
  <2>3. CASE BootCli
    BY <2>2, <2>3 DEF BootCli, Exit
  <2>4. CASE SetUp
    BY <2>2, <2>4 DEF SetUp, Exit, Raise
  <2>5. CASE BootEvals \/ EndCli \/ Unwind \/ Judge \/ Report
    BY <2>5 DEF BootEvals, EndCli, Unwind, Judge, Report, Exit, Raise
  <2>6. CASE UNCHANGED allVars
    BY <2>6 DEF allVars, processVars, work, registryVars, Menu
  <2>7. QED
    BY <2>1, <2>3, <2>4, <2>5, <2>6 DEF SessionsNext
<1>3. QED
  BY <1>1, <1>2, PTL DEF SessionsSpec

(* What was said is what is reported, of a run that ended by itself.       *)
VerdictInv ==
  review.verdict # "comment" =>
    review.said = review.verdict /\ review.how \in {"finished", "answered"}

(* A reviewer stays in its scope, whatever that is, and never approves for *)
(* a run that was cut short.                                               *)
THEOREM ReviewIsSound == SessionsSpec => []ReviewStandsOnItsRun
<1>1. SessionsInit => VerdictInv
  BY DEF SessionsInit, VerdictInv
<1>2. RunsInv /\ VerdictInv /\ [SessionsNext]_allVars => VerdictInv'
  <2> SUFFICES ASSUME RunsInv, VerdictInv, [SessionsNext]_allVars PROVE VerdictInv'
    OBVIOUS
  <2>1. CASE UNCHANGED review
    BY <2>1 DEF VerdictInv
  <2>2. CASE Judge
    <3>1. outcome \in {"finished", "answered", "aborted"}
      BY <2>2 DEF Judge, RunOver, RunsInv, TypeOK, Outcomes
    <3>2. CASE jobs[1].kind = "reviewer"
      <4>1. PICK payload \in {None, "approve", "request_changes", "comment"} :
              review' = [verdict |-> ParseReview(payload), said |-> payload, how |-> outcome]
        BY <2>2, <3>2 DEF Judge
      <4>2. QED
        BY <3>1, <4>1 DEF VerdictInv, ParseReview
    <3>3. QED
      BY <2>1, <2>2, <3>2 DEF Judge
  <2>3. CASE RunStep \/ BootCli \/ BootEvals \/ EndCli \/ SetUp \/ Unwind \/ Report
    BY <2>1, <2>3
    DEF RunStep, BootCli, BootEvals, EndCli, SetUp, Unwind, Report, StartRun, work, processVars
  <2>4. CASE UNCHANGED allVars
    BY <2>1, <2>4 DEF allVars, processVars, work
  <2>5. QED
    BY <2>2, <2>3, <2>4 DEF SessionsNext
<1>3. MenuInv /\ VerdictInv => ReviewStandsOnItsRun
  BY DEF MenuInv, Menu, VerdictInv, ReviewStandsOnItsRun
<1>4. QED
  BY <1>1, <1>2, <1>3, RunsKept, MenuKept, PTL DEF SessionsSpec
-----------------------------------------------------------------------------
(* The model asked for                                                     *)

(* What the adapter was built with.                                        *)
RoutingInv ==
  /\ command \in Commands
  /\ stage = "boot" \/ command.name # "run" => pinned = command.env
  /\ stage = "next" => command.name # "run"
  /\ stage = "running" /\ command.name = "run" =>
       adapter = (IF command.model = None THEN command.env ELSE command.model)
  /\ stage = "running" /\ command.name = "evals" => adapter = EvalModel
  /\ stage \in {"next", "running"} /\ command.name = "ablation" => adapter = EvalModel

LEMMA RoutingKept == SessionsSpec => []RoutingInv
<1>1. SessionsInit => RoutingInv
  BY DEF SessionsInit, RoutingInv
<1>2. RoutingInv /\ [SessionsNext]_allVars => RoutingInv'
  <2> SUFFICES ASSUME RoutingInv, [SessionsNext]_allVars PROVE RoutingInv'
    OBVIOUS
  <2> USE DEF RoutingInv
  <2>1. CASE UNCHANGED <<command, pinned, adapter>> /\ stage' \in {stage, "exited"}
    BY <2>1 DEF EvalModel
  <2>2. CASE RunStep \/ EndCli \/ Unwind \/ Report \/ UNCHANGED allVars
    BY <2>1, <2>2
    DEF RunStep, EndCli, Unwind, Report, Exit, Raise, processVars, surroundings, allVars
  <2>3. CASE BootCli
    BY <2>3 DEF BootCli, Exit, StartRun
  <2>4. CASE BootEvals
    <3>1. stage = "boot" /\ command.name # "run" /\ UNCHANGED <<command, pinned>>
      BY <2>4 DEF BootEvals, Exit, surroundings
    <3>2. CASE stage' = "exited"
      BY <3>1, <3>2
    <3>3. CASE stage' = "next" /\ (command.name = "ablation" => adapter' = EvalModel)
      BY <3>1, <3>3 DEF EvalModel
    <3>4. CASE ~command.key
      BY <2>4, <3>2, <3>4 DEF BootEvals, Exit
    <3>5. CASE command.key
      <4>1. stage' = "next"
        BY <2>4, <3>5 DEF BootEvals
      <4>2. command.name # "evals" => adapter' = EvalModel
        BY <2>4, <3>5 DEF BootEvals
      <4>3. QED
        BY <3>3, <4>1, <4>2
    <3>6. QED
      BY <3>4, <3>5
  <2>5. CASE SetUp
    BY <2>5 DEF SetUp, Exit, Raise, StartRun, EvalModel
  <2>6. CASE Judge
    BY <2>6 DEF Judge, RunOver, EvalModel
  <2>7. QED
    BY <2>2, <2>3, <2>4, <2>5, <2>6 DEF SessionsNext
<1>3. QED
  BY <1>1, <1>2, PTL DEF SessionsSpec

(* Whichever way the process was started, and whatever it did before, every *)
(* request goes to a model that is due.                                    *)
THEOREM ServedAsAsked == SessionsSpec => ModelAsAsked
<1>1. ASSUME RoutingInv, [SessionsNext]_allVars, served' # served
      PROVE  served'.model \in ModelsDue(served'.first)
  <2>1. stage = "running" /\ phase = "turn" /\ Request
    BY <1>1 DEF SessionsNext, RunStep, BootCli, BootEvals, EndCli, SetUp, Unwind, Judge, Report,
                StartRun, Exit, Raise, EndAtModel, AskForCalls, allVars
  <2>2. /\ command.name = "run" =>
             adapter = (IF command.model = None THEN command.env ELSE command.model)
        /\ command.name \in {"evals", "ablation"} =>
             adapter = (IF command.env = None THEN "strong" ELSE command.env)
    BY <1>1, <2>1 DEF RoutingInv, EvalModel
  <2>3. served'.first = (calls = 0)
    BY <2>1 DEF Request
  <2>4. served'.model \in ModelsDue(calls = 0)
    <3>1. served'.model = IF adapter = None THEN TierFor(TurnKind) ELSE adapter
      BY <2>1 DEF Request
    <3>2. command.name \in {"run", "evals", "ablation"}
      BY <1>1 DEF RoutingInv, Commands
    <3>3. CASE command.name = "run"
      BY <2>2, <3>1, <3>3 DEF ModelsDue, TierFor, TurnKind
    <3>4. CASE command.name # "run"
      BY <2>2, <3>1, <3>2, <3>4, SuiteAssumption DEF ModelsDue
    <3>5. QED
      BY <3>3, <3>4
  <2>5. QED
    BY <2>3, <2>4
<1>2. RoutingInv /\ [SessionsNext]_allVars =>
        [served' # served => served'.model \in ModelsDue(served'.first)]_allVars
  BY <1>1
<1>3. QED
  BY <1>2, RoutingKept, PTL DEF SessionsSpec, ModelAsAsked
-----------------------------------------------------------------------------
(* What is reported                                                        *)

(* Every job there is, and every result there can be.                      *)
JobSet ==
  {EvalJobs[n] : n \in 1..Len(Suite)}
    \cup {AblationJobs[n] : n \in 1..(2 * Repeats * Cardinality(AgentCases))}
Judged == {"finished", "answered", "aborted"}
ResultSet ==
  {[kind |-> job.kind, case |-> job.case, arm |-> job.arm, how |-> how, checked |-> checked] :
     job \in JobSet, how \in Judged, checked \in BOOLEAN}

LEMMA JobsOfTheirKind ==
  /\ \A job \in JobSet : job.kind = Suite[job.case]
  /\ \A result \in ResultSet : result.kind = Suite[result.case] /\ result.how \in Judged
<1>1. \A n \in 1..Len(Suite) : EvalJobs[n].kind = Suite[EvalJobs[n].case]
  BY DEF EvalJobs, Job
<1>2. ASSUME NEW n \in 1..(2 * Repeats * Cardinality(AgentCases))
      PROVE  AblationJobs[n].kind = Suite[AblationJobs[n].case]
  <2>1. \E case, arm : AblationJobs[n] = Job(case, arm)
    BY Zenon DEF AblationJobs
  <2>2. QED
    BY <2>1 DEF Job
<1>3. \A job \in JobSet : job.kind = Suite[job.case]
  BY <1>1, <1>2 DEF JobSet
<1>4. ASSUME NEW result \in ResultSet
      PROVE  result.kind = Suite[result.case] /\ result.how \in Judged
  <2>1. PICK job \in JobSet, how \in Judged, checked \in BOOLEAN :
          result = [kind |-> job.kind, case |-> job.case, arm |-> job.arm,
                    how |-> how, checked |-> checked]
    BY DEF ResultSet
  <2>2. QED
    BY <1>3, <2>1
<1>5. QED
  BY <1>3, <1>4

(* The ablation makes a whole number of runs.                              *)
LEMMA AgentCasesCounted ==
  /\ IsFiniteSet(AgentCases) /\ Cardinality(AgentCases) \in Nat
  /\ 2 * Repeats * Cardinality(AgentCases) \in Nat
<1>1. IsFiniteSet(1..Len(Suite))
  BY FS_Interval, SuiteAssumption
<1>2. AgentCases \in SUBSET (1..Len(Suite))
  BY DEF AgentCases
<1>3. IsFiniteSet(AgentCases)
  BY <1>1, <1>2, FS_Subset
<1>4. Cardinality(AgentCases) \in Nat
  BY <1>3, FS_CardinalityType
<1>5. 2 * Repeats * Cardinality(AgentCases) \in Nat
  BY <1>4, SuiteAssumption
<1>6. QED
  BY <1>3, <1>4, <1>5

LEMMA JobsAreSequences == EvalJobs \in Seq(JobSet) /\ AblationJobs \in Seq(JobSet)
<1>1. Len(Suite) \in Nat
  BY SuiteAssumption
<1>5. EvalJobs \in [1..Len(Suite) -> JobSet]
  BY DEF JobSet, EvalJobs
<1>6. AblationJobs \in [1..(2 * Repeats * Cardinality(AgentCases)) -> JobSet]
  BY Zenon DEF JobSet, AblationJobs
<1>7. QED
  BY <1>1, <1>5, <1>6, AgentCasesCounted

(* The runs made and those to make are the suite's, in its order.          *)
InOrder ==
  /\ \A k \in 1..Len(results) : results[k].case = k /\ results[k].arm = "dynamic"
  /\ \A k \in 1..Len(jobs) : jobs[k] = Job(Len(results) + k, "dynamic")

WorkInv ==
  /\ results \in Seq(ResultSet)
  /\ stage = "boot" => results = <<>>
  /\ command.name # "run" /\ stage \in {"next", "running"} => jobs \in Seq(JobSet)
  /\ command.name # "run" /\ stage = "running" => jobs # <<>>
  /\ command.name # "run" /\ stage \in {"next", "running"} =>
       command.key /\ Len(results) + Len(jobs) = RunsDue
  /\ command.name = "evals" /\ stage \in {"next", "running"} => InOrder

LEMMA WorkKept == SessionsSpec => []WorkInv
<1>1. SessionsInit => WorkInv
  BY DEF SessionsInit, WorkInv
<1>2. RunsInv /\ RoutingInv /\ WorkInv /\ [SessionsNext]_allVars => WorkInv'
  <2> SUFFICES ASSUME RunsInv, RoutingInv, WorkInv, [SessionsNext]_allVars PROVE WorkInv'
    OBVIOUS
  <2>1. CASE UNCHANGED <<command, stage, work>>
    BY <2>1 DEF WorkInv, InOrder, RunsDue, work
  <2>2. CASE UNCHANGED <<command, results>> /\ stage' = "exited"
    BY <2>2 DEF WorkInv
  <2>3. CASE RunStep \/ UNCHANGED allVars
    BY <2>1, <2>3 DEF RunStep, processVars, allVars
  <2>4. CASE EndCli \/ Unwind \/ Report
    BY <2>2, <2>4 DEF EndCli, Unwind, Report, Exit, Raise, work
  <2>5. CASE BootCli
    BY <2>2, <2>5 DEF BootCli, StartRun, Exit, work, WorkInv
  <2>6. CASE BootEvals
    <3>1. CASE ~command.key
      BY <2>2, <2>6, <3>1 DEF BootEvals, Exit, work
    <3>2. CASE command.key
      <4>1. /\ UNCHANGED <<command, results>> /\ stage = "boot" /\ stage' = "next"
            /\ jobs' = IF command.name = "evals" THEN EvalJobs ELSE AblationJobs
        BY <2>6, <3>2 DEF BootEvals
      <4>2. results' = <<>>
        BY <4>1 DEF WorkInv
      <4>3. command.name = "evals" => InOrder'
        BY <4>1, <4>2, SuiteAssumption DEF InOrder, EvalJobs
      <4>4. Len(jobs') = RunsDue'
        <5>1. Len(EvalJobs) = Len(Suite)
          BY SuiteAssumption DEF EvalJobs
        <5>2. Len(AblationJobs) = 2 * Repeats * Cardinality(AgentCases)
          BY AgentCasesCounted, SuiteAssumption DEF AblationJobs
        <5>3. QED
          BY <3>2, <4>1, <5>1, <5>2 DEF RunsDue
      <4>5. Len(results') + Len(jobs') = RunsDue'
        <5>1. Len(jobs') \in Nat
          BY <4>1, JobsAreSequences
        <5>2. QED
          BY <4>2, <4>4, <5>1
      <4>6. QED
        BY <3>2, <4>1, <4>2, <4>3, <4>5, JobsAreSequences DEF WorkInv
    <3>3. QED
      BY <3>1, <3>2
  <2>7. CASE SetUp
    <3>1. UNCHANGED <<command, results>> /\ stage = "next" /\ jobs # <<>>
      BY <2>7 DEF SetUp, StartRun, Raise, Exit, work
    <3>2. CASE stage' = "running" /\ UNCHANGED jobs
      BY <3>1, <3>2 DEF WorkInv, InOrder, RunsDue
    <3>3. QED
      BY <2>2, <2>7, <3>1, <3>2 DEF SetUp, StartRun, Raise, Exit
  <2>8. CASE Judge
    <3>1. /\ stage = "running" /\ stage' = "next" /\ command' = command /\ command.name # "run"
          /\ outcome \in Judged /\ jobs' = Tail(jobs)
      BY <2>8 DEF Judge, RunOver, RunsInv, TypeOK, Outcomes, Judged
    <3>2. PICK checked \in BOOLEAN :
            results' = Append(results, [kind |-> jobs[1].kind, case |-> jobs[1].case,
                                        arm |-> jobs[1].arm, how |-> outcome, checked |-> checked])
      BY <2>8 DEF Judge
    <3>3. jobs \in Seq(JobSet) /\ jobs # <<>> /\ results \in Seq(ResultSet)
      BY <3>1 DEF WorkInv
    <3>4. jobs[1] \in JobSet /\ Tail(jobs) \in Seq(JobSet)
      BY <3>3
    <3>5. results' \in Seq(ResultSet)
      BY <3>1, <3>2, <3>3, <3>4 DEF ResultSet
    <3>6. ASSUME command.name = "evals" PROVE InOrder'
      <4>1. InOrder
        BY <3>1, <3>6 DEF WorkInv
      <4>2. jobs[1].case = Len(results) + 1 /\ jobs[1].arm = "dynamic"
        <5>1. 1 \in 1..Len(jobs) /\ Len(results) \in Nat
          BY <3>3
        <5>2. jobs[1] = Job(Len(results) + 1, "dynamic")
          BY <4>1, <5>1 DEF InOrder
        <5>3. QED
          BY <5>2 DEF Job
      <4>3. Len(results') = Len(results) + 1 /\ Len(jobs') = Len(jobs) - 1
        BY <3>1, <3>2, <3>3
      <4>4. \A k \in 1..Len(results') :
              results'[k].case = k /\ results'[k].arm = "dynamic"
        <5>1. ASSUME NEW k \in 1..Len(results)
              PROVE  results'[k].case = k /\ results'[k].arm = "dynamic"
          <6>1. results'[k] = results[k]
            BY <3>2, <3>3
          <6>2. QED
            BY <4>1, <6>1 DEF InOrder
        <5>2. results'[Len(results) + 1].case = jobs[1].case
              /\ results'[Len(results) + 1].arm = jobs[1].arm
          BY <3>2, <3>3
        <5>3. Len(results) \in Nat
          BY <3>3
        <5>4. QED
          BY <4>2, <4>3, <5>1, <5>2, <5>3
      <4>5. \A k \in 1..Len(jobs') : jobs'[k] = Job(Len(results') + k, "dynamic")
        BY <3>1, <3>3, <4>1, <4>3 DEF InOrder
      <4>6. QED
        BY <4>4, <4>5 DEF InOrder
    <3>7. command'.key /\ Len(results') + Len(jobs') = RunsDue'
      <4>1. command.key /\ Len(results) + Len(jobs) = RunsDue
        BY <3>1 DEF WorkInv
      <4>2. Len(results') = Len(results) + 1 /\ Len(jobs') = Len(jobs) - 1
        BY <3>1, <3>2, <3>3
      <4>3. Len(results) \in Nat /\ Len(jobs) \in Nat
        BY <3>3
      <4>4. RunsDue' = RunsDue
        BY <3>1 DEF RunsDue
      <4>5. Len(results') + Len(jobs') = Len(results) + Len(jobs)
        BY <4>2, <4>3
      <4>6. QED
        BY <3>1, <4>1, <4>4, <4>5
    <3>8. QED
      BY <3>1, <3>4, <3>5, <3>6, <3>7 DEF WorkInv
  <2>9. QED
    BY <2>3, <2>4, <2>5, <2>6, <2>7, <2>8 DEF SessionsNext
<1>3. QED
  BY <1>1, <1>2, RunsKept, RoutingKept, PTL DEF SessionsSpec

(* What the code takes for passed is what stood.                           *)
LEMMA PassedIfStood ==
  ASSUME results \in Seq(ResultSet), NEW k \in DOMAIN results
  PROVE  Passed(results[k]) <=> Stood(results[k])
<1>1. results[k] \in ResultSet
  OBVIOUS
<1>2. results[k].kind = Suite[results[k].case] /\ results[k].how \in Judged
  BY <1>1, JobsOfTheirKind
<1>3. QED
  BY <1>2 DEF Passed, Stood, Judged

(* A process that has not ended has not reported.                          *)
ExitInv ==
  /\ stage # "exited" => exit = "none" /\ report = {}
  /\ ExitTellsTruth

(* What a process exits with and reports is what its runs did, for suites  *)
(* of any length.                                                          *)
THEOREM ReportsAreTrue == SessionsSpec => []ExitTellsTruth
<1>1. SessionsInit => ExitInv
  BY DEF SessionsInit, ExitInv, ExitTellsTruth
<1>2. RunsInv /\ RoutingInv /\ WorkInv /\ ExitInv /\ [SessionsNext]_allVars => ExitInv'
  <2> SUFFICES ASSUME RunsInv, RoutingInv, WorkInv, ExitInv, [SessionsNext]_allVars PROVE ExitInv'
    OBVIOUS
  <2>1. CASE UNCHANGED <<exit, report, stage>> /\ stage # "exited"
    BY <2>1 DEF ExitInv, ExitTellsTruth
  <2>2. CASE RunStep
    BY <2>1, <2>2 DEF RunStep, processVars
  <2>3. ASSUME UNCHANGED <<exit, report>>, stage # "exited", stage' # "exited" PROVE ExitInv'
    <3>1. exit' = "none" /\ report' = {}
      BY <2>3 DEF ExitInv
    <3>2. exit' # "ok" /\ exit' # "aborted" /\ exit' \notin {"ok", "error"}
      BY <3>1
    <3>3. ExitTellsTruth'
      BY <3>2, Zenon DEF ExitTellsTruth
    <3>4. QED
      BY <3>1, <3>3 DEF ExitInv
  <2>4. CASE Raise
    BY <2>4 DEF Raise, Exit, ExitInv, ExitTellsTruth
  <2>5. CASE BootCli
    <3>1. CASE Exit("error", {})
      BY <2>5, <3>1 DEF BootCli, Exit, ExitInv, ExitTellsTruth
    <3>2. CASE StartRun(Task)
      BY <2>3, <2>5, <3>2 DEF BootCli, StartRun
    <3>3. QED
      BY <2>5, <3>1, <3>2 DEF BootCli
  <2>6. CASE BootEvals
    <3>1. CASE ~command.key
      <4>1. /\ command' = command /\ command.name # "run"
            /\ results' = <<>> /\ report' = {} /\ stage' = "exited" /\ exit' = "ok"
        BY <2>6, <3>1 DEF BootEvals, Exit, work, WorkInv
      <4>2. RunsDue' = 0 /\ Arms' = {}
        BY <3>1, <4>1 DEF RunsDue, Arms
      <4>3. Len(results') = RunsDue' /\ DOMAIN results' = {}
        BY <4>1, <4>2
      <4>4. SuiteReported'
        <5>1. \A k \in DOMAIN results' : results'[k].case = k /\ Stood(results'[k])
          BY <4>3
        <5>2. \A k \in DOMAIN results' : Stood(results[k])'
          BY <4>3
        <5>3. report' \subseteq Arms' /\ \A row \in Arms' : FALSE
          BY <4>1, <4>2
        <5>4. QED
          BY <4>1, <4>3, <5>1, <5>2, <5>3 DEF SuiteReported
      <4>5. QED
        BY <4>1, <4>4 DEF ExitInv, ExitTellsTruth
    <3>2. CASE command.key
      BY <2>3, <2>6, <3>2 DEF BootEvals
    <3>3. QED
      BY <3>1, <3>2
  <2>7. CASE EndCli
    <3>1. CASE outcome = "crashed"
      BY <2>4, <2>7, <3>1 DEF EndCli
    <3>2. CASE outcome = "aborted"
      BY <2>7, <3>2, CeilingAssumption
      DEF EndCli, Exit, RunsInv, TypeOK, Tripped, ExitInv, ExitTellsTruth, vars
    <3>3. CASE outcome \notin {"crashed", "aborted"}
      BY <2>7, <3>3 DEF EndCli, RunOver, Exit, RunsInv, TypeOK, Outcomes, ExitInv, ExitTellsTruth, vars
    <3>4. QED
      BY <3>1, <3>2, <3>3
  <2>8. CASE SetUp
    BY <2>3, <2>4, <2>8 DEF SetUp, StartRun
  <2>9. CASE Unwind
    BY <2>4, <2>9 DEF Unwind
  <2>10. CASE Judge
    BY <2>3, <2>10 DEF Judge, RunOver
  <2>11. CASE Report
    <3>1. /\ command' = command /\ results' = results
          /\ exit' = (IF command.name = "ablation" \/ PassedArms = Arms THEN "ok" ELSE "error")
          /\ report' = PassedArms /\ stage = "next" /\ stage' = "exited" /\ jobs = <<>>
      BY <2>11 DEF Report, Exit, work
    <3>2. command.name # "run"
      BY <3>1 DEF RoutingInv
    <3>3. results \in Seq(ResultSet)
      BY DEF WorkInv
    <3>4. Len(results) = RunsDue
      <4>1. Len(results) + Len(jobs) = RunsDue /\ Len(jobs) = 0
        BY <3>1, <3>2 DEF WorkInv
      <4>2. QED
        BY <3>3, <4>1
    <3>5. command.name = "evals" => \A k \in DOMAIN results : results[k].case = k
      BY <3>1, <3>3 DEF WorkInv, InOrder
    <3>6. \A row \in Arms :
            row \in PassedArms <=>
              \A k \in DOMAIN results :
                <<results[k].case, results[k].arm>> = row => Stood(results[k])
      BY <3>3, PassedIfStood DEF PassedArms
    <3>7. PassedArms \subseteq Arms
      BY DEF PassedArms
    <3>8. PassedArms = Arms <=> \A k \in DOMAIN results : Stood(results[k])
      BY <3>3, <3>6, <3>7 DEF Arms
    <3>9. RunsDue' = RunsDue /\ Arms' = Arms
      BY <3>1 DEF RunsDue, Arms
    <3>10. SuiteReported'
      BY <3>1, <3>4, <3>5, <3>6, <3>7, <3>8, <3>9 DEF SuiteReported, Stood
    <3>11. QED
      BY <3>1, <3>2, <3>10 DEF ExitInv, ExitTellsTruth
  <2>12. CASE UNCHANGED allVars
    BY <2>12 DEF allVars, vars, processVars, work, ExitInv, ExitTellsTruth, SuiteReported,
                 RunsDue, Arms, Stood
  <2>13. QED
    BY <2>2, <2>5, <2>6, <2>7, <2>8, <2>9, <2>10, <2>11, <2>12 DEF SessionsNext
<1>3. ExitInv => ExitTellsTruth
  BY DEF ExitInv
<1>4. QED
  BY <1>1, <1>2, <1>3, RunsKept, RoutingKept, WorkKept, PTL DEF SessionsSpec
=============================================================================
