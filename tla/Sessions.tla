------------------------------- MODULE Sessions -------------------------------
(***************************************************************************)
(* The processes that drive agent runs: `limpiador run' (cli.py), the eval *)
(* suite (evals/harness.py) and the ablation (evals/ablation.py), with the *)
(* reviewer (subagents/reviewer.py).  Each run is a BoundedRun over a      *)
(* ToolRegistry of its own, served by an adapter (agent/llm.py) built from *)
(* the process's environment, in a directory of its own.                   *)
(***************************************************************************)
EXTENDS BoundedRun, Sequences, FiniteSets

CONSTANTS
  Tools, UnknownTool,  \* as in ToolRegistry
  Scope,               \* _REVIEWER_SCOPE
  Suite,               \* the kinds of the eval cases, in order
  Repeats,             \* samples of each arm of the ablation
  None                 \* no model is named

VARIABLES
  command,    \* what was started, and its environment
  pinned,     \* LIMPIADOR_OPENAI_MODEL
  adapter,    \* the model the adapter was built with, None if it routes
  cwd,        \* where the process stands: "home", "repo" or "checkout"
  checkouts,  \* how many checkouts are on the disk
  jobs,       \* the runs to make, the current one first
  stage,      \* "boot", "next" (between runs), "running" or "exited"
  results,    \* of the runs made
  review,     \* the verdict of the latest reviewer run
  report, exit,  \* what was reported to have passed, and the exit code
  tools, loaded, lastWasSearch,  \* the registry of the run
  searched,   \* a search of this run was answered, and no load since
  emitted,    \* whether the latest call emitted [REGISTRY RESEARCH_RETRY]
  served      \* the latest model request: whether a run's first, and its model

surroundings == <<pinned, adapter, cwd, checkouts>>
work == <<jobs, results, review>>
processVars == <<command, surroundings, work, stage, report, exit>>
registryVars == <<tools, loaded, lastWasSearch, searched, emitted>>
allVars == <<vars, processVars, registryVars, served>>

Registry == INSTANCE ToolRegistry

ASSUME SuiteAssumption ==
  /\ UnknownTool \notin Tools /\ Scope \subseteq Tools
  /\ Registry!CoreNames \cap (Tools \cup {UnknownTool}) = {}
  /\ Suite \in Seq({"agent", "reviewer"}) /\ Repeats \in Nat \ {0}
  /\ None \notin {"asked", "env", "strong", "cheap"}

Commands ==
  [name : {"run"}, repo : BOOLEAN, model : {None, "asked"}, env : {None, "env"},
   mode : BOOLEAN, key : BOOLEAN]
    \cup [name : {"evals", "ablation"}, env : {None, "env"}, key : BOOLEAN]

Job(case, arm) == [kind |-> Suite[case], case |-> case, arm |-> arm]

EvalJobs == [case \in 1..Len(Suite) |-> Job(case, "dynamic")]

\* Every agent case, in order, each arm Repeats times.
AgentCases == {c \in 1..Len(Suite) : Suite[c] = "agent"}
AblationJobs ==
  LET nth(n) == CHOOSE c \in AgentCases : Cardinality({d \in AgentCases : d <= c}) = n
      arm(k) == IF k <= Repeats THEN "dynamic" ELSE "full_menu"
  IN  [n \in 1..(2 * Repeats * Cardinality(AgentCases)) |->
         Job(nth(1 + ((n - 1) \div (2 * Repeats))), arm(1 + ((n - 1) % (2 * Repeats))))]
-----------------------------------------------------------------------------
(* The adapter: which model serves a turn                                    *)

\* The adapter is pinned to a model, or routes each turn.
EvalModel == IF pinned = None THEN "strong" ELSE pinned

\* classify_turn: a turn with a tool result in its transcript is dispatch.
TurnKind == IF calls = 0 THEN "planning" ELSE "dispatch"
TierFor(kind) == IF kind = "dispatch" THEN "cheap" ELSE "strong"

\* complete, for the turn at hand.
Request ==
  served' = [first |-> calls = 0,
             model |-> IF adapter = None THEN TierFor(TurnKind) ELSE adapter]
-----------------------------------------------------------------------------
(* A run                                                                     *)

\* What is registered: build_reviewer_registry, or any other.
Menu(job) == IF job.kind = "reviewer" THEN Scope ELSE Tools

\* Faulty variant: runs share what they loaded and searched.
SharedRegistry(job) ==
  /\ tools' = Tools /\ UNCHANGED <<loaded, lastWasSearch>>
  /\ searched' = FALSE /\ emitted' = FALSE

\* A registry of the run's own; the application's, too, serves one run.  The
\* reviewer's and the full menu are loaded before the run.
FreshRegistry(job) ==
  /\ tools' = Menu(job)
  /\ loaded' = IF job.kind = "reviewer" \/ job.arm = "full_menu" THEN Menu(job) ELSE {}
  /\ lastWasSearch' = FALSE
  /\ searched' = FALSE /\ emitted' = FALSE

StartRun(job) ==
  /\ FreshRegistry(job)
  /\ phase' = "turn" /\ calls' = 0 /\ left' = 0 /\ outcome' = "none"
  /\ stage' = "running"
  /\ UNCHANGED <<served, command, results, review, report, exit>>

Calls ==
  [name : Registry!CoreNames \cup Tools \cup {UnknownTool},
   valid : BOOLEAN, tool : Tools \cup {UnknownTool}]

\* search emits the tag once its arguments are valid, before it sets the flag.
CallTool(call, verdict) ==
  /\ Registry!Dispatch(call, verdict)
  /\ emitted' = (call.name = Registry!SEARCH /\ call.valid /\ lastWasSearch)
  /\ searched' = CASE verdict = "ok" /\ call.name = Registry!SEARCH -> TRUE
                   [] verdict = "ok" /\ call.name = Registry!LOAD   -> FALSE
                   [] OTHER -> searched

RunStep ==
  /\ stage = "running"
  /\ \/ (Abort \/ CloseTurn) /\ UNCHANGED <<registryVars, served>>
     \/ (EndAtModel \/ \E n \in 1..MaxBatch : AskForCalls(n)) /\ Request /\ UNCHANGED registryVars
     \/ /\ Dispatch /\ UNCHANGED served
        /\ \E call \in Calls, verdict \in Registry!Verdicts :
             CallTool(call, verdict) /\ (verdict = "escape" => outcome' = "crashed")
  /\ UNCHANGED processVars

RunOver == stage = "running" /\ phase = "over"

\* The process ends, with what it reports.
Exit(code, passed) ==
  /\ exit' = code /\ report' = passed /\ stage' = "exited"
  /\ UNCHANGED <<vars, registryVars, served, command>>

\* An exception nothing catches.
Raise == Exit("traceback", {})
-----------------------------------------------------------------------------
(* limpiador run                                                             *)

Task == [kind |-> "agent", case |-> 1, arm |-> "dynamic"]

Buildable == command.mode /\ command.key

\* Faulty variant: the adapter reads its model before the option is exported.
BootCliAdapterFirst ==
  /\ stage = "boot" /\ command.name = "run"
  /\ command.repo /\ Buildable
  /\ adapter' = pinned
  /\ pinned' = IF command.model = None THEN pinned ELSE command.model
  /\ cwd' = "repo" /\ jobs' = <<Task>> /\ StartRun(Task) /\ UNCHANGED checkouts

BootCli ==
  /\ stage = "boot" /\ command.name = "run"
  /\ pinned' = IF command.model = None \/ ~command.repo THEN pinned ELSE command.model
  /\ \/ /\ ~command.repo \/ ~Buildable
        /\ Exit("error", {})
        /\ UNCHANGED <<adapter, cwd, checkouts, work>>
     \/ /\ command.repo /\ Buildable
        /\ adapter' = pinned'
        /\ cwd' = "repo"
        /\ jobs' = <<Task>> /\ StartRun(Task)
        /\ UNCHANGED checkouts

\* _report
EndCli ==
  /\ RunOver /\ command.name = "run"
  /\ CASE outcome = "crashed" -> Raise
       [] outcome = "aborted" -> Exit("aborted", {})
       [] OTHER               -> Exit("ok", {})
  /\ UNCHANGED <<surroundings, work>>
-----------------------------------------------------------------------------
(* The eval suite and the ablation                                           *)

\* Without a key both end well, having run nothing.  The ablation first puts
\* its queries to a registry of its own, and builds its only adapter.
BootEvals ==
  /\ stage = "boot" /\ command.name # "run"
  /\ \/ /\ ~command.key
        /\ Exit("ok", {})
        /\ UNCHANGED <<surroundings, work>>
     \/ /\ command.key
        /\ stage' = "next"
        /\ jobs' = IF command.name = "evals" THEN EvalJobs ELSE AblationJobs
        /\ IF command.name = "evals"
             THEN UNCHANGED <<adapter, registryVars>>
             ELSE /\ adapter' = EvalModel
                  /\ tools' = Tools /\ lastWasSearch' = TRUE
                  /\ UNCHANGED <<loaded, searched, emitted>>
        /\ UNCHANGED <<vars, served, command, pinned, cwd, checkouts, results, review, report, exit>>

\* checkout_fixture, outside of the `try', then the run, in the checkout.
SetUp ==
  /\ stage = "next" /\ jobs # <<>>
  /\ checkouts' = checkouts + 1
  /\ \/ Raise /\ UNCHANGED <<pinned, adapter, cwd, work>>
     \/ /\ cwd' = "checkout"
        /\ adapter' = IF command.name = "evals" THEN EvalModel ELSE adapter
        /\ StartRun(jobs[1])
        /\ UNCHANGED <<pinned, jobs>>

\* Faulty variant: no `finally' around the run.
CleanUpOnSuccess ==
  IF outcome = "crashed" THEN UNCHANGED <<cwd, checkouts>>
  ELSE cwd' = "home" /\ checkouts' = checkouts - 1

\* Both `finally' clauses, of _in_dir and of evaluate_case or _run_arm.
CleanUp == cwd' = "home" /\ checkouts' = checkouts - 1

\* The run raised, or the checks on what it left do: no later case runs.
Unwind ==
  /\ RunOver /\ command.name # "run"
  /\ CleanUp /\ Raise
  /\ UNCHANGED <<pinned, adapter, work>>

\* Faulty variant: what is no review is taken for an approval.
ParseLeniently(payload) ==
  IF outcome = "aborted" THEN "comment"
  ELSE IF payload = None THEN "approve" ELSE payload

\* _parse_review: of the run's result, None when that is no ReviewResult.
ParseReview(payload) ==
  IF outcome = "aborted" \/ payload = None THEN "comment" ELSE payload

\* Faulty variant: only the checks decide, also of a run that was cut short.
PassedByChecks(result) == result.checked
Passed(result) == result.checked /\ (result.kind = "agent" => result.how # "aborted")

\* The run's outcome and trace are checked.
Judge ==
  /\ RunOver /\ command.name # "run" /\ outcome # "crashed"
  /\ CleanUp
  /\ \E checked \in BOOLEAN :
       results' = Append(results, [kind |-> jobs[1].kind, case |-> jobs[1].case, arm |-> jobs[1].arm,
                                   how |-> outcome, checked |-> checked])
  /\ IF jobs[1].kind = "reviewer"
       THEN \E payload \in {None, "approve", "request_changes", "comment"} :
              review' = [verdict |-> ParseReview(payload), said |-> payload, how |-> outcome]
       ELSE UNCHANGED review
  /\ jobs' = Tail(jobs) /\ stage' = "next"
  /\ UNCHANGED <<vars, registryVars, served, command, pinned, adapter, report, exit>>

\* The cases, or the arms of a case, that passed in every run.
Arms == {<<results[k].case, results[k].arm>> : k \in DOMAIN results}
PassedArms ==
  {row \in Arms : \A k \in DOMAIN results :
     <<results[k].case, results[k].arm>> = row => Passed(results[k])}

Report ==
  /\ stage = "next" /\ jobs = <<>>
  /\ Exit(IF command.name = "ablation" \/ PassedArms = Arms THEN "ok" ELSE "error", PassedArms)
  /\ UNCHANGED <<surroundings, work>>
-----------------------------------------------------------------------------
(* The specification                                                         *)

SessionsInit ==
  /\ command \in Commands
  /\ pinned = command.env /\ adapter = None
  /\ cwd = "home" /\ checkouts = 0
  /\ jobs = <<>> /\ stage = "boot"
  /\ results = <<>> /\ report = {} /\ exit = "none"
  /\ review = [verdict |-> "comment", said |-> None, how |-> "aborted"]
  /\ phase = "over" /\ calls = 0 /\ left = 0 /\ outcome = "none"
  /\ tools = {} /\ loaded = {} /\ lastWasSearch = FALSE
  /\ searched = FALSE /\ emitted = FALSE
  /\ served = [first |-> TRUE, model |-> None]

SessionsNext ==
  \/ BootCli \/ BootEvals
  \/ RunStep
  \/ EndCli
  \/ SetUp \/ Unwind \/ Judge \/ Report

\* One thread, whose model calls, tools and checks return or raise.
SessionsSpec == SessionsInit /\ [][SessionsNext]_allVars /\ WF_allVars(SessionsNext)
-----------------------------------------------------------------------------
(* Properties                                                                *)

\* The debt tag counts a search only if an earlier one of the same run was
\* answered with nothing loaded since (registry.py:173-195): rejected searches
\* and failed loads do not blur it, nor does another run or the probe.
TagOnlyForFruitlessSearch == [][emitted' => searched]_<<registryVars, calls>>

\* Between two runs, and at the end however it comes, the process stands where
\* it started and no checkout is left, but for one that could not be set up
\* (harness.py:81-82: removing it is up to the caller, who never got it).
SuiteLeavesNothing ==
  command.name # "run" /\ stage \in {"next", "exited"} =>
    /\ cwd = "home"
    /\ checkouts = 0 \/ (exit = "traceback" /\ checkouts = 1 /\ outcome # "crashed")

\* A run stood if its checks did and, for an agent's, it also ended by itself;
\* a reviewer's run cut short is judged by its checks alone (harness.py:122-140).
Stood(result) ==
  result.checked /\ (Suite[result.case] = "agent" => result.how \in {"finished", "answered"})

\* Without a key nothing is run; the ablation runs the agent cases.
RunsDue ==
  IF ~command.key THEN 0
  ELSE IF command.name = "evals" THEN Len(Suite) ELSE 2 * Repeats * Cardinality(AgentCases)

SuiteReported ==
  /\ Len(results) = RunsDue
  /\ command.name = "evals" => \A k \in DOMAIN results : results[k].case = k
  /\ report \subseteq Arms
  /\ \A row \in Arms :
       row \in report <=>
         \A k \in DOMAIN results :
           <<results[k].case, results[k].arm>> = row => Stood(results[k])
  /\ exit = "ok" <=> command.name = "ablation" \/ \A k \in DOMAIN results : Stood(results[k])

\* What exit codes and reports tell.  `limpiador run' is ok if the run ended by
\* itself and aborted if it reached its ceiling.  A suite that comes to its
\* report made every run that was due, and reports as passed exactly the cases,
\* or arms of a case, all of whose runs stood.  The evals are ok if all did,
\* which without a key is of none (harness.py:169-171); the ablation is always
\* ok, so that only its report tells (ablation.py:412-416).
ExitTellsTruth ==
  IF command.name = "run"
    THEN /\ exit = "ok" => outcome \in {"finished", "answered"}
         /\ exit = "aborted" => calls >= Ceiling
    ELSE exit \in {"ok", "error"} => SuiteReported

\* A model that is named is the one asked, the command line's before that of
\* the environment, however the process was started and whatever ran before.
\* Where none is named, the evals and the ablation ask the strong one, and
\* `limpiador run' begins with the strong one and then asks one of the tiers.
ModelsDue(first) ==
  IF command.name = "run" /\ command.model # None THEN {command.model}
  ELSE IF command.env # None THEN {command.env}
  ELSE IF command.name # "run" \/ first THEN {"strong"} ELSE {"strong", "cheap"}
ModelAsAsked == [][served' # served => served'.model \in ModelsDue(served'.first)]_allVars

\* The turn that answers in words, the synthesis, is served by the strong model
\* (src/ARCHITECTURE.md:393-394).  It is not, once a tool has been called.
SynthesisEscalates ==
  stage = "running" /\ adapter = None /\ outcome = "answered" => served.model = "strong"

\* A reviewer never has a tool outside its scope at hand, whatever it tries to
\* load, and its verdict is the one of a run that ended by itself, or says that
\* there is none: never an approval nobody gave (reviewer.py:112-114).
ReviewStandsOnItsRun ==
  /\ stage = "running" /\ jobs[1].kind = "reviewer" => loaded \subseteq Scope
  /\ review.verdict # "comment" =>
       review.said = review.verdict /\ review.how \in {"finished", "answered"}

\* Every process comes to its end, whatever the model asks for.
EveryProcessExits == <>(exit # "none")
=============================================================================
