# limpiador in TLA+

limpiador is a git maintenance agent: one process, one thread, that asks a
language model what to do, dispatches the tool calls the model answers with,
keeps their results within a context budget, and stops at a ceiling of calls.
This directory holds the TLA+ modules of it, the TLC configurations that
check them on small instances, and the theorems TLAPS checks about them.
Paths below are those of the repository; `agent/`, `tools/`, `observability/`
and `subagents/` stand for the directories of `src/limpiador/`.

- [Inventory](#inventory)
- [Modules](#modules-and-the-code-they-model)
- [Runs](#runs)
- [Fairness](#fairness)
- [Theorems](#theorems)
- [What the code does otherwise than its documents say](#divergences)
- [Abstractions](#abstractions), [what is not modelled](#not-modelled), [plan](#plan)

## Inventory

| component | state it keeps | operations | correct if |
|---|---|---|---|
| turn loop, `agent/loop.py` `run` | transcript, the batch being dispatched, the first `finish` of a turn | check the guard, ask the model, dispatch a call and fold its result or error, apply plan verbs, compact, finish | it ends; every call is answered once and in order; the result is the first accepted finish; a failed call never ends the run |
| call guard, `agent/guard.py` | a counter | `check`, `record` | the overshoot of the ceiling is less than one batch |
| working memory, `agent/context.py` | plan, symbol facts, payload log, files read | add, resolve, record, pin, release, compact | durable state survives, the latest result stays raw, the footprint does not accumulate |
| registry, `tools/registry.py` | tools, loaded set, one search flag | register, search, load, dispatch, protocol verbs, schemas | no tool runs before it was loaded; the debt tag is no false alarm, within a run or after another |
| tool contract and errors, `tools/base.py`, `observability/errors.py` | none | validate, run, validate | every failure the model can act on is a `ToolError` |
| GitHub boundary, `observability/retry.py`, `tools/github_client.py`, `tools/github_tools.py` | token bucket, backoff, session | acquire, attempt, back off, give up, submit or downgrade a review | the rate is kept, retries are spaced and bounded, an answer says what was posted |
| fs tools, `tools/fs_tools.py` | the working tree | write, delete, mkdir, move, apply_patch and six readers | a patch is applied in full or refused without a change |
| ast tools, `tools/ast_tools.py` | none | references, rename, extract, definitions, call graph, dependency tree, cycles, dead code | a rename replaces every reference and nothing else; cycles and edges are reported exactly; every search ends |
| git tools, `tools/git_tools.py` | the repository | status to push, branches, stash, reset | nothing is committed on a protected branch, nor pushed to one that is named; no call loses unsaved work or what others pushed; a refused call changes nothing |
| test and CI tools, `tools/test_tools.py` | none | run a subprocess, dispatch a workflow | a pass means that nothing fails, and that something looked; the run id is the dispatched run's |
| LLM adapter, `agent/llm.py` | the model it is pinned to | build, classify a turn, route, complete | a model that is named serves every turn; otherwise the tier does that the turn calls for |
| reviewer, `subagents/reviewer.py` | a registry of its own | run a scoped loop, project a verdict | it stays in its scope; a run cut short is no approval |
| CLI, `cli.py` | the environment, the working directory | check, export the model, build the adapter, run, exit | the exit code tells how the run ended |
| tracing, schemas | records; none | emit; declare | nothing is decided by them |
| evaluation harness, `src/evals/` | a checkout and a working directory per case | set up, run, judge, report | cases do not see one another; what is reported as passed did, in every run |

How they interact. The CLI builds a registry, a context, a guard and an adapter
and calls `run`. Each turn `run` consults the guard, sends the transcript to
the adapter and gets text or a batch of calls. Each call is counted, dispatched
by the registry, which validates it and runs the tool, and its result, or the
`ToolError` it raised, is appended both to the transcript and to the context.
After a batch the context is compacted and the summaries of what it evicted
are copied into the transcript. GitHub tools go through one boundary per
process, whose token bucket and retries sleep on the loop's own thread. The
file and git tools share the working tree, and the git tools the remote with
everyone else. A reviewer's run has a registry of its own, and nothing of it
but its verdict comes back. The eval suite and the ablation start one run after
the other in one process, each in a checkout they make, enter, leave and
remove.

What makes it hard. There is no concurrency inside the process: the hazards
are orders of events. A model may send any calls in any order, in batches,
malformed, repeated, or relying on what an earlier call has made stale; a tool
may be refused, may fail with an error the loop folds or with one it does not;
a remote may fail before or after it did what was asked, and its reply may be
lost; a sleep may overrun; others push to the same remote; the second of two
git commands may fail after the first; a program may be missing or end early;
compaction interferes with what was said before; and what one run leaves behind
meets the next.
`PROJECT.json` lists each hazard at the line where it bites, with the properties
that would catch it.

## Modules and the code they model

**BoundedRun** is the abstract specification of the loop: a counter, the calls
left of a batch, how the run ended. One action per way the loop can go on
(`Abort`, `AskForCalls`, `EndAtModel`, `Dispatch`, `CloseTurn`). It promises
that a run ends, by how much it may pass the ceiling, and that the three ways
of returning agree with the count. AgentLoop implements it, and Sessions
builds on it.

**Context** models `agent/context.py`. The plan is a set of descriptions and
the subset resolved; a payload is its key, kind, pin and the lengths of its raw
text and its summary; `Gone` for the raw length means evicted. One action per
method. `Compacted` is `compact` with its threshold test, the choice of what it
may evict and the order of eviction. `RereadTagExact` is about the interface of
this module: the loop records no payload of kind FILE (`loop.py:266-280`), so
in a run of the agent nothing is ever tagged as reread.

**ToolRegistry** models `tools/registry.py` and the validation of
`tools/base.py`: `Dispatch`, with one verdict per way a call can end. AgentLoop
and Sessions instantiate it; what is registered is part of their initial
states.

**AgentLoop** composes the three with the loop and the guard: `ToolRegistry`
and `Context` are instantiated on the loop's own variables, so the registry's
`Dispatch` and the memory's `Compacted` are conjuncts of the loop's actions. An
action is what happens between two calls to the outside: asking the model,
dispatching one call with all the loop does about it (count, dispatch, fold,
record, plan verb, finish), closing the turn (compaction, sync, return).
`ImplementsBoundedRun` maps the batch to its length and the three exceptions
to one outcome.

**TokenBucket** models `TokenBucket` of `observability/retry.py` over integer
ticks: a token is `Cost` ticks, `tokens` counts ticks saved up, so no fraction
is ever lost or rounded. **GitHubCalls** composes it with the policy, the
boundary and the tools that write. `call` is where the one current call stands
(acquire, request, backoff, idle); `remote` is what GitHub holds; `lost` counts,
per call, writes whose reply was lost or that a failed attempt left behind. A
request may fail before the write, fail after it (`LoseReply`), be refused, or
raise an error nothing retries; a verdict on one's own pull request may, too,
get a 422 for another reason than that, which is raised again (`Reject`). `create_issue` is the same call as
`comment_issue`: one that adds. `trigger_ci` writes, then reads the run back in
the same retried operation.

**Worktree** models the tools that change files (`tools/fs_tools.py`) and the
pair `find_references`, `rename_symbol` of `tools/ast_tools.py`. A file is its
lines and whether the last one ends in a newline; `Joined` is what the text
made of some lines reads back as. `ApplyPatch` plans every section against the
tree as it was and then writes them in turn until the file system refuses one,
as the code does. `Align`, `Consume` and `ApplyHunks` are the cursor arithmetic
of `_apply_hunks`, recursive functions on the hunks and lines there are.
`RenameSymbol` splices from the last site to the first, by position only. A
patch and a `RefList` are held by the agent and may be stale when used. The
diffs it may write (`Diffs`) are defined from what a unified diff is, not from
the tool. The constant `Texts` bounds the files of the first tree, which may
also lack their last newline, and what the agent wants files to say; the module
assumes of it only that lines and their characters are within the bounds. A
patch reaches its goal to the last newline, where joining lines with newlines
can say it: the three cases in which it cannot are named in `Unsayable`.

**BranchPolicy** is the abstract specification of the git tools for the
protected branches, and for nothing else: commits are numbered as they are
made, a protected branch here only moves to one made before, and at the remote
only someone else moves it (`Receive`), or a push that goes round the guard
(`Slip`), which may move it to any commit or delete it. The last is what the
code allows, not what its comments say: `push_guard` below refutes those.

**GitRepo** models `tools/git_tools.py`: each tool is an action over its
request and how it is answered: accepted, one of the two errors the loop folds,
or an exception of GitPython that escapes. The actions follow the git commands
a tool issues, in their order, so that a tool of two commands may be refused
after the first (`CreateAndSwitch`). `Carries`, `Moved`, `Stashed` and
`StashPop` are git's own rules for switching over local changes and for
stashing, established from git's behaviour on small repositories, file by file.
A refspec is its two sides as the caller writes them. The guard of `push`
(`PushRejected`) compares them as written; what git makes of them (`Destinations`,
`Sent`) comes after: `HEAD`, the short form `heads/b`, the pattern
`refs/heads/*`, `:` for the branches both repositories have, `:b` to delete b,
with the force flag or a leading `+`. `Roundabout` names the refspecs whose
destination the guard does not see.
`OthersPush` is everybody else. `Status`, `Log` and `Blame` are what the readers
answer, used by a property about commits. `ImplementsPolicy` maps the number of
commits and the protected branches onto BranchPolicy.

**CodeGraph** models the searches of `tools/ast_tools.py` over a parsed program:
the two breadth-first searches as one loop with a frontier (`Skip`, `Expand`,
`EndSearch`), the strongly connected components with their stack and low links,
one action per step of the recursion (`StartSearch`, `Follow`, `Close`,
`EndCycles`), and the tools that answer at once. A program is a set of imports
per module, or a list of definitions with what each calls and names. The
reference definitions are independent of the searches: `Imported` is the least
set closed under imports, `Reached` the levels of the graph by recursion on the
number of steps.

**Toolchain** models the tools of `tools/test_tools.py` that start a program: how
the program may end (absent, hanging, early, reporting), what it prints for the
state the code is in, and what the tool makes of that.

**Sessions** models the processes: `limpiador run`, the eval suite and the
ablation, from their start to their exit, with environment, working directory,
checkouts, the adapter and its routing, the reviewer's scope and verdict. What
an exit code tells differs: `limpiador run` answers ok if the run ended by
itself; the evals if every case that ran stood, which without a key is none,
and a reviewer's run cut short stands by its checks alone; the ablation always.
`ExitTellsTruth` states just that, and that the report lists exactly what
stood. `ModelsDue` says which model a process may ask. It
EXTENDS BoundedRun for each run, in place of the whole AgentLoop, and
instantiates ToolRegistry for its calls; `StartRun` is what a new run resets.

**MCAgentLoop**, **MCWorktree**, **MCGitRepo** and **MCSessions** give constants
their values. **MCReports** puts CodeGraph, Toolchain and Context side by side: a
behaviour (`part`) is one search, any calls of the toolchain between edits, or
any use of a working memory.

## Runs

All numbers are bounds of the run, not of the theorems.

| run | shows | bounds and why they are enough |
|---|---|---|
| `agent_loop` | discovery is forced, the plan is the sum of its verbs, the result is the first accepted finish | ceiling 3, batches of two, one tool, every kind of call valid and not; ids repeat as those of a scripted model do |
| `memory_and_wire` | transcript and memory mirror each other, calls are answered in order, the latest result is raw, the footprint is controlled, and the loop implements BoundedRun with its liveness | six calls, results of 8 and 400 characters against a threshold of 60 tokens: several compactions in one run, with batches that straddle them |
| `github_calls` | rate, spacing of attempts, no needless wait, accounting of writes, honest answers, every call answered | two calls, three attempts, failures among the first three requests (`MaxFaulty`), burst 2, two ticks a token, sleeps late by one tick, an older run and an unpushed branch among the initial states |
| `worktree` | a patch for the present files reaches its goal to the last newline, one for earlier files lands only where its lines stand, a refusal changes nothing, a rename is exact | two files, three tools in a row (resolve or draft, disturb, use), patches of two hunks or of two sections, texts of blank lines alone, blank lines before and after others, files that break off in their last line, a line with two references and an attribute of the same name |
| `git_repo` | unsaved work and what others pushed are kept, a refused call leaves the repository, a commit is what status showed, and the tools implement BranchPolicy | two branches, one protected, two files of two texts, three commits, one stash entry, seven calls or edits (`MaxSteps`): enough to stash, commit and pop into a conflict, or to branch, commit, push, be overtaken and push again, with refspecs in every form. Starts from an empty repository or one commit, on either branch, so that a commit of unmerged files is among the seven |
| `reports_and_memory` | cycles and edges are exact, every search ends, a pass means nothing fails, no verdict without a program; a reread is tagged exactly when it is one, a compaction reaches its floor, durable state and the payload log survive | every import graph of four modules with up to two imports each and a self import: nested, overlapping and disjoint cycles and edges between closed components; programs of three definitions in two files, with a shared name; depth up to 3; two tests, one source file, every set of programs installed. Of the memory: two keys, a short and a long text around the summary's length, three payloads: one evicted, one spared and one pinned side by side |
| `sessions` | calls stay bounded, every process exits, no flag leaks into the next run, nothing is left behind, exit codes and reports tell what runs did, a model that is named serves every turn, a review stands on its run | ceiling 3, batches of two; a suite of one agent's and one reviewer's case; both arms of the ablation twice, so that one of two samples may fail; two tools, one of them outside of the reviewer's scope |
| `rejection_crashes` | violated: a rejected call never raises out of `run` | |
| `patch_in_full` | violated: a patch answered as applied is applied in full | two lines, two sections |
| `push_guard` | violated: no push moves a protected branch | one file, three commits, two of them in the first history |
| `typecheck_blind` | violated: the type checker's errors are reported | one source file |
| `synthesis_cheap` | violated: the turn that answers is served by the strong model | those of `sessions` |

Deadlock is not checked where the system stops or a bound stops it: the agent
may stop calling tools (`github_calls`, the worktree and git runs), a search
has ended (`reports_and_memory`), a process has exited (`sessions`). In the worktree runs the
files and in the git runs the texts are interchangeable (`SYMMETRY`), and how
the latest tool ended is left out of the states compared (`VIEW`): no action
reads it, and the properties about it are about steps, which TLC checks on
every step it computes. Neither is used with liveness. `git_repo` does not go on
from what the last call reaches (`CONSTRAINT`), where no action is enabled: it
only saves TLC from finding that out.

The operators marked as faulty variants in the modules stand for plausible
bugs: substituted for the definition that follows them, each makes one property
fail. They are part of no specification.

## Fairness

BoundedRun and AgentLoop assume weak fairness of their next-state relation:
`run` is one thread that waits on nothing but the model call and the tools, so
it goes on as long as those return or raise. Nothing is assumed about what the
model answers: it may ask for tools forever, and the guard ends the run.
Sessions assumes the same of a whole process, which is that thread. CodeGraph
assumes it of its searches, which wait on nothing at all.
GitHubCalls assumes weak fairness of `Work`, the steps of the call under way,
not of new calls nor of the passing of time: the boundary works on the same
thread, its sleeps are finite, and a request ends with an answer, a refusal or
an error, the client's timeout included. Nothing is assumed about requests
succeeding: the number of attempts ends the call. Worktree, GitRepo and
Toolchain state safety properties only and assume none.

## Theorems

For every value of the constants that satisfies the modules' assumptions, of
any length of behaviour:

| module | theorems | invariant behind them |
|---|---|---|
| ContextProofs | types, `LatestPayloadLive`, `CompactionIdempotent`, `CompactionReachesFloor`, `DurableStateSurvives`, `PayloadLogPreserved`, `RereadTagExact` | the type invariant, and that the last payload is never a candidate; idempotence follows from how eviction changes the set of candidates, for a log of any length. `ReadsInv`: the files remembered as read are those the log holds a read of, which eviction does not change, for it takes texts and not keys |
| AgentLoopProofs | types, `CallsAnsweredInOrder`, `FinishIsFirstAccepted`, `LoadedBeforeUse`, `PlanIsSumOfVerbs`, and that every step is a step of BoundedRun or a stutter; `FootprintControlled`, `WireMirrorsMemory`, `LatestResultRaw` | `LoopInv`: asked, answered and left calls add up, and the count is the length of the transcript. `FinishInv`: `finished` points at the first finish of the turn, and earlier turns held none. `LoadInv`: whatever is loaded has a load in the transcript. `MemoryInv` and `MirrorInv`: message i shows payload i, raw as long as it is live. The last two assume unique ids (`~ReusesIds`); with repeated ones they are false |
| SessionsProofs | of BoundedRun: types, `CallsBounded`, `OutcomeAgreesWithCount`; of the processes: `CallsBounded`, `TagOnlyForFruitlessSearch`, `SuiteLeavesNothing`, `ReviewStandsOnItsRun`, `ModelAsAsked`, `ExitTellsTruth` | Of a run: `BoundInv`: while a batch is dispatched, what is counted and what is left together stay less than one batch over the ceiling, since the turn began below it. `OutcomeInv`: a finished run has dispatched a call, which needs that a turn in dispatch always has calls behind it or before it. Of the processes: `RunsInv`: each run began with its own counts and stays within its ceiling. `FlagInv`: during a run the registry's search flag is set only by a search of that run. `PlaceInv`: a checkout is there exactly while its run is on, and the process is at home between runs; one is left only where making it raised. `VerdictInv`: a verdict other than a comment is the one the run said, and the run was not cut short. `MenuInv`: a run's registry holds the menu of its job, and nothing outside of it is loaded. `RoutingInv`: what the environment and the adapter say while a run is served is what its process was asked for. `WorkInv` and `InOrder`: runs made and runs to make add up to those that are due, in the order of the suite. `ExitInv`: nothing is reported before the exit |
| GitHubCallsProofs | of the bucket: `RateRespected`, `WaitsOnlyOverTheRate`; of the calls: the calls implement the bucket, hence the rate and the waits; types, `GaveUpExhausted`, `WritesAccounted`, `ReviewTruthful`, `AttemptsSpaced` | `BucketInv`: at the latest refill the tokens are no more than what any stretch of admitted calls leaves of the burst and the rate (`Metered`), and they are exactly that for one stretch, or full before the first call (`FullOrExact`). The rate alone is not inductive: it says nothing of the tokens still held. The bucket's theorems carry over through the refinement; `Accounts`: what the remote holds of a call is what its answer claims plus what was lost, the write in flight included. `ReviewInv`: all that the remote holds of a review, lost attempts included, carries the event last submitted, and on one's own pull request that is a comment, so a verdict that degrades has left nothing before. It holds of calls that end in an error as well, a 422 raised again among them. `Waited`: a call that waits for the token of its next attempt has waited since the last one as long as the spacing of that attempt; the delay the code computes is the spacing the property asks for, by induction on the attempt |
| GitRepoProofs | types, `ImplementsPolicy`, `UnsavedWorkKept`, `RefusalLeavesRepository`, `OthersWorkKept`, `CommitIsWhatReadersShow` | `GitTypeOK`, which says that parents come before their children and that refs, stash and tree refer to commits there are. The refinement is proved action by action: a commit is made only where the guard lets it, and a push that moves a protected branch has a refspec whose destination the guard does not see (`Roundabout`), for whatever it names plainly is compared with the protected names. The two action properties follow from what each git command may touch. The last two are about the ancestors of a commit, in a history of any length (`Ancestry`): every commit has an ancestry (`AncestryExists`), what is appended to the history changes nobody's, and no commit reaches a newer one; so a push that git accepts as a fast forward carries what others pushed, and what a commit holds is read from its parent, which is older |
| ReportsProofs | of CodeGraph: `EdgesExact`, `CyclesExact`; of Toolchain: `GreenMeansNothingFails`, `NoVerdictWithoutProgram` | `BreadthInv`: the frontier is sorted by distance from the root and holds one of two levels; whatever level its first entry is of has been found whole, and nothing found is forgotten: it is expanded, waiting, or has no edges. `DepthInv` is the invariant of the search for components: the open modules fall into one segment per call under way; each segment leads to its call's module and back (`SegmentsMutual`), and the calls lead one into the next; a low is as low as whatever open module the segment leads to (`LowBelow`) and no lower than what its module reaches (`LowReached`); nothing leads back from what was taken off the stack (`GoneClosed`). So the segment of a module whose low is its own number is a whole component, and any other belongs to the caller's. Of Toolchain: `CodeTypeOK`, and that every answer is what the program that gave it says of the state of the code |
| WorktreeProofs | types, `RefusalChangesNothing`, `AppliedWhereItStands`, `PatchReachesGoal`, `RenameExact` | `WorktreeInv`: every path holds a file, a directory or nothing (`TreeOK`), no file is beyond the bounds on its lines and their length (`SmallTree`), every section of a held patch is one a diff from its base to its goal can be (`PatchOK`), held references are places in a file (`ReferencesOK`). By induction over the hunks of a diff: the old lines of every hunk that fits stand where it says (`HunksStand`), and a file the diff was made for is, down to a hunk's end, the goal (`HunkReaches`). Nothing is assumed of the texts but their bounds: blank lines and files without a last newline are among them, and `Unsayable` names what is excepted. Every file of a patch is written once and none is refused (`CommitWritesAll`). By induction over the sites of a line: spliced from the last, it is as before up to a column that no site reaches over, and renamed from there on (`RenamedDownTo`), as sites never overlap (`SitesApart`) |
| Induction | lemmas only: `EveryNatural`, `LeastNatural`, and that what is defined by recursion over the naturals is what it says (`RecursionUnrolls`) | well founded induction in the one form the provers can use: of a set of naturals, not of a predicate, so that every use names the set of those for which the claim holds. Recursive functions are unrolled by exhibiting a solution of their equation |

The theorems are stated for the specification without fairness where it has a
name of its own (`SafeSpec`), and so hold with it. Each has the same shape: the
initial states satisfy the invariant, every action keeps it (one step per
action), and it implies the property. Sums and products are handled by small
lemmas over integers; facts about sequences by lemmas on appending, cutting,
taking the tail and updating pointwise.

Several of these theorems are about functions defined by recursion: delays,
levels of a graph, ancestors, hunks applied in turn, sites spliced in turn. The
library's induction theorems take a predicate as a parameter and cannot be
cited here, so each such proof goes over the set of the numbers for which the
claim holds, by `EveryNatural` of Induction, and the recursive definition is
unfolded once, by a lemma of its own, before it is used.

What stays with TLC: the liveness properties (`EveryProcessExits`,
`ImplementsBoundedRun` as a whole, `EveryCallAnswered`, `EveryRequestAnswered`)
and ENABLED, which the installed provers do not handle. Every other property of
the passing runs, invariant or action property, has its theorem.
`TypeOK` of the modules, `LatestPayloadLive`, `CompactionIdempotent` and
`OutcomeAgreesWithCount` are proved and not run: they hold for every
instance.

## Divergences

Five are runs that TLC refutes, each quoted in `PROJECT.json`:

- a rejected `finish` or `plan_add` raises out of `run`, though failures are
  documented as folded back;
- of two sections of one patch for the same file, the second silently undoes
  the first, and the answer is that the patch was applied;
- `git.push` compares the two sides of a refspec with the protected names as
  they are written, before git resolves them, so `HEAD`, `heads/main`,
  `feature:heads/main`, `:heads/main`, `:` and `refs/heads/*` move or delete a
  protected branch of the remote (`git_tools.py:131`);
- type errors that mypy prints without a column, as it does by default, are
  not reported (`test_tools.py:251`);
- once a tool has been called every turn goes to the cheap tier, the one that
  synthesises the results and answers included (`llm.py:107-117`), though
  synthesis is documented to escalate.

Others the models contain as the code has them, without a run of their own.
In the loop, the memory and the boundary:

- a plan verb the registry rejected is still applied to the plan (`loop.py:143`);
- `plan_resolve` strips its description and `plan_add` does not
  (`loop.py:294`, `297`), so a step planned with surrounding spaces cannot be
  resolved;
- of a batch, all results but the last may be summarised before the model has
  been sent any of them (`context.py:271`), where `ARCHITECTURE.md:285-286`
  speaks of results no longer needed;
- with repeated call ids a summary lands on the last message that carries the
  id (`loop.py:315`), which is why the mirror theorems assume unique ids;
- eviction can raise the footprint, when a summary is longer than its text
  (`context.py:276`);
- a search after a plan verb is not tagged as fruitless (`registry.py:201`):
  the tag has no false alarm, but misses some;
- after a lost reply `create_pr` is refused, and the remedy it gives is for a
  branch that was not pushed (`github_tools.py:405-411`);
- `trigger_ci` answers with the newest listed run, which may be an older one,
  and raises `StopIteration` past the loop when none is listed yet
  (`test_tools.py:310-317`); when the read fails the dispatch is repeated.

In the tools that work on the checkout:

- references resolved before an edit are spliced where they point, whatever is
  there now; only a line outside the file is refused (`ast_tools.py:592`);
- a patch that leaves a file without lines writes one blank line, one that
  creates a file of one blank line leaves it empty, and one that ends a file
  without a last newline in a blank line loses that line
  (`fs_tools.py:413-422`);
- an error of the file system in the middle of a patch leaves the sections
  before it written (`fs_tools.py:452-457`);
- a failing `stash` or a `commit` with unmerged files raises an exception of
  GitPython's past the loop, though every failure is said to be typed
  (`git_tools.py:4-5`); a new branch stays when the checkout after it fails;
  `reset` moves a protected branch as it does any other;
- `AstCallGraphRequest.file` is ignored; `find_dead_code` looks for uses within
  `request.path` only; relative imports, and modules imported from their
  package, are no edges of the import graph;
- `lint` and `typecheck` take silence for a pass, also of a program that ended
  early; `format --check` reports names as `reformat: path`, and `format`
  reports none; a test run that selects nothing, or only skipped tests, is ok.

In the evaluation harness: a fixture whose checkout fails leaves its directory
behind, and an exception in one case ends the suite without a report.

## Abstractions

- A text is its length in Context, a sequence of lines in Worktree, and nothing
  elsewhere. Ids, names and descriptions are compared, never built, but for
  `str.strip`, which is the constant `Strip`.
- Time is in integer ticks, and every duration of the code a multiple of one.
  The bucket's float rounding is not modelled. The time a request takes is part
  of the time that passes between the calls of the bucket.
- The model is nondeterministic: any batch of any of the calls in `Calls`.
- Sessions has BoundedRun, not AgentLoop, for a run: it keeps how runs begin,
  count and end, and which calls the registry accepts, and leaves out memory
  and plan. The ablation's probe of the registry counts only when there is a
  key, and removing a checkout succeeds: the code ignores its errors.
- A case's checks are nondeterministic, and what a reviewer's run finishes with
  is a verdict or something that is none.
- GitRepo's files are whole: a merge of two changes to one file conflicts. Its
  histories have no merges, renames do not occur, `checkout` is given refs and
  not paths, and remote-tracking branches are not among the refs. Nothing
  fetches: no tool does. The reply to a push is not lost. Tags, patterns that
  name one branch (`refs/heads/m*`) and options in the place of a refspec
  (`--all`) are not among the refspecs, and what git makes of `heads/b` where
  the remote has no b, a branch called `heads/b`, is not recorded.
- CodeGraph's modules and names are taken from the parse tree by a library, and
  what it cannot resolve is `Outside`.
- Toolchain's programs report the state of the code truthfully when they
  report at all.
- What a call ends with is one verdict of the registry: accepted, one of the
  errors the loop folds, or an exception it does not.
- Worktree's paths lie in the root of the tree: parent directories exist. What
  is moved into a directory leaves the paths modelled. Characters are one byte.
  A hunk without any old line, and a body line that lacks its leading space,
  are not among the diffs the agent writes. A patch is its sections and hunks,
  not text: what the parser takes for the end of a hunk is left out, as a
  dropped line that starts with `-- ` and so reads as a header
  (`fs_tools.py:354`), or the marker of a missing last newline. A `RefList` comes from
  `find_references`; one made up by the model is not among the inputs.

## Not modelled

- `extract_function` of the ast tools: what it writes depends on an analysis
  of free names by the parser.
- The tools that only read, of the fs, GitHub and CI namespaces: they change
  nothing and filter what a library returns.
- The schemas offered to the model and the fingerprint of their cacheable
  prefix, which is that of the core schemas, in every turn the same.
- The translation of messages to and from the provider's format, and the
  rendering of the task state: formats, about which no property is stated.
- The metrics of the ablation and the layout of its report; the cases' own
  checks.
- Tracing, which decides nothing; schemas other than those of the tools
  modelled, scripts and build files, which hold no behaviour.
- The tree-sitter parser, PyGithub, git and the providers' clients are
  libraries, and appear as what they may answer.

## Plan

Done, in this order: BoundedRun, Context, ToolRegistry, AgentLoop with its
refinement, their theorems; TokenBucket and GitHubCalls with theirs; Worktree;
BranchPolicy and GitRepo with their refinement and theorems; CodeGraph and
Toolchain; Sessions and its theorems; the theorems of Toolchain, of the breadth
first searches, of the search for components and of Worktree.

Left:

1. `extract_function` in Worktree, with a reference definition of the names a
   block reads and writes.

