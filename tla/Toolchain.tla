------------------------------ MODULE Toolchain ------------------------------
(***************************************************************************)
(* The tools of tools/test_tools.py that start pytest, coverage, ruff and  *)
(* mypy and project what these print onto a typed result.  Between calls   *)
(* the code under test is edited.  What the programs themselves print is   *)
(* external; what the tools read out of it, and what they make of a        *)
(* program that is absent, hangs or ends early, is the code's.             *)
(***************************************************************************)
EXTENDS Naturals, FiniteSets

CONSTANTS
  Tests,    \* tests of the repository
  Sources   \* its files

Toolchains == {"pytest", "coverage", "ruff", "mypy"}

VARIABLES
  status,       \* how each test would end; a test of a file that does not import errs
  linted,       \* files with a lint violation
  typed,        \* files with a type error
  unformatted,  \* files the formatter would change
  installed,    \* the programs there are
  columns,      \* whether mypy is configured to print columns
  did           \* the latest call, what its program did, and the answer

code == <<status, linted, typed, unformatted>>
toolVars == <<code, installed, columns, did>>

Statuses == {"passes", "skips", "fails", "errs"}

\* A program ends with its report, ends without, or is killed after 300 s.
Exits == {"reports", "crashes", "hangs"}

\* How a call is answered when it has no result: by the two errors a loop can
\* tell apart, one of which it cannot fold.
Unavailable == [kind |-> "unavailable"]
Escaped == [kind |-> "escaped"]

Runs(program) == IF program \in installed THEN Exits ELSE {"absent"}

Done(tool, exit, answer) == did' = [tool |-> tool, exit |-> exit, answer |-> answer, targets |-> {}]
-----------------------------------------------------------------------------
(* pytest and coverage                                                       *)

\* The cases of the report: an import error stands for all tests there are.
Ran(targets) ==
  LET broken == {t \in targets : status[t] = "errs"}
  IN  IF broken # {} THEN broken ELSE targets

ProblemIfFailure(t) == status[t] = "fails"  \* faulty variant: <error> is missed
Problem(t) == status[t] \in {"fails", "errs"}

\* _parse_junit: whatever is no problem has passed, a skipped test as well.
Parsed(cases) ==
  [kind |-> "tests",
   passed |-> Cardinality({t \in cases : ~Problem(t)}),
   failures |-> {t \in cases : Problem(t)}]

\* Faulty variant: the program is started without looking for it.
AnswerUnchecked(exit, result, otherwise) ==
  CASE exit = "hangs"   -> Escaped
    [] exit = "reports" -> result
    [] OTHER            -> otherwise

\* _require and _run: a program that is not there is a typed error, one that
\* hangs an exception nothing folds.
Answer(exit, result, otherwise) ==
  CASE exit = "absent"  -> Unavailable
    [] exit = "hangs"   -> Escaped
    [] exit = "reports" -> result
    [] OTHER            -> otherwise

\* run_tests and run_subset; the targets may select no test at all.
RunTests(targets) ==
  \E exit \in Runs("pytest") :
    /\ did' = [tool |-> "run_tests", exit |-> exit, targets |-> targets,
                answer |-> Answer(exit, Parsed(Ran(targets)), Unavailable)]
    /\ UNCHANGED <<code, installed, columns>>

\* Two programs; how the first ends is not looked at.
Coverage ==
  \E exit \in Runs("coverage"), second \in Exits :
    LET last == IF exit \in {"absent", "hangs"} THEN exit ELSE second
    IN  /\ Done("coverage", last, Answer(last, [kind |-> "coverage"], Unavailable))
        /\ UNCHANGED <<code, installed, columns>>
-----------------------------------------------------------------------------
(* ruff and mypy                                                             *)

Verdict(issues) == [kind |-> "verdict", passed |-> issues = {}, issues |-> issues]

\* Nothing printed is no violation, also when ruff ended early.
Lint ==
  \E exit \in Runs("ruff") :
    /\ Done("lint", exit, Answer(exit, Verdict(linted), Verdict({})))
    /\ UNCHANGED <<code, installed, columns>>

\* _type_errors: the lines whose fourth part, split at colons, says error.
TypeErrors == IF columns THEN typed ELSE {}

Typecheck ==
  \E exit \in Runs("mypy") :
    /\ Done("typecheck", exit, Answer(exit, Verdict(TypeErrors), Verdict({})))
    /\ UNCHANGED <<code, installed, columns>>

\* `Would reformat: f', from its first space on.
Changed == {<<"reformat:", f>> : f \in unformatted}

\* ok is ruff's exit status: with --check, whether it would change nothing.
FormatCheck ==
  \E exit \in Runs("ruff") :
    /\ Done("format_check", exit,
            Answer(exit, Verdict(Changed), [Verdict({}) EXCEPT !.passed = FALSE]))
    /\ UNCHANGED <<code, installed, columns>>

Format ==
  \E exit \in Runs("ruff") :
    /\ Done("format", exit, Answer(exit, Verdict({}), [Verdict({}) EXCEPT !.passed = FALSE]))
    /\ unformatted' = IF exit = "reports" THEN {} ELSE unformatted
    /\ UNCHANGED <<status, linted, typed, installed, columns>>
-----------------------------------------------------------------------------
(* Edits, and the specification                                              *)

\* Other tools change the code.
Edit ==
  /\ \/ \E t \in Tests, s \in Statuses :
          status' = [status EXCEPT ![t] = s] /\ UNCHANGED <<linted, typed, unformatted>>
     \/ \E f \in Sources :
          /\ linted' \in {linted \cup {f}, linted \ {f}}
          /\ typed' \in {typed \cup {f}, typed \ {f}}
          /\ unformatted' \in {unformatted \cup {f}, unformatted \ {f}}
          /\ UNCHANGED status
  /\ Done("none", "reports", [kind |-> "edit"])
  /\ UNCHANGED <<installed, columns>>

ToolchainInit ==
  /\ status \in [Tests -> Statuses]
  /\ linted = {} /\ typed = {} /\ unformatted = {}
  /\ installed \in SUBSET Toolchains
  /\ columns \in BOOLEAN
  /\ did = [tool |-> "none", exit |-> "reports", answer |-> [kind |-> "edit"], targets |-> {}]

ToolchainNext ==
  \/ \E targets \in SUBSET Tests : RunTests(targets)
  \/ Coverage \/ Lint \/ Typecheck \/ FormatCheck \/ Format \/ Edit

ToolchainSpec == ToolchainInit /\ [][ToolchainNext]_toolVars
-----------------------------------------------------------------------------
(* Properties                                                                *)

\* schemas.py:205: a test result is ok only when nothing failed, `the signal
\* that ends the fix loop': until the next edit none of the tests asked for
\* would fail, and what it lists as failed would, import errors included.
GreenMeansNothingFails ==
  did.answer.kind = "tests" =>
    /\ did.answer.failures = {} => \A t \in did.targets : status[t] \in {"passes", "skips"}
    /\ \A t \in did.answer.failures : status[t] \in {"fails", "errs"}

\* No tool reports on code its program never looked at because it is not
\* there: not even those that read silence as a pass.
NoVerdictWithoutProgram ==
  did.answer.kind \in {"tests", "coverage", "verdict"} =>
    CASE did.tool = "run_tests" -> "pytest" \in installed
      [] did.tool = "coverage"  -> "coverage" \in installed
      [] did.tool = "typecheck" -> "mypy" \in installed
      [] OTHER -> "ruff" \in installed

\* test_tools.py:265: "Run the type checker (mypy) and report type errors."
\* A line without a column has its error in the third part.
TypeErrorsReported ==
  did.tool = "typecheck" /\ did.answer.kind = "verdict" /\ did.exit = "reports" =>
    did.answer.issues = typed
=============================================================================
