------------------------------ MODULE MCReports ------------------------------
(***************************************************************************)
(* What the tools report of the code, and the memory that keeps what tools *)
(* report: one search of CodeGraph on four modules and three names, any    *)
(* calls of the Toolchain between edits, or any use of a Context.          *)
(***************************************************************************)
EXTENDS CodeGraph, Toolchain, Context

\* The three share nothing, and each behaviour is one of them.
VARIABLE part

CONSTANTS f, g, h, t1, t2, source1

\* Graphs over four modules, each with up to two imports; the first module
\* may import itself, and every module imports something from outside.
Targets(m) == {S \in SUBSET (1..4) : Cardinality(S) <= 2 /\ (m \in S => m = 1)}
MCImportGraphs ==
  {[m \in 1..4 |-> i[m] \cup {Outside}] :
     i \in {j \in [1..4 -> SUBSET (1..4)] : \A m \in 1..4 : j[m] \in Targets(m)}}

\* Two files, the first with two definitions, that call each other and may
\* share a name; the second file may also pass a function on.
Called == SUBSET {f, g, h}
MCPrograms ==
  {<<[file |-> 1, name |-> f, kind |-> kind, calls |-> c, names |-> {}],
     [file |-> 1, name |-> g, kind |-> "function", calls |-> d, names |-> {}],
     [file |-> 2, name |-> name, kind |-> other, calls |-> {Outside}, names |-> used]>> :
     kind \in {"function", "class"}, other \in {"function", "method", "variable"},
     name \in {f, h}, c \in Called, d \in Called, used \in {{}, {g}}}

NoToolchain ==
  /\ status = [t \in Tests |-> "passes"]
  /\ linted = {} /\ typed = {} /\ unformatted = {}
  /\ installed = {} /\ columns = FALSE
  /\ did = [tool |-> "none", exit |-> "reports", answer |-> [kind |-> "edit"], targets |-> {}]

NoSearch ==
  /\ request = [tool |-> "none"] /\ imports = NoImports /\ source = <<>>
  /\ answer = <<>> /\ done = TRUE
  /\ frontier = <<>> /\ seen = {}
  /\ order = [m \in Modules |-> 0] /\ low = order
  /\ stack = <<>> /\ frames = <<>>

ReportsInit ==
  /\ Init
  /\ \/ part = "search" /\ GraphInit /\ NoToolchain
     \/ part = "toolchain" /\ NoSearch /\ ToolchainInit
     \/ part = "memory" /\ NoSearch /\ NoToolchain

Search == GraphNext /\ UNCHANGED <<toolVars, vars, part>>

ReportsNext ==
  \/ Search
  \/ part = "toolchain" /\ ToolchainNext /\ UNCHANGED <<graphVars, vars, part>>
  \/ part = "memory" /\ Next /\ UNCHANGED <<graphVars, toolVars, part>>

ReportsSpec ==
  ReportsInit /\ [][ReportsNext]_<<graphVars, toolVars, vars, part>> /\ WF_graphVars(Search)
=============================================================================
