------------------------------ MODULE CodeGraph ------------------------------
(***************************************************************************)
(* The tools of tools/ast_tools.py that search the program: import cycles, *)
(* the dependency tree of a module, the call graph of a function, code     *)
(* nobody names, and where a name is defined.  A program is what the       *)
(* parser makes of it: which modules each file imports, and what it        *)
(* defines in which order.  One request is answered, step by step.         *)
(***************************************************************************)
EXTENDS Naturals, Sequences, FiniteSets, SequencesExt

CONSTANTS
  Modules,     \* the modules with a file, numbered as the files are sorted
  Names,       \* names a program uses
  Outside,     \* a module or name without a file or definition here
  None,        \* an argument that is not given
  ImportGraphs, Programs,  \* the programs asked about, a bound
  Paths,       \* the files below a path a request may give, a bound
  MaxDepth     \* the largest depth asked for, a bound

Nodes == Modules \cup Names \cup {Outside}

Definitions ==
  [file : Modules, name : Names, kind : {"function", "class", "method", "variable"},
   calls : SUBSET (Names \cup {Outside}), names : SUBSET Names]

ASSUME ProgramAssumption ==
  /\ Modules \subseteq Nat /\ IsFiniteSet(Modules) /\ IsFiniteSet(Names)
  /\ Outside \notin Modules \cup Names /\ None \notin Modules \cup Names
  /\ ImportGraphs \subseteq [Modules -> SUBSET (Modules \cup {Outside})]
  /\ Programs \subseteq Seq(Definitions)
  /\ Paths \subseteq SUBSET Modules /\ MaxDepth \in Nat

VARIABLES
  request,
  imports, source,  \* the program: imports by module, definitions file by file
  answer, done,              \* the rows of the answer so far
  frontier, seen,            \* of a breadth-first search
  order, low, stack, frames  \* of _strongly_connected: 0 for not in `order'

program == <<request, imports, source>>
breadth == <<frontier, seen>>
depth == <<order, low, stack, frames>>
graphVars == <<program, answer, done, breadth, depth>>

Cycles == [tool : {"detect_cycles"}, path : Paths]
Dependencies == [tool : {"dependency_tree"}, root : Modules, depth : 1..MaxDepth]
CallGraphs == [tool : {"call_graph"}, root : Names, depth : 1..MaxDepth]
DeadCode == [tool : {"find_dead_code"}, path : Paths]
DefinitionsOf == [tool : {"find_definition"}, root : Names, file : Modules \cup {None}]
-----------------------------------------------------------------------------
(* The program, as the tools see it                                          *)

Least(S) == CHOOSE n \in S : \A k \in S : n <= k

\* The definitions of the files below a path.
Symbols(path) == SelectSeq(source, LAMBDA d : d.file \in path)

FirstOf(name, symbols) == symbols[SelectInSeq(symbols, LAMBDA d : d.name = name)]

Defined(name, symbols) == \E k \in DOMAIN symbols : symbols[k].name = name

\* _function_index: the functions of a name, of which the first counts.
Functions(name) ==
  {k \in DOMAIN source : source[k].kind \in {"function", "method"} /\ source[k].name = name}

\* _import_graph: of the files below the path, to modules with a file.
Deps(m) == IF m \in request.path THEN (imports[m] \cap Modules) \ {m} ELSE {}
-----------------------------------------------------------------------------
(* Answers of one step                                                       *)

\* Every identifier that is not the name being defined.
Used(path) ==
  UNION {Symbols(path)[k].calls \cup Symbols(path)[k].names : k \in DOMAIN Symbols(path)}

FindDeadCode ==
  /\ request.tool = "find_dead_code" /\ ~done
  /\ answer' = SelectSeq(Symbols(request.path),
                         LAMBDA d : d.kind \in {"function", "class"} /\ d.name \notin Used(request.path))
  /\ done' = TRUE
  /\ UNCHANGED <<program, breadth, depth>>

\* No answer stands for NotFoundError.
FindDefinition ==
  LET files == IF request.file = None THEN Modules ELSE {request.file}
  IN  /\ request.tool = "find_definition" /\ ~done
      /\ answer' = IF Defined(request.root, Symbols(files))
                     THEN <<FirstOf(request.root, Symbols(files))>> ELSE <<>>
      /\ done' = TRUE
      /\ UNCHANGED <<program, breadth, depth>>
-----------------------------------------------------------------------------
(* Breadth first: the dependency tree and the call graph                     *)

Searches == {"dependency_tree", "call_graph"}

Known(node) ==
  IF request.tool = "dependency_tree" THEN node \in Modules ELSE Functions(node) # {}

\* Imports of the repository, but every call of a bare name.
Successors(node) ==
  IF request.tool = "dependency_tree" THEN imports[node] \cap Modules
  ELSE source[Least(Functions(node))].calls

Dropped(node, at) == node \in seen \/ at >= request.depth \/ ~Known(node)

\* Faulty variant: an entry that is skipped stays.
SkipAndKeep ==
  /\ frontier # <<>> /\ Dropped(frontier[1].node, frontier[1].at)
  /\ UNCHANGED graphVars

Skip ==
  /\ frontier # <<>> /\ Dropped(frontier[1].node, frontier[1].at)
  /\ frontier' = Tail(frontier)
  /\ UNCHANGED <<program, answer, done, seen, depth>>

PushedFirst(entries) == entries \o Tail(frontier)  \* faulty variant: a stack
Pushed(entries) == Tail(frontier) \o entries

Expand ==
  LET node == frontier[1].node
      found == SetToSeq(Successors(node))
      at == frontier[1].at
  IN  /\ frontier # <<>> /\ ~Dropped(node, at)
      /\ seen' = seen \cup {node}
      /\ answer' = answer \o [k \in DOMAIN found |-> <<node, found[k]>>]
      /\ frontier' = Pushed([k \in DOMAIN found |-> [node |-> found[k], at |-> at + 1]])
      /\ UNCHANGED <<program, done, depth>>

EndSearch ==
  /\ request.tool \in Searches /\ ~done /\ frontier = <<>>
  /\ done' = TRUE
  /\ UNCHANGED <<program, answer, breadth, depth>>
-----------------------------------------------------------------------------
(* Depth first: strongly connected components                                *)

Top == frames[Len(frames)]
Callers == Front(frames)
Lower(node, value) == [low EXCEPT ![node] = IF value < @ THEN value ELSE @]

\* connect(node), from the call frames given.
Connect(node, callers) ==
  LET count == 1 + Cardinality({m \in Modules : order[m] # 0})
  IN  /\ order' = [order EXCEPT ![node] = count]
      /\ low' = [low EXCEPT ![node] = count]
      /\ stack' = Append(stack, node)
      /\ frames' = Append(callers, [node |-> node, rest |-> Deps(node)])
      /\ UNCHANGED <<program, answer, done, breadth>>

StartSearch ==
  LET unvisited == {m \in request.path : order[m] = 0}
  IN  /\ request.tool = "detect_cycles" /\ ~done
      /\ frames = <<>> /\ unvisited # {}
      /\ Connect(Least(unvisited), <<>>)

Visited(node) == order[node] # 0  \* faulty variant: never off the stack
OnStack(node) == \E k \in DOMAIN stack : stack[k] = node

\* The next import of the module on top, in whatever order they are written.
Follow ==
  /\ frames # <<>>
  /\ \E nxt \in Top.rest :
       LET followed == [Top EXCEPT !.rest = @ \ {nxt}]
       IN  \/ /\ order[nxt] = 0
              /\ Connect(nxt, Append(Callers, followed))
           \/ /\ order[nxt] # 0
              /\ frames' = Append(Callers, followed)
              /\ low' = IF OnStack(nxt) THEN Lower(Top.node, order[nxt]) ELSE low
              /\ UNCHANGED <<program, answer, done, breadth, order, stack>>

\* _pop_component
Component(node) == SubSeq(stack, SelectInSeq(stack, LAMBDA m : m = node), Len(stack))

\* The module on top has no more imports: report its component if it is the
\* root of one, and return to the caller, which takes over its low.
Close ==
  LET node == Top.node
      root == low[node] = order[node]
      component == IF root THEN Component(node) ELSE <<>>
  IN  /\ frames # <<>> /\ Top.rest = {}
      /\ stack' = SubSeq(stack, 1, Len(stack) - Len(component))
      /\ answer' = IF Len(component) > 1 THEN Append(answer, ToSet(component)) ELSE answer
      /\ frames' = Callers
      /\ low' = IF Callers = <<>> THEN low ELSE Lower(Callers[Len(Callers)].node, low[node])
      /\ UNCHANGED <<program, done, breadth, order>>

EndCycles ==
  /\ request.tool = "detect_cycles" /\ ~done
  /\ frames = <<>> /\ \A m \in request.path : order[m] # 0
  /\ done' = TRUE
  /\ UNCHANGED <<program, answer, breadth, depth>>
-----------------------------------------------------------------------------
(* The specification                                                         *)

NoImports == [m \in Modules |-> {}]

GraphInit ==
  /\ \/ /\ request \in Cycles \cup Dependencies
        /\ imports \in ImportGraphs /\ source = <<>>
     \/ /\ request \in CallGraphs \cup DeadCode \cup DefinitionsOf
        /\ source \in Programs /\ imports = NoImports
  /\ answer = <<>> /\ done = FALSE
  /\ frontier = IF request.tool \in Searches THEN <<[node |-> request.root, at |-> 0]>> ELSE <<>>
  /\ seen = {}
  /\ order = [m \in Modules |-> 0] /\ low = order
  /\ stack = <<>> /\ frames = <<>>

GraphNext ==
  \/ FindDeadCode \/ FindDefinition
  \/ Skip \/ Expand \/ EndSearch
  \/ StartSearch \/ Follow \/ Close \/ EndCycles

\* One thread, which never waits: while there is a next step, it is taken.
GraphSpec == GraphInit /\ [][GraphNext]_graphVars /\ WF_graphVars(GraphNext)
-----------------------------------------------------------------------------
(* Properties                                                                *)

\* What a module imports, over however many others: whatever every set holds
\* that holds the module and what its own members import.
Closed(S) == \A m \in S : Deps(m) \subseteq S
Imported(m) == {n \in Modules : \A S \in SUBSET Modules : m \in S /\ Closed(S) => n \in S}

\* Modules that import each other.
Mutual(m) == {n \in Imported(m) : m \in Imported(n)}

\* detect_cycles reports every set of modules that import each other, whole
\* and once, and nothing else, in whatever order imports are followed.
CyclesExact ==
  done /\ request.tool = "detect_cycles" =>
    /\ ToSet(answer) = {S \in {Mutual(m) : m \in Modules} : Cardinality(S) > 1}
    /\ Len(answer) = Cardinality(ToSet(answer))

\* The edges a search follows: out of what is known.
Edges == [n \in Nodes |-> IF Known(n) THEN Successors(n) ELSE {}]

\* What is reached from a node by edges in at most so many steps.
Reached(node, edges) ==
  LET within[n \in Nat] ==
        IF n = 0 THEN {node}
        ELSE within[n - 1] \cup UNION {edges[m] : m \in within[n - 1]}
  IN  within

\* The two searches report the edges out of every known node nearer to the
\* root than the depth, and no others: a node met again on a longer way, or
\* first on it, makes no difference.
EdgesExact ==
  done /\ request.tool \in Searches =>
    LET near == Reached(request.root, Edges)[request.depth - 1]
    IN  ToSet(answer) = {edge \in near \X Nodes : edge[2] \in Edges[edge[1]]}

\* Every search ends, whatever cycles it runs into.
EveryRequestAnswered == <>done
=============================================================================
