---------------------------- MODULE ReportsProofs ----------------------------
(***************************************************************************)
(* What the tools report of the code is so: the searches of CodeGraph, for *)
(* every program, and the runs of Toolchain, for every state of the code.  *)
(***************************************************************************)
EXTENDS CodeGraph, Toolchain, Induction, FiniteSetTheorems, SequenceTheorems

(* What a search works through, and where the breadth-first one stands.    *)
GraphTypeOK ==
  /\ request \in Cycles \cup Dependencies \cup CallGraphs \cup DeadCode \cup DefinitionsOf
  /\ imports \in [Modules -> SUBSET (Modules \cup {Outside})]
  /\ source \in Seq(Definitions)

Entries == [node : Nodes, at : Nat]
Queued == {frontier[k] : k \in 1..Len(frontier)}

KnownNodes == {n \in Nodes : Known(n)}
Within == Reached(request.root, Edges)

FrontierTyped == frontier \in Seq(Entries)

\* First come the entries of one distance, then those one further.
FrontierInOrder ==
  \A j, k \in 1..Len(frontier) :
    /\ j <= k => frontier[j].at <= frontier[k].at
    /\ frontier[k].at <= frontier[1].at + 1

\* Nothing is met that is further away than it was counted to be.
FrontierNear == \A e \in Queued : e.at <= request.depth /\ e.node \in Within[e.at]

SeenNear == seen \subseteq KnownNodes \cap Within[request.depth - 1]

AnswerSoFar ==
  ToSet(answer) = {edge \in seen \X Nodes : edge[2] \in Edges[edge[1]]}

\* A known node that is accounted for was searched or waits.
Accounted == {n \in Nodes : n \in KnownNodes => n \in seen \/ \E e \in Queued : e.node = n}

EverythingNearSeen == Within[request.depth - 1] \cap KnownNodes \subseteq seen

NothingForgotten ==
  request.root \in Accounted /\ \A n \in seen : Edges[n] \subseteq Accounted

LevelComplete ==
  frontier # <<>> =>
    /\ frontier[1].at < request.depth
    /\ \A n \in Within[frontier[1].at] \cap KnownNodes :
         n \in seen \/ \E e \in Queued : e.node = n /\ e.at = frontier[1].at

BreadthInv ==
  request.tool \in Searches =>
    /\ frames = <<>> /\ answer \in Seq(Nodes \X Nodes)
    /\ FrontierTyped /\ FrontierInOrder /\ FrontierNear
    /\ SeenNear /\ AnswerSoFar
    /\ EverythingNearSeen \/ (NothingForgotten /\ LevelComplete)
    /\ done => frontier = <<>>
-----------------------------------------------------------------------------
(* Lemmas on the operators                                                   *)

\* A finite set put in a row holds what the set holds.
LEMMA SetInARow ==
  ASSUME NEW S, IsFiniteSet(S)
  PROVE  SetToSeq(S) \in Seq(S) /\ ToSet(SetToSeq(S)) = S
<1> DEFINE n == Cardinality(S)
<1>1. n \in Nat /\ ExistsBijection(1..n, S)
  BY FS_CardinalityType
<1>2. \E f \in [1..n -> S] : IsInjective(f)
  BY <1>1 DEF ExistsBijection, Bijection, Injection, IsInjective
<1>3. SetToSeq(S) \in [1..n -> S] /\ IsInjective(SetToSeq(S))
  BY <1>2 DEF SetToSeq
<1>4. SetToSeq(S) \in Injection(1..n, S)
  BY <1>3 DEF Injection
<1>5. IsFiniteSet(1..n) /\ Cardinality(1..n) = n
  BY <1>1, FS_Interval
<1>6. SetToSeq(S) \in Surjection(1..n, S)
  BY <1>4, <1>5, FS_Injection
<1>7. DOMAIN SetToSeq(S) = 1..n
  BY <1>3
<1> HIDE DEF n
<1>8. ToSet(SetToSeq(S)) = S
  BY <1>3, <1>6, <1>7 DEF ToSet, Surjection
<1> QED
  BY <1>1, <1>3, <1>8

LEMMA LeastIsMember ==
  ASSUME NEW S, S \subseteq Nat, S # {}
  PROVE  Least(S) \in S /\ \A k \in S : Least(S) <= k
BY LeastNatural DEF Least

\* What the recursive function that Reached is returns, step by step.
LEMMA Levels ==
  ASSUME NEW N, NEW root \in N, NEW edges \in [N -> SUBSET N]
  PROVE  /\ Reached(root, edges)[0] = {root}
         /\ \A n \in Nat : Reached(root, edges)[n] \subseteq N
         /\ \A n \in Nat :
              Reached(root, edges)[n + 1] =
                Reached(root, edges)[n] \cup UNION {edges[m] : m \in Reached(root, edges)[n]}
<1> DEFINE Grown(S) == S \cup UNION {edges[m] : m \in S}
           step == [p \in Nat \X SUBSET N |-> Grown(p[2])]
           Body(g) == [n \in Nat |-> IF n = 0 THEN {root} ELSE Grown(g[n - 1])]
           L == Reached(root, edges)
<1>1. \A S \in SUBSET N : Grown(S) \in SUBSET N
  OBVIOUS
<1> HIDE DEF Grown
<1>2. step \in [Nat \X SUBSET N -> SUBSET N]
  BY <1>1
<1>3. \A n \in Nat, S \in SUBSET N : step[<<n, S>>] = Grown(S)
  OBVIOUS
<1> HIDE DEF step
<1>4. PICK h \in [Nat -> SUBSET N] : Iterates(h, {root}, step)
  BY <1>2, IteratesExist
<1>5. h = Body(h)
  <2>1. \A n \in Nat : n # 0 => n - 1 \in Nat /\ (n - 1) + 1 = n
    OBVIOUS
  <2>2. \A n \in Nat : h[n + 1] = Grown(h[n])
    BY <1>3, <1>4 DEF Iterates
  <2>3. \A n \in Nat : h[n] = Body(h)[n]
    BY <1>4, <2>1, <2>2 DEF Iterates
  <2> QED
    BY <2>3
<1>6. L = CHOOSE g : g = Body(g)
  BY DEF Reached, Grown
<1>7. L = Body(L)
  BY <1>5, <1>6
<1> HIDE DEF L
<1>8. L[0] = {root}
  BY <1>7
<1>9. ASSUME NEW n \in Nat PROVE L[n + 1] = Grown(L[n])
  <2>1. n + 1 \in Nat /\ n + 1 # 0 /\ (n + 1) - 1 = n
    OBVIOUS
  <2> QED
    BY <1>7, <2>1
<1>10. \A n \in Nat : L[n] \subseteq N
  <2> DEFINE A == {n \in Nat : L[n] \subseteq N}
  <2>1. 0 \in A
    BY <1>8
  <2>2. ASSUME NEW n \in Nat, n \in A PROVE n + 1 \in A
    BY <1>1, <1>9, <2>2
  <2>3. Nat \subseteq A
    <3> HIDE DEF A
    <3> QED
      BY <2>1, <2>2, EveryNatural
  <2> QED
    BY <2>3
<1> QED
  BY <1>8, <1>9, <1>10 DEF L, Grown

\* Levels only grow, ...
LEMMA LevelsGrow ==
  ASSUME NEW N, NEW root \in N, NEW edges \in [N -> SUBSET N],
         NEW m \in Nat, NEW n \in Nat, m <= n
  PROVE  Reached(root, edges)[m] \subseteq Reached(root, edges)[n]
<1> DEFINE L == Reached(root, edges)
           A == {k \in Nat : m <= k => L[m] \subseteq L[k]}
<1>1. \A k \in Nat : L[k] \subseteq L[k + 1]
  BY Levels
<1> HIDE DEF L
<1>2. 0 \in A
  OBVIOUS
<1>3. ASSUME NEW k \in Nat, k \in A PROVE k + 1 \in A
  <2> SUFFICES ASSUME m <= k + 1 PROVE L[m] \subseteq L[k + 1]
    OBVIOUS
  <2>1. m = k + 1 \/ m <= k
    OBVIOUS
  <2> QED
    BY <1>1, <1>3, <2>1
<1>4. Nat \subseteq A
  <2> HIDE DEF A
  <2> QED
    BY <1>2, <1>3, EveryNatural
<1> QED
  BY <1>4 DEF L

\* ... and stay in every set that holds the root and what its members lead to.
LEMMA LevelsStayInside ==
  ASSUME NEW N, NEW root \in N, NEW edges \in [N -> SUBSET N],
         NEW S, root \in S, \A m \in S \cap N : edges[m] \subseteq S,
         NEW n \in Nat
  PROVE  Reached(root, edges)[n] \subseteq S
<1> DEFINE L == Reached(root, edges)
           A == {k \in Nat : L[k] \subseteq S}
<1>1. /\ L[0] = {root}
      /\ \A k \in Nat : L[k] \subseteq N /\ L[k + 1] = L[k] \cup UNION {edges[m] : m \in L[k]}
  BY Levels
<1> HIDE DEF L
<1>2. 0 \in A
  BY <1>1
<1>3. ASSUME NEW k \in Nat, k \in A PROVE k + 1 \in A
  <2>1. \A m \in L[k] : edges[m] \subseteq S
    BY <1>1, <1>3
  <2> QED
    BY <1>1, <1>3, <2>1
<1>4. Nat \subseteq A
  <2> HIDE DEF A
  <2> QED
    BY <1>2, <1>3, EveryNatural
<1> QED
  BY <1>4 DEF L
-----------------------------------------------------------------------------
(* The program does not change while it is searched                          *)

LEMMA GraphTypedAtFirst == GraphInit => GraphTypeOK
<1> SUFFICES ASSUME GraphInit PROVE GraphTypeOK
  OBVIOUS
<1>1. NoImports \in [Modules -> SUBSET (Modules \cup {Outside})] /\ <<>> \in Seq(Definitions)
  BY DEF NoImports
<1>2. imports \in ImportGraphs \cup {NoImports} /\ source \in Programs \cup {<<>>}
  BY DEF GraphInit
<1> QED
  BY <1>1, <1>2, ProgramAssumption DEF GraphInit, GraphTypeOK

LEMMA ProgramStays == [GraphNext]_graphVars => UNCHANGED program
BY DEF GraphNext, FindDeadCode, FindDefinition, Skip, Expand, EndSearch,
       StartSearch, Follow, Close, EndCycles, Connect, graphVars

LEMMA GraphStaysTyped == GraphTypeOK /\ [GraphNext]_graphVars => GraphTypeOK'
BY ProgramStays DEF program, GraphTypeOK

LEMMA GraphStays ==
  ASSUME UNCHANGED program
  PROVE  Edges' = Edges /\ KnownNodes' = KnownNodes /\ Within' = Within /\ request' = request
<1>1. Edges' = Edges /\ KnownNodes' = KnownNodes
  BY DEF program, Edges, KnownNodes, Known, Successors, Functions
<1> QED
  BY <1>1 DEF Within, program

\* Every known node leads to finitely many nodes.
LEMMA SuccessorsTyped ==
  ASSUME GraphTypeOK, NEW n, Known(n)
  PROVE  Successors(n) \subseteq Nodes /\ IsFiniteSet(Successors(n))
<1>1. IsFiniteSet(Nodes)
  BY ProgramAssumption, FS_Singleton, FS_Union DEF Nodes
<1>2. CASE request.tool = "dependency_tree"
  <2>1. Successors(n) \subseteq Nodes
    BY <1>2 DEF Successors, Nodes
  <2> QED
    BY <1>1, <2>1, FS_Subset
<1>3. CASE request.tool # "dependency_tree"
  <2>1. Functions(n) # {} /\ Functions(n) \subseteq DOMAIN source
    BY <1>3 DEF Known, Functions
  <2>2. source \in Seq(Definitions) /\ DOMAIN source \subseteq Nat
    BY DEF GraphTypeOK
  <2>3. Least(Functions(n)) \in DOMAIN source
    BY <2>1, <2>2, LeastIsMember
  <2>4. source[Least(Functions(n))] \in Definitions
    BY <2>2, <2>3, ElementOfSeq
  <2>5. Successors(n) \subseteq Nodes
    BY <1>3, <2>4 DEF Successors, Nodes, Definitions
  <2> QED
    BY <1>1, <2>5, FS_Subset
<1> QED
  BY <1>2, <1>3

LEMMA EdgesTyped ==
  ASSUME GraphTypeOK
  PROVE  /\ Edges \in [Nodes -> SUBSET Nodes]
         /\ \A n \in Nodes : Edges[n] = IF n \in KnownNodes THEN Successors(n) ELSE {}
BY SuccessorsTyped DEF Edges, KnownNodes

LEMMA RootTyped ==
  ASSUME GraphTypeOK, request.tool \in Searches
  PROVE  request.root \in Nodes /\ request.depth \in Nat /\ request.depth >= 1
<1>1. request \in Dependencies \cup CallGraphs
  BY DEF GraphTypeOK, Searches, Cycles, DeadCode, DefinitionsOf
<1>2. 1..MaxDepth \subseteq Nat /\ \A d \in 1..MaxDepth : d >= 1
  BY ProgramAssumption
<1> QED
  BY <1>1, <1>2 DEF Dependencies, CallGraphs, Nodes

LEMMA LevelsTyped ==
  ASSUME GraphTypeOK, request.tool \in Searches
  PROVE  /\ Within[0] = {request.root}
         /\ \A n \in Nat : Within[n] \subseteq Nodes
         /\ \A n \in Nat : Within[n + 1] = Within[n] \cup UNION {Edges[m] : m \in Within[n]}
BY EdgesTyped, RootTyped, Levels DEF Within

LEMMA LevelsOrdered ==
  ASSUME GraphTypeOK, request.tool \in Searches, NEW m \in Nat, NEW n \in Nat, m <= n
  PROVE  Within[m] \subseteq Within[n]
BY EdgesTyped, RootTyped, LevelsGrow DEF Within
-----------------------------------------------------------------------------
(* Breadth first                                                             *)

\* The entries left when the first one is taken off, and those that follow them.
LEMMA FrontierMoves ==
  ASSUME FrontierTyped, frontier # <<>>, NEW more \in Seq(Entries),
         frontier' = Tail(frontier) \o more
  PROVE  /\ frontier' \in Seq(Entries)
         /\ Len(frontier') = Len(frontier) - 1 + Len(more)
         /\ \A k \in 1..Len(frontier) - 1 : frontier'[k] = frontier[k + 1]
         /\ \A k \in 1..Len(more) : frontier'[Len(frontier) - 1 + k] = more[k]
BY DEF FrontierTyped

\* When the frontier is as deep as it must be before and after the first entry
\* is taken off, what was near is still accounted for.
LEMMA LevelDone ==
  ASSUME GraphTypeOK, request.tool \in Searches, UNCHANGED program,
         FrontierTyped, FrontierTyped', FrontierInOrder', frontier # <<>>,
         frontier[1].at < request.depth,
         \A e \in Queued' : e.at \in {frontier[1].at, frontier[1].at + 1},
         \A n \in Within[frontier[1].at] \cap KnownNodes :
            n \in seen' \/ \E e \in Queued' : e.node = n /\ e.at = frontier[1].at,
         NothingForgotten'
  PROVE  EverythingNearSeen' \/ (NothingForgotten' /\ LevelComplete')
<1> DEFINE h == frontier[1].at
           i == frontier'[1].at
<1>1. h \in Nat
  <2>1. 1 \in 1..Len(frontier)
    BY DEF FrontierTyped
  <2>2. frontier[1] \in Entries
    BY <2>1, ElementOfSeq DEF FrontierTyped
  <2> QED
    BY <2>2 DEF Entries
<1>2. Edges' = Edges /\ KnownNodes' = KnownNodes /\ Within' = Within /\ request' = request
  BY GraphStays
<1>3. CASE frontier' = <<>>
  BY <1>3 DEF LevelComplete
<1>4. CASE frontier' # <<>> /\ i = h
  BY <1>2, <1>4 DEF LevelComplete
<1>5. CASE frontier' # <<>> /\ i = h + 1
  <2>1. ASSUME NEW e \in Queued'
        PROVE  e.at = h + 1
    <3>1. PICK k \in 1..Len(frontier') : e = frontier'[k]
      BY DEF Queued
    <3>2. 1 \in 1..Len(frontier') /\ 1 <= k
      BY DEF FrontierTyped
    <3>3. i <= e.at
      BY <3>1, <3>2 DEF FrontierInOrder
    <3>4. e.at \in {h, h + 1}
      OBVIOUS
    <3> QED
      BY <1>1, <1>5, <3>3, <3>4
  <2>2. Within[h] \cap KnownNodes \subseteq seen'
    BY <1>1, <2>1
  <2>3. CASE h + 1 = request.depth
    <3>1. request.depth - 1 = h
      BY <1>1, <2>3
    <3> QED
      BY <1>2, <2>2, <3>1 DEF EverythingNearSeen
  <2>4. CASE h + 1 # request.depth
    <3>1. h + 1 < request.depth
      BY <1>1, <2>4, RootTyped
    <3>2. ASSUME NEW n \in Within[h + 1], n \in KnownNodes
          PROVE  n \in seen' \/ \E e \in Queued' : e.node = n /\ e.at = h + 1
      <4>1. CASE n \in Within[h]
        BY <2>2, <3>2, <4>1
      <4>2. CASE n \notin Within[h]
        <5>1. PICK m \in Within[h] : n \in Edges[m]
          BY <1>1, <3>2, <4>2, LevelsTyped
        <5>2. m \in Nodes /\ m \in KnownNodes
          BY <1>1, <5>1, LevelsTyped, EdgesTyped
        <5>3. m \in seen'
          BY <2>2, <5>2
        <5>4. n \in Accounted'
          BY <1>2, <5>1, <5>3 DEF NothingForgotten
        <5>5. n \in seen' \/ \E e \in Queued' : e.node = n
          BY <1>2, <3>2, <5>4 DEF Accounted
        <5> QED
          BY <2>1, <5>5
      <4> QED
        BY <4>1, <4>2
    <3> QED
      BY <1>2, <1>5, <3>1, <3>2 DEF LevelComplete
  <2> QED
    BY <2>3, <2>4
<1> QED
  <2>1. ASSUME frontier' # <<>> PROVE frontier'[1] \in Queued'
    <3>1. 1 \in 1..Len(frontier')
      BY <2>1 DEF FrontierTyped
    <3> QED
      BY <3>1 DEF Queued
  <2> QED
    BY <1>3, <1>4, <1>5, <2>1

LEMMA BreadthStarts == GraphInit => BreadthInv
<1> SUFFICES ASSUME GraphInit, request.tool \in Searches PROVE BreadthInv
  BY DEF BreadthInv
<1> DEFINE first == [node |-> request.root, at |-> 0]
<1>1. GraphTypeOK
  BY GraphTypedAtFirst
<1>2. request.root \in Nodes /\ request.depth \in Nat /\ request.depth >= 1
  BY <1>1, RootTyped
<1>3. first \in Entries
  BY <1>2 DEF Entries
<1>4. /\ frontier = <<first>> /\ Len(frontier) = 1 /\ frontier[1] = first
      /\ frontier # <<>> /\ \A k \in 1..Len(frontier) : k = 1
  BY DEF GraphInit
<1>5. Queued = {first}
  BY <1>4 DEF Queued
<1>6. FrontierTyped /\ FrontierInOrder
  BY <1>3, <1>4 DEF FrontierTyped, FrontierInOrder
<1>7. FrontierNear
  BY <1>1, <1>2, <1>5, LevelsTyped DEF FrontierNear
<1>8. SeenNear /\ AnswerSoFar /\ frames = <<>> /\ answer \in Seq(Nodes \X Nodes) /\ ~done
  BY DEF GraphInit, SeenNear, AnswerSoFar, ToSet
<1>9. NothingForgotten
  BY <1>2, <1>5 DEF NothingForgotten, Accounted, GraphInit
<1>10. LevelComplete
  <2>1. Within[0] = {request.root}
    BY <1>1, LevelsTyped
  <2>2. frontier[1].at = 0 /\ 0 < request.depth
    BY <1>2, <1>4
  <2> QED
    BY <1>5, <2>1, <2>2 DEF LevelComplete
<1> QED
  BY <1>6, <1>7, <1>8, <1>9, <1>10 DEF BreadthInv

\* The first entry is a known place to stand at.
LEMMA FirstEntry ==
  ASSUME FrontierTyped, frontier # <<>>
  PROVE  frontier[1] \in Queued /\ frontier[1].node \in Nodes /\ frontier[1].at \in Nat
<1>1. 1 \in 1..Len(frontier)
  BY DEF FrontierTyped
<1>2. frontier[1] \in Entries
  BY <1>1, ElementOfSeq DEF FrontierTyped
<1> QED
  BY <1>1, <1>2 DEF Entries, Queued

\* Taking off the first entry, and adding entries that are one further.
LEMMA FrontierStaysInOrder ==
  ASSUME FrontierTyped, FrontierInOrder, frontier # <<>>, NEW more \in Seq(Entries),
         \A k \in 1..Len(more) : more[k].at = frontier[1].at + 1,
         frontier' = Tail(frontier) \o more
  PROVE  /\ FrontierTyped' /\ FrontierInOrder'
         /\ Queued' \subseteq Queued \cup {more[k] : k \in 1..Len(more)}
         /\ Queued \subseteq Queued' \cup {frontier[1]}
         /\ {more[k] : k \in 1..Len(more)} \subseteq Queued'
         /\ \A e \in Queued' : e.at \in {frontier[1].at, frontier[1].at + 1}
<1> DEFINE n == Len(frontier)
           m == Len(more)
           h == frontier[1].at
<1>1. /\ frontier' \in Seq(Entries) /\ Len(frontier') = n - 1 + m
      /\ \A k \in 1..n - 1 : frontier'[k] = frontier[k + 1]
      /\ \A k \in 1..m : frontier'[n - 1 + k] = more[k]
  BY FrontierMoves
<1>2. n \in Nat /\ n >= 1 /\ m \in Nat /\ h \in Nat
  BY FirstEntry DEF FrontierTyped
<1>3. \A k \in 1..n : frontier[k].at \in {h, h + 1}
  <2> SUFFICES ASSUME NEW k \in 1..n PROVE frontier[k].at \in {h, h + 1}
    OBVIOUS
  <2>1. frontier[k].at \in Nat
    <3>1. frontier[k] \in Entries
      BY ElementOfSeq DEF FrontierTyped
    <3> QED
      BY <3>1 DEF Entries
  <2>2. 1 \in 1..n /\ 1 <= k
    BY <1>2
  <2>3. h <= frontier[k].at /\ frontier[k].at <= h + 1
    BY <2>2 DEF FrontierInOrder
  <2>4. \A a, b \in Nat : b <= a /\ a <= b + 1 => a = b \/ a = b + 1
    OBVIOUS
  <2> QED
    BY <1>2, <2>1, <2>3, <2>4
<1>4. ASSUME NEW k \in 1..Len(frontier')
      PROVE  \/ k \in 1..n - 1 /\ k + 1 \in 1..n /\ frontier'[k] = frontier[k + 1]
             \/ k - n + 1 \in 1..m /\ k >= n /\ frontier'[k] = more[k - n + 1]
  <2>1. k \in 1..n - 1 \/ (k - n + 1 \in 1..m /\ k >= n /\ n - 1 + (k - n + 1) = k)
    BY <1>1, <1>2
  <2> QED
    BY <1>1, <1>2, <2>1
<1>5. ASSUME NEW k \in 1..Len(frontier')
      PROVE  frontier'[k].at \in {h, h + 1}
  BY <1>3, <1>4
<1>6. ASSUME NEW j \in 1..Len(frontier'), NEW k \in 1..Len(frontier'), j <= k
      PROVE  frontier'[j].at <= frontier'[k].at
  <2>1. CASE k \in 1..n - 1
    <3>1. j \in 1..n - 1 /\ j + 1 \in 1..n /\ k + 1 \in 1..n /\ j + 1 <= k + 1
      BY <1>2, <1>6, <2>1
    <3>2. frontier'[j] = frontier[j + 1] /\ frontier'[k] = frontier[k + 1]
      BY <1>1, <2>1, <3>1
    <3>3. frontier[j + 1].at <= frontier[k + 1].at
      BY <3>1 DEF FrontierInOrder
    <3> QED
      BY <3>2, <3>3
  <2>2. CASE k \notin 1..n - 1
    <3>1. frontier'[k].at = h + 1
      BY <1>4, <2>2
    <3>2. frontier'[j].at \in {h, h + 1}
      BY <1>5
    <3>3. \A a \in {h, h + 1} : a <= h + 1
      BY <1>2
    <3> QED
      BY <3>1, <3>2, <3>3
  <2> QED
    BY <2>1, <2>2
<1>7. FrontierInOrder'
  <2>1. ASSUME NEW k \in 1..Len(frontier')
        PROVE  frontier'[k].at <= frontier'[1].at + 1
    <3>1. 1 \in 1..Len(frontier')
      BY <1>1, <1>2
    <3>2. \A a, b \in {h, h + 1} : a <= b + 1
      BY <1>2
    <3>3. frontier'[k].at \in {h, h + 1} /\ frontier'[1].at \in {h, h + 1}
      BY <1>5, <3>1
    <3> QED
      BY <3>2, <3>3
  <2> QED
    BY <1>6, <2>1 DEF FrontierInOrder
<1>8. Queued' \subseteq Queued \cup {more[k] : k \in 1..m}
  BY <1>4 DEF Queued
<1>9. Queued \subseteq Queued' \cup {frontier[1]}
  <2> SUFFICES ASSUME NEW k \in 1..n, k # 1 PROVE frontier[k] \in Queued'
    BY DEF Queued
  <2>1. k - 1 \in 1..n - 1 /\ (k - 1) + 1 = k /\ k - 1 \in 1..Len(frontier')
    BY <1>1, <1>2
  <2>2. frontier'[k - 1] = frontier[k]
    BY <1>1, <2>1
  <2> QED
    BY <2>1, <2>2 DEF Queued
<1>10. {more[k] : k \in 1..m} \subseteq Queued'
  <2> SUFFICES ASSUME NEW k \in 1..m PROVE more[k] \in Queued'
    OBVIOUS
  <2>1. n - 1 + k \in 1..Len(frontier')
    BY <1>1, <1>2
  <2> QED
    BY <1>1, <2>1 DEF Queued
<1>11. \A e \in Queued' : e.at \in {h, h + 1}
  BY <1>5 DEF Queued
<1> QED
  BY <1>1, <1>7, <1>8, <1>9, <1>10, <1>11 DEF FrontierTyped

-----------------------------------------------------------------------------
(* What a search answers                                                     *)

LEMMA SkipKeeps ==
  ASSUME GraphTypeOK, BreadthInv, request.tool \in Searches, Skip
  PROVE  BreadthInv'
<1> DEFINE h == frontier[1].at
           node == frontier[1].node
<1>1. /\ frames = <<>> /\ answer \in Seq(Nodes \X Nodes)
      /\ FrontierTyped /\ FrontierInOrder /\ FrontierNear
      /\ SeenNear /\ AnswerSoFar
      /\ EverythingNearSeen \/ (NothingForgotten /\ LevelComplete)
      /\ done => frontier = <<>>
  BY DEF BreadthInv
<1>2. /\ frontier # <<>> /\ ~done /\ Dropped(node, h)
      /\ frontier' = Tail(frontier) \o <<>>
      /\ UNCHANGED <<program, answer, done, seen, depth>>
  BY <1>1 DEF Skip, FrontierTyped
<1>3. Edges' = Edges /\ KnownNodes' = KnownNodes /\ Within' = Within /\ request' = request
  BY <1>2, GraphStays
<1>4. node \in Nodes /\ h \in Nat /\ request.root \in Nodes /\ request.depth \in Nat
  BY <1>1, <1>2, FirstEntry, RootTyped
<1>5. /\ FrontierTyped' /\ FrontierInOrder'
      /\ Queued' \subseteq Queued
      /\ Queued \subseteq Queued' \cup {frontier[1]}
      /\ \A e \in Queued' : e.at \in {h, h + 1}
  <2>1. <<>> \in Seq(Entries) /\ \A k \in 1..Len(<<>>) : FALSE
    OBVIOUS
  <2> QED
    BY <1>1, <1>2, <2>1, FrontierStaysInOrder
<1>6. FrontierNear' /\ SeenNear' /\ AnswerSoFar' /\ frames' = <<>> /\ answer' \in Seq(Nodes \X Nodes) /\ ~done'
  BY <1>1, <1>2, <1>3, <1>5 DEF FrontierNear, SeenNear, AnswerSoFar, depth
<1>7. EverythingNearSeen' \/ (NothingForgotten' /\ LevelComplete')
  <2>1. CASE EverythingNearSeen
    BY <1>2, <1>3, <2>1 DEF EverythingNearSeen
  <2>2. CASE NothingForgotten /\ LevelComplete
    <3>1. h < request.depth
      BY <1>2, <2>2 DEF LevelComplete
    <3>2. node \in seen \/ node \notin KnownNodes
      BY <1>2, <1>4, <3>1 DEF Dropped, KnownNodes
    <3>3. Accounted \subseteq Accounted'
      BY <1>2, <1>3, <1>5, <3>2 DEF Accounted
    <3>4. NothingForgotten'
      BY <1>2, <1>3, <2>2, <3>3 DEF NothingForgotten
    <3>5. \A n \in Within[h] \cap KnownNodes :
             n \in seen' \/ \E e \in Queued' : e.node = n /\ e.at = h
      BY <1>2, <1>5, <2>2, <3>2 DEF LevelComplete
    <3> QED
      BY <1>1, <1>2, <1>5, <3>1, <3>4, <3>5, LevelDone
  <2> QED
    BY <1>1, <2>1, <2>2
<1> QED
  BY <1>5, <1>6, <1>7 DEF BreadthInv

LEMMA ConcatHolds ==
  ASSUME NEW S, NEW s \in Seq(S), NEW t \in Seq(S)
  PROVE  s \o t \in Seq(S) /\ ToSet(s \o t) = ToSet(s) \cup ToSet(t)
<1>1. /\ s \o t \in Seq(S) /\ Len(s \o t) = Len(s) + Len(t)
      /\ \A k \in 1..Len(s) : (s \o t)[k] = s[k]
      /\ \A k \in 1..Len(t) : (s \o t)[Len(s) + k] = t[k]
  OBVIOUS
<1>2. \A k \in 1..Len(s) : k \in 1..Len(s \o t)
  BY <1>1
<1>3. \A k \in 1..Len(t) : Len(s) + k \in 1..Len(s \o t)
  BY <1>1
<1>4. ASSUME NEW k \in 1..Len(s \o t)
      PROVE  k \in 1..Len(s) \/ (k - Len(s) \in 1..Len(t) /\ Len(s) + (k - Len(s)) = k)
  BY <1>1
<1>5. DOMAIN (s \o t) = 1..Len(s \o t) /\ DOMAIN s = 1..Len(s) /\ DOMAIN t = 1..Len(t)
  BY <1>1
<1>6. ToSet(s \o t) \subseteq ToSet(s) \cup ToSet(t)
  <2> SUFFICES ASSUME NEW k \in 1..Len(s \o t) PROVE (s \o t)[k] \in ToSet(s) \cup ToSet(t)
    BY <1>5 DEF ToSet
  <2>1. CASE k \in 1..Len(s)
    BY <1>1, <1>5, <2>1 DEF ToSet
  <2>2. CASE k - Len(s) \in 1..Len(t) /\ Len(s) + (k - Len(s)) = k
    <3>1. (s \o t)[k] = t[k - Len(s)]
      BY <1>1, <2>2
    <3> QED
      BY <1>5, <2>2, <3>1 DEF ToSet
  <2> QED
    BY <1>4, <2>1, <2>2
<1>7. ToSet(s) \subseteq ToSet(s \o t)
  BY <1>1, <1>2, <1>5 DEF ToSet
<1>8. ToSet(t) \subseteq ToSet(s \o t)
  BY <1>1, <1>3, <1>5 DEF ToSet
<1> QED
  BY <1>1, <1>6, <1>7, <1>8

LEMMA ExpandKeeps ==
  ASSUME GraphTypeOK, BreadthInv, request.tool \in Searches, Expand
  PROVE  BreadthInv'
<1> DEFINE h == frontier[1].at
           node == frontier[1].node
           found == SetToSeq(Successors(node))
           rows == [k \in DOMAIN found |-> <<node, found[k]>>]
           more == [k \in DOMAIN found |-> [node |-> found[k], at |-> h + 1]]
<1>1. /\ frames = <<>> /\ answer \in Seq(Nodes \X Nodes)
      /\ FrontierTyped /\ FrontierInOrder /\ FrontierNear
      /\ SeenNear /\ AnswerSoFar
      /\ EverythingNearSeen \/ (NothingForgotten /\ LevelComplete)
      /\ done => frontier = <<>>
  BY DEF BreadthInv
<1>2. /\ frontier # <<>> /\ ~done /\ ~Dropped(node, h)
      /\ seen' = seen \cup {node}
      /\ answer' = answer \o rows
      /\ frontier' = Tail(frontier) \o more
      /\ UNCHANGED <<program, done, depth>>
  BY <1>1 DEF Expand, Pushed
<1>3. Edges' = Edges /\ KnownNodes' = KnownNodes /\ Within' = Within /\ request' = request
  BY <1>2, GraphStays
<1>4. /\ node \in Nodes /\ h \in Nat /\ request.root \in Nodes
      /\ request.depth \in Nat /\ request.depth >= 1 /\ frontier[1] \in Queued
  BY <1>1, <1>2, FirstEntry, RootTyped
<1>5. node \notin seen /\ h < request.depth /\ node \in KnownNodes /\ Known(node)
  BY <1>2, <1>4 DEF Dropped, KnownNodes
<1>6. node \in Within[h] /\ node \in Within[request.depth - 1] /\ Within[h] \subseteq Within[request.depth - 1]
  <2>1. request.depth - 1 \in Nat /\ h <= request.depth - 1
    BY <1>4, <1>5
  <2> QED
    BY <1>1, <1>4, <2>1, LevelsOrdered DEF FrontierNear
<1>7. NothingForgotten /\ LevelComplete
  BY <1>1, <1>5, <1>6 DEF EverythingNearSeen
<1>8. /\ Edges[node] = Successors(node) /\ Edges[node] \subseteq Nodes
      /\ found \in Seq(Nodes) /\ ToSet(found) = Edges[node]
  <2>1. Edges[node] = Successors(node) /\ Edges[node] \subseteq Nodes /\ IsFiniteSet(Edges[node])
    BY <1>4, <1>5, EdgesTyped, SuccessorsTyped
  <2>2. found \in Seq(Edges[node]) /\ ToSet(found) = Edges[node]
    BY <2>1, SetInARow
  <2> QED
    BY <2>1, <2>2
<1> HIDE DEF found
<1>9. DOMAIN found = 1..Len(found) /\ Len(found) \in Nat /\ \A k \in 1..Len(found) : found[k] \in Nodes
  BY <1>8
<1>10. /\ more \in Seq(Entries) /\ Len(more) = Len(found)
       /\ \A k \in 1..Len(more) : more[k].at = h + 1 /\ more[k] = [node |-> found[k], at |-> h + 1]
  BY <1>4, <1>9 DEF Entries
<1>11. {more[k] : k \in 1..Len(more)} = {[node |-> s, at |-> h + 1] : s \in Edges[node]}
  BY <1>8, <1>9, <1>10 DEF ToSet
<1>12. rows \in Seq(Nodes \X Nodes) /\ ToSet(rows) = {<<node, s>> : s \in Edges[node]}
  <2>1. rows \in Seq(Nodes \X Nodes) /\ Len(rows) = Len(found)
    BY <1>4, <1>9
  <2>2. ToSet(rows) = {<<node, found[k]>> : k \in 1..Len(found)}
    BY <1>9 DEF ToSet
  <2> QED
    BY <1>8, <1>9, <2>1, <2>2 DEF ToSet
<1> HIDE DEF more, rows
<1>13. /\ FrontierTyped' /\ FrontierInOrder'
       /\ Queued' \subseteq Queued \cup {more[k] : k \in 1..Len(more)}
       /\ Queued \subseteq Queued' \cup {frontier[1]}
       /\ {more[k] : k \in 1..Len(more)} \subseteq Queued'
       /\ \A e \in Queued' : e.at \in {h, h + 1}
  BY <1>1, <1>2, <1>10, FrontierStaysInOrder
<1>14. FrontierNear'
  <2>1. ASSUME NEW s \in Edges[node]
        PROVE  h + 1 <= request.depth /\ s \in Within[h + 1]
    <3>1. s \in Within[h + 1]
      BY <1>4, <1>6, LevelsTyped
    <3>2. \A a, b \in Nat : a < b => a + 1 <= b
      OBVIOUS
    <3> QED
      BY <1>4, <1>5, <3>1, <3>2
  <2>2. \A e \in {more[k] : k \in 1..Len(more)} : e.at <= request.depth /\ e.node \in Within[e.at]
    BY <1>11, <2>1
  <2> QED
    BY <1>1, <1>3, <1>13, <2>2 DEF FrontierNear
<1>15. SeenNear'
  BY <1>1, <1>2, <1>3, <1>5, <1>6 DEF SeenNear
<1>16. answer' \in Seq(Nodes \X Nodes) /\ AnswerSoFar'
  <2>1. answer' \in Seq(Nodes \X Nodes) /\ ToSet(answer') = ToSet(answer) \cup ToSet(rows)
    BY <1>1, <1>2, <1>12, ConcatHolds
  <2>2. {edge \in seen' \X Nodes : edge[2] \in Edges[edge[1]]} =
          {edge \in seen \X Nodes : edge[2] \in Edges[edge[1]]} \cup {<<node, s>> : s \in Edges[node]}
    BY <1>2, <1>8
  <2> QED
    BY <1>1, <1>3, <1>12, <2>1, <2>2 DEF AnswerSoFar
<1>17. NothingForgotten'
  <2>1. Accounted \subseteq Accounted'
    BY <1>2, <1>3, <1>13 DEF Accounted
  <2>2. Edges[node] \subseteq Accounted'
    <3>1. \A s \in Edges[node] : [node |-> s, at |-> h + 1] \in Queued'
      BY <1>11, <1>13
    <3> QED
      BY <1>8, <3>1 DEF Accounted
  <2> QED
    BY <1>2, <1>3, <1>7, <2>1, <2>2 DEF NothingForgotten
<1>18. \A n \in Within[h] \cap KnownNodes :
          n \in seen' \/ \E e \in Queued' : e.node = n /\ e.at = h
  BY <1>2, <1>7, <1>13 DEF LevelComplete
<1>19. EverythingNearSeen' \/ (NothingForgotten' /\ LevelComplete')
  BY <1>1, <1>2, <1>5, <1>13, <1>17, <1>18, LevelDone
<1>20. frames' = <<>> /\ ~done'
  BY <1>1, <1>2 DEF depth
<1> QED
  BY <1>13, <1>14, <1>15, <1>16, <1>19, <1>20 DEF BreadthInv

LEMMA BreadthKept == GraphTypeOK /\ BreadthInv /\ [GraphNext]_graphVars => BreadthInv'
<1> SUFFICES ASSUME GraphTypeOK, BreadthInv, [GraphNext]_graphVars PROVE BreadthInv'
  OBVIOUS
<1>0. request' = request
  BY ProgramStays DEF program
<1> SUFFICES ASSUME request.tool \in Searches PROVE BreadthInv'
  BY <1>0 DEF BreadthInv
<1>1. frames = <<>>
  BY DEF BreadthInv
<1>2. CASE UNCHANGED <<program, answer, breadth, depth>> /\ (done' = done \/ frontier = <<>>)
  <2>1. Edges' = Edges /\ KnownNodes' = KnownNodes /\ Within' = Within /\ request' = request
    BY <1>2, GraphStays
  <2> QED
    BY <1>2, <2>1
    DEF BreadthInv, FrontierTyped, FrontierInOrder, FrontierNear, SeenNear, AnswerSoFar, Queued,
        EverythingNearSeen, NothingForgotten, LevelComplete, Accounted, breadth, depth
<1>3. CASE Skip
  BY <1>3, SkipKeeps
<1>4. CASE Expand
  BY <1>4, ExpandKeeps
<1>5. CASE EndSearch \/ UNCHANGED graphVars
  BY <1>2, <1>5 DEF EndSearch, graphVars
<1>6. ASSUME FindDeadCode \/ FindDefinition \/ StartSearch \/ Follow \/ Close \/ EndCycles PROVE FALSE
  BY <1>1, <1>6 DEF FindDeadCode, FindDefinition, StartSearch, Follow, Close, EndCycles, Searches
<1> QED
  BY <1>3, <1>4, <1>5, <1>6 DEF GraphNext

\* What is left when a search is over is what its definition says.
LEMMA BreadthExact == GraphTypeOK /\ BreadthInv => EdgesExact
<1> SUFFICES ASSUME GraphTypeOK, BreadthInv, done, request.tool \in Searches
             PROVE  ToSet(answer) =
                      {edge \in Within[request.depth - 1] \X Nodes : edge[2] \in Edges[edge[1]]}
  BY DEF EdgesExact, Within
<1>1. /\ SeenNear /\ AnswerSoFar /\ frontier = <<>> /\ FrontierTyped
      /\ EverythingNearSeen \/ NothingForgotten
  BY DEF BreadthInv
<1>2. request.depth - 1 \in Nat /\ request.root \in Nodes
  BY RootTyped
<1>3. EverythingNearSeen
  <2> SUFFICES ASSUME NothingForgotten PROVE EverythingNearSeen
    BY <1>1
  <2>1. Queued = {}
    BY <1>1 DEF Queued
  <2>2. Accounted = {n \in Nodes : n \in KnownNodes => n \in seen}
    BY <2>1 DEF Accounted
  <2>3. ASSUME NEW m \in Accounted \cap Nodes PROVE Edges[m] \subseteq Accounted
    BY <2>2, EdgesTyped DEF NothingForgotten
  <2>4. Within[request.depth - 1] \subseteq Accounted
    BY <1>2, <2>3, EdgesTyped, LevelsStayInside DEF NothingForgotten, Within
  <2> QED
    BY <2>2, <2>4 DEF EverythingNearSeen
<1>4. \A n \in Within[request.depth - 1] : n \in Nodes /\ (n \in seen \/ Edges[n] = {})
  BY <1>2, <1>3, LevelsTyped, EdgesTyped DEF EverythingNearSeen
<1> QED
  BY <1>1, <1>4 DEF AnswerSoFar, SeenNear

(* The dependency tree and the call graph hold the edges out of every      *)
(* known node nearer than the depth and no others, for every program.      *)
THEOREM SearchesExact == GraphSpec => []EdgesExact
<1>1. GraphInit => GraphTypeOK /\ BreadthInv
  BY GraphTypedAtFirst, BreadthStarts
<1>2. GraphTypeOK /\ BreadthInv /\ [GraphNext]_graphVars => (GraphTypeOK /\ BreadthInv)'
  BY GraphStaysTyped, BreadthKept
<1>3. GraphTypeOK /\ BreadthInv => EdgesExact
  BY BreadthExact
<1> QED
  BY <1>1, <1>2, <1>3, PTL DEF GraphSpec
-----------------------------------------------------------------------------
(* Depth first: where the search for cycles stands.  The modules entered    *)
(* are numbered; those on the stack are open, those taken off it are gone;  *)
(* the calls under way are those of the active ones.                        *)

CallFrames == [node : Modules, rest : SUBSET Modules]

Arcs == [m \in Modules |-> Deps(m)]
Reach == [m \in Modules |-> Imported(m)]

Entered == {m \in Modules : order[m] # 0}
Open == ToSet(stack)
Gone == Entered \ Open

Calling(fr) == {fr[k].node : k \in 1..Len(fr)}
Active == Calling(frames)

\* What a module imports and the search has not followed yet.
Unfollowed(fr) ==
  [m \in Modules |-> {n \in Modules : \E k \in 1..Len(fr) : fr[k].node = m /\ n \in fr[k].rest}]
Rest == Unfollowed(frames)

\* The open modules numbered from an active one on, before the next active one.
Segment ==
  [a \in Modules |->
     {v \in Open : order[a] <= order[v] /\ \A b \in Active : order[a] < order[b] => order[v] < order[b]}]

DepthTyped ==
  /\ order \in [Modules -> Nat] /\ low \in [Modules -> Nat]
  /\ stack \in Seq(Modules) /\ frames \in Seq(CallFrames)

Numbered ==
  /\ \A m \in Modules : order[m] <= Cardinality(Entered)
  /\ \A m, n \in Entered : order[m] = order[n] => m = n

Rising(stk, num) == \A j, k \in 1..Len(stk) : j < k => num[stk[j]] < num[stk[k]]
StackInOrder == Open \subseteq Entered /\ Rising(stack, order)

Deepening(fr, num) == \A j, k \in 1..Len(fr) : j < k => num[fr[j].node] < num[fr[k].node]
FramesInOrder ==
  /\ Active \subseteq Open /\ Deepening(frames, order)
  /\ \A m \in Modules : Rest[m] \subseteq Arcs[m]

FollowedEntered == \A v \in Entered : Arcs[v] \ Rest[v] \subseteq Entered

\* Nothing leads back from what was taken off the stack.
GoneClosed == \A v \in Gone : Arcs[v] \subseteq Gone

ActiveInARow == \A a, b \in Active : order[a] <= order[b] => b \in Reach[a]

EveryOpenHeld == \A v \in Open : \E a \in Active : v \in Segment[a]

SegmentsMutual == \A a \in Active : \A v \in Segment[a] : v \in Reach[a] /\ a \in Reach[v]

\* The low of an active module is as low as what its segment leads to ...
LowBelow ==
  \A a \in Active : \A v \in Segment[a] : \A w \in (Arcs[v] \ Rest[v]) \cap Open : low[a] <= order[w]

\* ... and no lower than what it reaches.
LowReached ==
  \A a \in Active : low[a] <= order[a] /\ \E w \in Open : order[w] = low[a] /\ w \in Reach[a]

\* Reported are the components of what is gone, each once.
ReportedSoFar ==
  /\ answer \in Seq(SUBSET Modules)
  /\ ToSet(answer) = {S \in {Mutual(m) : m \in Gone} : Cardinality(S) > 1}
  /\ \A j, k \in 1..Len(answer) : answer[j] = answer[k] => j = k

SearchedSoFar ==
  /\ DepthTyped /\ Numbered /\ StackInOrder /\ FramesInOrder
  /\ FollowedEntered /\ GoneClosed
  /\ ActiveInARow /\ EveryOpenHeld /\ SegmentsMutual /\ LowBelow /\ LowReached
  /\ ReportedSoFar

DepthInv ==
  request.tool = "detect_cycles" =>
    /\ frontier = <<>> /\ SearchedSoFar
    /\ done => frames = <<>> /\ request.path \subseteq Entered
-----------------------------------------------------------------------------
(* Lemmas on reaching, on stacks and on frames                               *)

LEMMA ArcsTyped ==
  ASSUME GraphTypeOK, request.tool = "detect_cycles"
  PROVE  Arcs \in [Modules -> SUBSET Modules]
BY DEF Arcs, Deps

LEMMA ReachingSteps ==
  ASSUME GraphTypeOK, request.tool = "detect_cycles"
  PROVE  /\ \A m \in Modules : m \in Reach[m] /\ Reach[m] \subseteq Modules /\ Arcs[m] \subseteq Reach[m]
         /\ \A m, n, k \in Modules : n \in Reach[m] /\ k \in Reach[n] => k \in Reach[m]
<1>1. \A m \in Modules : Reach[m] = {n \in Modules : \A S \in SUBSET Modules :
                            m \in S /\ (\A k \in S : Arcs[k] \subseteq S) => n \in S}
  BY DEF Reach, Imported, Closed, Arcs
<1> QED
  BY <1>1, ArcsTyped

LEMMA ReachStaysInside ==
  ASSUME GraphTypeOK, request.tool = "detect_cycles",
         NEW S, S \subseteq Modules, \A k \in S : Arcs[k] \subseteq S
  PROVE  \A m \in S : Reach[m] \subseteq S
BY DEF Reach, Imported, Closed, Arcs

LEMMA MutualReach ==
  ASSUME NEW m \in Modules
  PROVE  Mutual(m) = {n \in Reach[m] : m \in Reach[n]}
<1>1. Imported(m) \subseteq Modules
  BY DEF Imported
<1> QED
  BY <1>1 DEF Mutual, Reach

LEMMA GraphOfCyclesStays ==
  ASSUME UNCHANGED program
  PROVE  Arcs' = Arcs /\ Reach' = Reach /\ \A m : Mutual(m)' = Mutual(m)
BY DEF program, Arcs, Reach, Deps, Imported, Mutual, Closed

\* A sequence with something appended to it.
LEMMA Appended ==
  ASSUME NEW S, NEW s \in Seq(S), NEW e \in S
  PROVE  /\ Append(s, e) \in Seq(S) /\ Len(Append(s, e)) = Len(s) + 1
         /\ ToSet(Append(s, e)) = ToSet(s) \cup {e}
         /\ Append(s, e)[Len(s) + 1] = e
         /\ \A k \in 1..Len(s) : Append(s, e)[k] = s[k]
<1> DEFINE t == Append(s, e)
<1>1. /\ t \in Seq(S) /\ Len(t) = Len(s) + 1 /\ Len(s) \in Nat
      /\ t[Len(s) + 1] = e /\ \A k \in 1..Len(s) : t[k] = s[k]
  OBVIOUS
<1>2. DOMAIN t = 1..Len(s) + 1 /\ DOMAIN s = 1..Len(s)
  BY <1>1
<1> HIDE DEF t
<1>3. 1..Len(s) + 1 = (1..Len(s)) \cup {Len(s) + 1}
  BY <1>1
<1>4. ToSet(t) = ToSet(s) \cup {e}
  BY <1>1, <1>2, <1>3 DEF ToSet
<1> QED
  BY <1>1, <1>4 DEF t

\* A part of a sequence.
LEMMA CutOut ==
  ASSUME NEW S, NEW s \in Seq(S), NEW b \in Nat, b <= Len(s)
  PROVE  /\ SubSeq(s, 1, b) \in Seq(S) /\ Len(SubSeq(s, 1, b)) = b
         /\ \A k \in 1..b : SubSeq(s, 1, b)[k] = s[k]
<1>1. \A k \in 1..b : k \in 1..Len(s)
  OBVIOUS
<1>2. \A k \in 1..b : s[k] \in S
  BY <1>1, ElementOfSeq
<1> DEFINE c == SubSeq(s, 1, b)
<1>3. /\ c \in Seq(S) /\ Len(c) = IF 1 <= b THEN b - 1 + 1 ELSE 0
      /\ \A k \in 1..b - 1 + 1 : c[k] = s[1 + k - 1]
  BY <1>2, SubSeqProperties
<1> HIDE DEF c
<1>4. b - 1 + 1 = b /\ \A k \in 1..b : 1 + k - 1 = k
  OBVIOUS
<1>5. Len(c) = b /\ \A k \in 1..b : c[k] = s[k]
  BY <1>3, <1>4
<1> QED
  BY <1>3, <1>5 DEF c

\* A stack is what it was before its top was put on it.
LEMMA TakenOff ==
  ASSUME NEW S, NEW s \in Seq(S), s # <<>>
  PROVE  Front(s) \in Seq(S) /\ s[Len(s)] \in S /\ s = Append(Front(s), s[Len(s)])
<1>1. Len(s) \in Nat /\ Len(s) >= 1 /\ Len(s) - 1 \in Nat
  OBVIOUS
<1>2. Front(s) \in Seq(S) /\ Len(Front(s)) = Len(s) - 1 /\ \A k \in 1..Len(s) - 1 : Front(s)[k] = s[k]
  <2> DEFINE b == Len(s) - 1
  <2>1. b \in Nat /\ b <= Len(s) /\ Front(s) = SubSeq(s, 1, b)
    BY <1>1 DEF Front
  <2> HIDE DEF b
  <2>2. /\ SubSeq(s, 1, b) \in Seq(S) /\ Len(SubSeq(s, 1, b)) = b
        /\ \A k \in 1..b : SubSeq(s, 1, b)[k] = s[k]
    BY <2>1, CutOut
  <2>3. Front(s) \in Seq(S) /\ Len(Front(s)) = b /\ \A k \in 1..b : Front(s)[k] = s[k]
    BY <2>1, <2>2, Zenon
  <2> QED
    BY <2>3 DEF b
<1>3. s[Len(s)] \in S
  BY <1>1
<1> DEFINE t == Append(Front(s), s[Len(s)])
<1>4. /\ t \in Seq(S) /\ Len(t) = Len(s) /\ t[Len(s)] = s[Len(s)]
      /\ \A k \in 1..Len(s) - 1 : t[k] = s[k]
  BY <1>1, <1>2, <1>3
<1> HIDE DEF t
<1>5. \A k \in 1..Len(s) : k = Len(s) \/ k \in 1..Len(s) - 1
  BY <1>1
<1>6. \A k \in 1..Len(s) : t[k] = s[k]
  BY <1>4, <1>5
<1>7. t = s
  BY <1>4, <1>6
<1> QED
  BY <1>2, <1>3, <1>7 DEF t

LEMMA AppendedRises ==
  ASSUME NEW s \in Seq(Modules), NEW e \in Modules, NEW num
  PROVE  Rising(Append(s, e), num) <=> Rising(s, num) /\ \A m \in ToSet(s) : num[m] < num[e]
<1>1. /\ Len(Append(s, e)) = Len(s) + 1 /\ Len(s) \in Nat
      /\ Append(s, e)[Len(s) + 1] = e
      /\ \A k \in 1..Len(s) : Append(s, e)[k] = s[k]
  BY Appended
<1> DEFINE t == Append(s, e)
           n == Len(s)
<1> HIDE DEF t, n
<1>2. \A k \in 1..n + 1 : k = n + 1 \/ k \in 1..n
  BY <1>1 DEF n
<1>3. /\ \A k \in 1..n : k \in 1..n + 1 /\ k < n + 1 /\ ~(n + 1 < k)
      /\ n + 1 \in 1..n + 1 /\ ~(n + 1 < n + 1)
  BY <1>1 DEF n
<1>4. ToSet(s) = {s[k] : k \in 1..n}
  BY DEF ToSet, n
<1>5. Len(t) = n + 1 /\ t[n + 1] = e /\ \A k \in 1..n : t[k] = s[k]
  BY <1>1 DEF t, n
<1>6. Rising(s, num) <=> \A j, k \in 1..n : j < k => num[s[j]] < num[s[k]]
  BY DEF Rising, n
<1>7. Rising(t, num) <=> \A j, k \in 1..n + 1 : j < k => num[t[j]] < num[t[k]]
  BY <1>5 DEF Rising
<1>8. ASSUME Rising(t, num) PROVE Rising(s, num) /\ \A m \in ToSet(s) : num[m] < num[e]
  BY <1>3, <1>4, <1>5, <1>6, <1>7, <1>8
<1>9. ASSUME Rising(s, num), \A m \in ToSet(s) : num[m] < num[e] PROVE Rising(t, num)
  <2> SUFFICES ASSUME NEW j \in 1..n + 1, NEW k \in 1..n + 1, j < k PROVE num[t[j]] < num[t[k]]
    BY <1>7
  <2>1. j \in 1..n
    BY <1>2, <1>3
  <2> QED
    BY <1>2, <1>4, <1>5, <1>6, <1>9, <2>1
<1> QED
  BY <1>8, <1>9 DEF t

\* The frames with one more call.
LEMMA CallAdded ==
  ASSUME NEW fr \in Seq(CallFrames), NEW e \in CallFrames, NEW num
  PROVE  /\ Calling(Append(fr, e)) = Calling(fr) \cup {e.node}
         /\ e.node \notin Calling(fr) =>
              /\ \A m \in Modules :
                   Unfollowed(Append(fr, e))[m] = IF m = e.node THEN e.rest ELSE Unfollowed(fr)[m]
              /\ Unfollowed(fr)[e.node] = {}
         /\ Deepening(Append(fr, e), num) <=>
              Deepening(fr, num) /\ \A m \in Calling(fr) : num[m] < num[e.node]
<1> DEFINE t == Append(fr, e)
           n == Len(fr)
<1>1. Len(t) = n + 1 /\ n \in Nat /\ t[n + 1] = e /\ \A k \in 1..n : t[k] = fr[k]
  BY Appended
<1> HIDE DEF t, n
<1>2. 1..n + 1 = (1..n) \cup {n + 1}
  BY <1>1
<1>3. /\ \A k \in 1..n : k \in 1..n + 1 /\ k < n + 1 /\ ~(n + 1 < k)
      /\ n + 1 \in 1..n + 1 /\ ~(n + 1 < n + 1)
  BY <1>1
<1>4. Calling(fr) = {fr[k].node : k \in 1..n} /\ Calling(t) = {t[k].node : k \in 1..n + 1}
  BY <1>1 DEF Calling, n
<1>5. Calling(t) = Calling(fr) \cup {e.node}
  BY <1>1, <1>2, <1>4
<1>6. e.node \in Modules /\ e.rest \subseteq Modules
  BY DEF CallFrames
<1>7. \A m \in Modules :
        /\ Unfollowed(fr)[m] = {w \in Modules : \E k \in 1..n : fr[k].node = m /\ w \in fr[k].rest}
        /\ Unfollowed(t)[m] = {w \in Modules : \E k \in 1..n + 1 : t[k].node = m /\ w \in t[k].rest}
  BY <1>1 DEF Unfollowed, n
<1>8. e.node \notin Calling(fr) => \A k \in 1..n : fr[k].node # e.node
  BY <1>4
<1>9. e.node \notin Calling(fr) => Unfollowed(fr)[e.node] = {}
  BY <1>6, <1>7, <1>8
<1>10. ASSUME e.node \notin Calling(fr), NEW m \in Modules
       PROVE  Unfollowed(t)[m] = IF m = e.node THEN e.rest ELSE Unfollowed(fr)[m]
  <2>1. ASSUME NEW w
        PROVE  (\E k \in 1..n + 1 : t[k].node = m /\ w \in t[k].rest) <=>
                 (\E k \in 1..n : fr[k].node = m /\ w \in fr[k].rest) \/ (e.node = m /\ w \in e.rest)
    BY <1>1, <1>2
  <2>2. \A w : w \in Unfollowed(t)[m] <=> w \in Unfollowed(fr)[m] \/ (e.node = m /\ w \in e.rest)
    BY <1>6, <1>7, <2>1
  <2> QED
    BY <1>9, <1>10, <2>2
<1>11. Deepening(fr, num) <=> \A j, k \in 1..n : j < k => num[fr[j].node] < num[fr[k].node]
  BY DEF Deepening, n
<1>12. Deepening(t, num) <=> \A j, k \in 1..n + 1 : j < k => num[t[j].node] < num[t[k].node]
  BY <1>1 DEF Deepening
<1>13. ASSUME Deepening(t, num) PROVE Deepening(fr, num) /\ \A m \in Calling(fr) : num[m] < num[e.node]
  BY <1>1, <1>3, <1>4, <1>11, <1>12, <1>13
<1>14. ASSUME Deepening(fr, num), \A m \in Calling(fr) : num[m] < num[e.node] PROVE Deepening(t, num)
  <2> SUFFICES ASSUME NEW j \in 1..n + 1, NEW k \in 1..n + 1, j < k
               PROVE  num[t[j].node] < num[t[k].node]
    BY <1>12
  <2>1. j \in 1..n
    BY <1>2, <1>3
  <2> QED
    BY <1>1, <1>2, <1>4, <1>11, <1>14, <2>1
<1> QED
  BY <1>5, <1>9, <1>10, <1>13, <1>14 DEF t

\* A sequence that repeats nothing is as long as what it holds.
LEMMA OnceEach ==
  ASSUME NEW S, NEW s \in Seq(S), \A j, k \in 1..Len(s) : s[j] = s[k] => j = k
  PROVE  Cardinality(ToSet(s)) = Len(s)
<1>1. Len(s) \in Nat /\ DOMAIN s = 1..Len(s) /\ s \in [1..Len(s) -> S]
  OBVIOUS
<1>2. s \in [1..Len(s) -> ToSet(s)]
  BY <1>1 DEF ToSet
<1>3. s \in Bijection(1..Len(s), ToSet(s))
  BY <1>1, <1>2 DEF Bijection, Injection, Surjection, IsInjective, ToSet
<1> QED
  BY <1>1, <1>3, FS_CountingElements DEF ExistsBijection

LEMMA OrderOfOthers ==
  ASSUME NEW num, NEW other
  PROVE  /\ \A stk \in Seq(Modules) : (\A m \in ToSet(stk) : other[m] = num[m]) =>
              (Rising(stk, num) <=> Rising(stk, other))
         /\ \A fr \in Seq(CallFrames) : (\A m \in Calling(fr) : other[m] = num[m]) =>
              (Deepening(fr, num) <=> Deepening(fr, other))
<1>1. ASSUME NEW stk \in Seq(Modules), \A m \in ToSet(stk) : other[m] = num[m]
      PROVE  Rising(stk, num) <=> Rising(stk, other)
  <2>1. \A k \in 1..Len(stk) : other[stk[k]] = num[stk[k]]
    BY <1>1 DEF ToSet
  <2> QED
    BY <2>1 DEF Rising
<1>2. ASSUME NEW fr \in Seq(CallFrames), \A m \in Calling(fr) : other[m] = num[m]
      PROVE  Deepening(fr, num) <=> Deepening(fr, other)
  <2>1. \A k \in 1..Len(fr) : other[fr[k].node] = num[fr[k].node]
    BY <1>2 DEF Calling
  <2> QED
    BY <2>1 DEF Deepening
<1> QED
  BY <1>1, <1>2

LEMMA NothingOnEmpty ==
  /\ <<>> \in Seq(Modules) /\ <<>> \in Seq(CallFrames)
  /\ ToSet(<<>>) = {} /\ Calling(<<>>) = {} /\ \A m \in Modules : Unfollowed(<<>>)[m] = {}
  /\ \A num : Rising(<<>>, num) /\ Deepening(<<>>, num)
<1>1. Len(<<>>) = 0 /\ 1..0 = {} /\ DOMAIN <<>> = {}
  OBVIOUS
<1> QED
  BY <1>1 DEF ToSet, Calling, Unfollowed, Rising, Deepening
-----------------------------------------------------------------------------
(* Depth first                                                               *)

LEMMA EnteredFinite == IsFiniteSet(Entered) /\ Cardinality(Entered) \in Nat
<1>1. IsFiniteSet(Entered)
  BY ProgramAssumption, FS_Subset DEF Entered
<1> QED
  BY <1>1, FS_CardinalityType

LEMMA DepthStarts == GraphInit /\ request.tool = "detect_cycles" => DepthInv
<1> SUFFICES ASSUME GraphInit, request.tool = "detect_cycles" PROVE DepthInv
  OBVIOUS
<1>1. /\ order = [m \in Modules |-> 0] /\ low = order /\ stack = <<>> /\ frames = <<>>
      /\ answer = <<>> /\ done = FALSE
  BY DEF GraphInit
<1>2. frontier = <<>>
  BY DEF GraphInit, Searches
<1>3. Open = {} /\ Active = {} /\ \A m \in Modules : Rest[m] = {}
  BY <1>1, NothingOnEmpty DEF Open, Active, Rest
<1>4. Entered = {} /\ Gone = {}
  BY <1>1 DEF Entered, Gone
<1>5. Cardinality(Entered) = 0
  BY <1>4, FS_EmptySet
<1>6. DepthTyped /\ Numbered
  BY <1>1, <1>4, <1>5, NothingOnEmpty DEF DepthTyped, Numbered
<1>7. StackInOrder /\ FramesInOrder
  BY <1>1, <1>3, NothingOnEmpty DEF StackInOrder, FramesInOrder
<1>8. FollowedEntered /\ GoneClosed /\ ActiveInARow /\ EveryOpenHeld /\ SegmentsMutual /\ LowBelow /\ LowReached
  BY <1>3, <1>4
  DEF FollowedEntered, GoneClosed, ActiveInARow, EveryOpenHeld, SegmentsMutual, LowBelow, LowReached
<1>9. ReportedSoFar
  <2>1. ToSet(<<>>) = {} /\ Len(<<>>) = 0 /\ <<>> \in Seq(SUBSET Modules) /\ 1..0 = {}
    BY DEF ToSet
  <2> QED
    BY <1>1, <1>4, <2>1 DEF ReportedSoFar
<1> QED
  BY <1>1, <1>2, <1>6, <1>7, <1>8, <1>9 DEF DepthInv, SearchedSoFar

\* connect enters a module not met before: that module is a segment of its own,
\* and those of the calls below it stay.
LEMMA ConnectKeeps ==
  ASSUME GraphTypeOK, request.tool = "detect_cycles", SearchedSoFar,
         NEW n \in Modules, n \notin Entered, \A a \in Active : n \in Reach[a],
         NEW fs \in Seq(CallFrames), Calling(fs) = Active, Deepening(fs, order),
         \A m \in Modules : Unfollowed(fs)[m] \subseteq Rest[m] /\ Rest[m] \subseteq Unfollowed(fs)[m] \cup {n},
         Connect(n, fs)
  PROVE  SearchedSoFar'
<1> DEFINE c == 1 + Cardinality(Entered)
           call == [node |-> n, rest |-> Deps(n)]
<1>1. /\ DepthTyped /\ Numbered /\ StackInOrder /\ FramesInOrder
      /\ FollowedEntered /\ GoneClosed
      /\ ActiveInARow /\ EveryOpenHeld /\ SegmentsMutual /\ LowBelow /\ LowReached
      /\ ReportedSoFar
  BY DEF SearchedSoFar
<1>2. /\ order' = [order EXCEPT ![n] = c] /\ low' = [low EXCEPT ![n] = c]
      /\ stack' = Append(stack, n) /\ frames' = Append(fs, call)
      /\ answer' = answer /\ UNCHANGED program
  BY DEF Connect, Entered
<1>3. c \in Nat /\ c # 0 /\ \A m \in Modules : order[m] \in Nat /\ order[m] < c
  BY <1>1, EnteredFinite DEF Numbered, DepthTyped
<1>4. call \in CallFrames /\ call.node = n /\ call.rest = Arcs[n]
  BY ArcsTyped DEF CallFrames, Arcs
<1> HIDE DEF c, call
<1>5. /\ order' \in [Modules -> Nat] /\ low' \in [Modules -> Nat]
      /\ order'[n] = c /\ low'[n] = c
      /\ \A m \in Modules : m # n => order'[m] = order[m] /\ low'[m] = low[m]
  BY <1>1, <1>2, <1>3 DEF DepthTyped
<1>6. Entered' = Entered \cup {n}
  BY <1>3, <1>5 DEF Entered
<1>7. Cardinality(Entered') = c
  <2>1. Cardinality(Entered \cup {n}) = Cardinality(Entered) + 1
    BY EnteredFinite, FS_AddElement
  <2> QED
    BY <1>6, <2>1, EnteredFinite DEF c
<1>8. stack' \in Seq(Modules) /\ Open' = Open \cup {n}
  BY <1>1, <1>2, Appended DEF DepthTyped, Open
<1>9. n \notin Open /\ n \notin Active /\ Open \subseteq Entered /\ Active \subseteq Open
  BY <1>1 DEF StackInOrder, FramesInOrder
<1>10. \A m \in Entered : m \in Modules /\ m # n
  BY DEF Entered
<1>11. frames' \in Seq(CallFrames)
  BY <1>2, <1>4, Appended
<1>12. /\ Active' = Active \cup {n}
       /\ Rest'[n] = Arcs[n]
       /\ \A m \in Modules : m # n => Rest'[m] = Unfollowed(fs)[m]
       /\ Deepening(frames', order')
  <2>1. \A m \in Calling(fs) : order'[m] = order[m] /\ order'[m] < order'[n]
    BY <1>3, <1>5, <1>9, <1>10
  <2>2. Deepening(fs, order')
    BY <2>1, OrderOfOthers
  <2>3. call.node \notin Calling(fs)
    BY <1>4, <1>9
  <2>4. /\ Calling(Append(fs, call)) = Calling(fs) \cup {call.node}
        /\ \A m \in Modules :
             Unfollowed(Append(fs, call))[m] = IF m = call.node THEN call.rest ELSE Unfollowed(fs)[m]
        /\ Deepening(Append(fs, call), order') <=>
             Deepening(fs, order') /\ \A m \in Calling(fs) : order'[m] < order'[call.node]
    BY <1>4, <2>3, CallAdded
  <2> QED
    BY <1>2, <1>4, <2>1, <2>2, <2>4 DEF Active, Rest
<1>13. Rising(stack', order')
  <2>1. \A m \in Open : order'[m] = order[m] /\ order'[m] < order'[n]
    BY <1>3, <1>5, <1>9, <1>10
  <2>2. Rising(stack, order')
    BY <1>1, <2>1, OrderOfOthers DEF StackInOrder, DepthTyped, Open
  <2> QED
    BY <1>1, <1>2, <2>1, <2>2, AppendedRises DEF DepthTyped, Open
<1>14. Arcs' = Arcs /\ Reach' = Reach /\ Gone' = Gone
  BY <1>2, <1>6, <1>8, GraphOfCyclesStays DEF Gone
<1>15. DepthTyped'
  BY <1>5, <1>8, <1>11 DEF DepthTyped
<1>16. Numbered'
  <2>1. \A m \in Modules : order'[m] <= c
    BY <1>3, <1>5
  <2>2. \A m \in Entered : order'[m] = order[m] /\ order[m] # c
    BY <1>3, <1>5, <1>10
  <2> QED
    BY <1>1, <1>5, <1>6, <1>7, <2>1, <2>2 DEF Numbered
<1>17. StackInOrder'
  BY <1>6, <1>8, <1>9, <1>13 DEF StackInOrder
<1>18. FramesInOrder'
  <2>1. \A m \in Modules : Rest'[m] \subseteq Arcs[m]
    BY <1>1, <1>12 DEF FramesInOrder
  <2> QED
    BY <1>8, <1>9, <1>12, <1>14, <2>1 DEF FramesInOrder
<1>19. \A m \in Entered : Arcs[m] \ Rest'[m] \subseteq (Arcs[m] \ Rest[m]) \cup {n}
  BY <1>10, <1>12
<1>20. FollowedEntered' /\ GoneClosed'
  BY <1>1, <1>6, <1>12, <1>14, <1>19 DEF FollowedEntered, GoneClosed
<1>21. Segment'[n] = {n} /\ \A a \in Active : Segment'[a] = Segment[a]
  <2>1. \A a \in Modules : Segment'[a] = {v \in Open' : order'[a] <= order'[v] /\
                               \A b \in Active' : order'[a] < order'[b] => order'[v] < order'[b]}
    BY DEF Segment
  <2>2. \A a \in Modules : Segment[a] = {v \in Open : order[a] <= order[v] /\
                               \A b \in Active : order[a] < order[b] => order[v] < order[b]}
    BY DEF Segment
  <2>3. \A m \in Open : m \in Modules /\ order'[m] = order[m] /\ order[m] \in Nat /\ order'[m] < c /\ ~(c <= order'[m])
    BY <1>3, <1>5, <1>9, <1>10
  <2>4. c <= c /\ ~(c < c)
    BY <1>3
  <2>5. Segment'[n] = {n}
    BY <1>5, <1>8, <1>9, <1>12, <2>1, <2>3, <2>4
  <2>6. ASSUME NEW a \in Active
        PROVE  Segment'[a] = Segment[a]
    <3>1. a \in Modules /\ a \in Open /\ order'[a] = order[a] /\ order[a] < c
      BY <1>9, <2>3
    <3>2. n \notin Segment'[a]
      BY <1>5, <1>12, <2>1, <2>4, <3>1
    <3>3. ASSUME NEW v \in Open
          PROVE  (\A b \in Active' : order'[a] < order'[b] => order'[v] < order'[b]) <=>
                   \A b \in Active : order[a] < order[b] => order[v] < order[b]
      BY <1>5, <1>9, <1>12, <2>3, <3>1
    <3>4. \A v \in Open : v \in Segment'[a] <=> v \in Segment[a]
      BY <1>8, <2>1, <2>2, <2>3, <3>1, <3>3
    <3>5. Segment'[a] \subseteq Open \cup {n} /\ Segment[a] \subseteq Open
      BY <1>8, <2>1, <2>2, <3>1
    <3> QED
      BY <3>2, <3>4, <3>5
  <2> QED
    BY <2>5, <2>6
<1>22. \A a \in Active : Segment[a] \subseteq Open
  BY <1>9, <1>10 DEF Segment
<1>23. ActiveInARow'
  <2>1. n \in Reach[n]
    BY ReachingSteps
  <2>2. \A a \in Active : order'[a] = order[a] /\ ~(c <= order'[a])
    BY <1>3, <1>5, <1>9, <1>10
  <2> QED
    BY <1>1, <1>5, <1>12, <1>14, <2>1, <2>2 DEF ActiveInARow
<1>24. EveryOpenHeld' /\ SegmentsMutual'
  BY <1>1, <1>8, <1>12, <1>14, <1>21, ReachingSteps DEF EveryOpenHeld, SegmentsMutual
<1>25. LowBelow'
  <2>1. \A a \in Active : low'[a] = low[a] /\ low[a] <= c
    <3>1. \A a \in Active : low[a] <= order[a] /\ low[a] \in Nat /\ order[a] \in Nat /\ order[a] < c
      BY <1>1, <1>3, <1>9, <1>10 DEF LowReached, DepthTyped
    <3> QED
      BY <1>3, <1>5, <1>9, <1>10, <3>1
  <2>2. ASSUME NEW a \in Active, NEW v \in Segment[a], NEW w \in (Arcs[v] \ Rest'[v]) \cap Open'
        PROVE  low'[a] <= order'[w]
    <3>1. v \in Entered
      BY <1>9, <1>22
    <3>2. CASE w = n
      BY <1>5, <2>1, <3>2
    <3>3. CASE w # n
      <4>1. w \in (Arcs[v] \ Rest[v]) \cap Open
        BY <1>8, <1>19, <2>2, <3>1, <3>3
      <4> QED
        BY <1>1, <1>5, <1>9, <1>10, <2>1, <4>1 DEF LowBelow
    <3> QED
      BY <3>2, <3>3
  <2>3. Arcs[n] \ Rest'[n] = {}
    BY <1>12
  <2> QED
    BY <1>12, <1>14, <1>21, <2>2, <2>3 DEF LowBelow
<1>26. LowReached'
  <2>1. low'[n] <= order'[n] /\ order'[n] = low'[n] /\ n \in Reach[n]
    BY <1>3, <1>5, ReachingSteps
  <2>2. \A m \in Open : order'[m] = order[m] /\ low'[m] = low[m]
    BY <1>5, <1>9, <1>10
  <2>3. ASSUME NEW a \in Active
        PROVE  low'[a] <= order'[a] /\ \E w \in Open' : order'[w] = low'[a] /\ w \in Reach[a]
    BY <1>1, <1>8, <1>9, <2>2 DEF LowReached
  <2> QED
    BY <1>8, <1>12, <1>14, <2>1, <2>3 DEF LowReached
<1>27. ReportedSoFar'
  BY <1>1, <1>2, <1>14, GraphOfCyclesStays DEF ReportedSoFar
<1> QED
  BY <1>15, <1>16, <1>17, <1>18, <1>20, <1>23, <1>24, <1>25, <1>26, <1>27 DEF SearchedSoFar

\* The call on top of the others is of the active module entered last.
LEMMA TopCall ==
  ASSUME SearchedSoFar, frames # <<>>
  PROVE  /\ Callers \in Seq(CallFrames) /\ Top \in CallFrames /\ Top.node \in Active
         /\ Active = Calling(Callers) \cup {Top.node} /\ Top.node \notin Calling(Callers)
         /\ Rest[Top.node] = Top.rest
         /\ \A m \in Modules : Rest[m] = IF m = Top.node THEN Top.rest ELSE Unfollowed(Callers)[m]
         /\ Unfollowed(Callers)[Top.node] = {}
         /\ Deepening(Callers, order) /\ \A m \in Calling(Callers) : order[m] < order[Top.node]
         /\ Active \subseteq Modules /\ \A m \in Modules : order[m] \in Nat
<1>1. DepthTyped /\ FramesInOrder /\ StackInOrder
  BY DEF SearchedSoFar
<1>2. Callers \in Seq(CallFrames) /\ Top \in CallFrames /\ frames = Append(Callers, Top)
  BY <1>1, TakenOff DEF DepthTyped, Callers, Top
<1>3. Top.node \in Modules
  BY <1>2 DEF CallFrames
<1>4. Active \subseteq Modules /\ \A m \in Modules : order[m] \in Nat
  BY <1>1 DEF StackInOrder, FramesInOrder, Entered, DepthTyped
<1>5. /\ Active = Calling(Callers) \cup {Top.node}
      /\ Deepening(Callers, order) /\ \A m \in Calling(Callers) : order[m] < order[Top.node]
  BY <1>1, <1>2, CallAdded DEF Active, FramesInOrder
<1>6. Top.node \notin Calling(Callers)
  BY <1>3, <1>4, <1>5
<1>7. /\ \A m \in Modules : Rest[m] = IF m = Top.node THEN Top.rest ELSE Unfollowed(Callers)[m]
      /\ Unfollowed(Callers)[Top.node] = {}
  BY <1>2, <1>6, CallAdded DEF Rest
<1> QED
  BY <1>2, <1>3, <1>4, <1>5, <1>6, <1>7

LEMMA StartKeeps ==
  ASSUME GraphTypeOK, request.tool = "detect_cycles", SearchedSoFar, StartSearch
  PROVE  SearchedSoFar'
<1> DEFINE unvisited == {m \in request.path : order[m] = 0}
           n == Least(unvisited)
<1>1. frames = <<>> /\ unvisited # {} /\ Connect(n, <<>>)
  BY DEF StartSearch
<1>2. request.path \subseteq Modules /\ Modules \subseteq Nat
  BY ProgramAssumption DEF GraphTypeOK, Cycles, Dependencies, CallGraphs, DeadCode, DefinitionsOf
<1>3. n \in unvisited
  <2>1. unvisited \subseteq Nat
    BY <1>2
  <2> HIDE DEF unvisited
  <2> QED
    BY <1>1, <2>1, LeastIsMember
<1>4. n \in Modules /\ n \notin Entered
  BY <1>2, <1>3 DEF Entered
<1> HIDE DEF n
<1>5. /\ Calling(<<>>) = Active /\ Active = {} /\ Deepening(<<>>, order) /\ <<>> \in Seq(CallFrames)
      /\ \A m \in Modules : Unfollowed(<<>>)[m] = {} /\ Rest[m] = {}
  BY <1>1, NothingOnEmpty DEF Active, Rest
<1>6. \A m \in Modules : Unfollowed(<<>>)[m] \subseteq Rest[m] /\ Rest[m] \subseteq Unfollowed(<<>>)[m] \cup {n}
  BY <1>5
<1>7. \A a \in Active : n \in Reach[a]
  BY <1>5
<1> QED
  BY <1>1, <1>4, <1>5, <1>6, <1>7, ConnectKeeps

\* An import of a module met before: if it is open, the low takes it into account.
LEMMA SeenKeeps ==
  ASSUME GraphTypeOK, request.tool = "detect_cycles", SearchedSoFar, frames # <<>>,
         NEW n \in Entered, n \in Top.rest, UNCHANGED <<program, order, stack, answer>>,
         frames' \in Seq(CallFrames), Active' = Active, Deepening(frames', order),
         \A m \in Modules : Rest'[m] = IF m = Top.node THEN Rest[m] \ {n} ELSE Rest[m],
         low' = IF n \in Open THEN Lower(Top.node, order[n]) ELSE low
  PROVE  SearchedSoFar'
<1> DEFINE t == Top.node
<1>1. /\ DepthTyped /\ Numbered /\ StackInOrder /\ FramesInOrder
      /\ FollowedEntered /\ GoneClosed
      /\ ActiveInARow /\ EveryOpenHeld /\ SegmentsMutual /\ LowBelow /\ LowReached
      /\ ReportedSoFar
  BY DEF SearchedSoFar
<1>2. /\ t \in Active /\ t \in Modules /\ t \in Open /\ Active \subseteq Modules
      /\ \A m \in Modules : order[m] \in Nat
      /\ \A a \in Active : a # t => order[a] < order[t]
      /\ n \in Arcs[t] /\ n \in Modules
  BY <1>1, TopCall DEF FramesInOrder, Entered
<1>3. \A m \in Modules : low[m] \in Nat
  BY <1>1 DEF DepthTyped
<1> HIDE DEF t
<1>4. low' \in [Modules -> Nat] /\ \A m \in Modules : low'[m] <= low[m]
  BY <1>1, <1>2, <1>3 DEF Lower, DepthTyped, t
<1>5. \A m \in Modules : m # t => low'[m] = low[m]
  BY <1>1, <1>2, <1>3 DEF Lower, DepthTyped, t
<1>6. (n \in Open => low'[t] <= order[n]) /\ (low'[t] = low[t] \/ (n \in Open /\ low'[t] = order[n]))
  BY <1>1, <1>2, <1>3 DEF Lower, DepthTyped, t
<1>7. /\ Arcs' = Arcs /\ Reach' = Reach /\ Entered' = Entered /\ Open' = Open /\ Gone' = Gone
      /\ Segment' = Segment
  BY GraphOfCyclesStays DEF Entered, Open, Gone, Segment
<1>8. DepthTyped' /\ Numbered' /\ StackInOrder'
  BY <1>1, <1>4, <1>7 DEF DepthTyped, Numbered, StackInOrder
<1>9. FramesInOrder'
  BY <1>1, <1>7 DEF FramesInOrder
<1>10. \A m \in Modules : Arcs[m] \ Rest'[m] \subseteq (Arcs[m] \ Rest[m]) \cup {n}
  OBVIOUS
<1>11. FollowedEntered' /\ GoneClosed'
  <2>1. Entered \subseteq Modules
    BY DEF Entered
  <2> QED
    BY <1>1, <1>7, <1>10, <2>1 DEF FollowedEntered, GoneClosed
<1>12. ActiveInARow' /\ EveryOpenHeld' /\ SegmentsMutual'
  BY <1>1, <1>7 DEF ActiveInARow, EveryOpenHeld, SegmentsMutual
<1>13. \A a \in Active : t \in Segment[a] => a = t
  <2>1. \A a \in Active : t \in Segment[a] => (order[a] < order[t] => order[t] < order[t])
    BY <1>2 DEF Segment
  <2> QED
    BY <1>2, <2>1
<1>14. LowBelow'
  <2> SUFFICES ASSUME NEW a \in Active, NEW v \in Segment[a], NEW w \in (Arcs[v] \ Rest'[v]) \cap Open
               PROVE  low'[a] <= order[w]
    BY <1>7 DEF LowBelow
  <2>1. v \in Modules /\ w \in Modules /\ a \in Modules
    BY <1>1, <1>2 DEF Segment, StackInOrder, Entered
  <2>2. CASE w \in Arcs[v] \ Rest[v]
    <3>1. low[a] <= order[w] /\ low'[a] <= low[a] /\ low'[a] \in Nat
      BY <1>1, <1>4, <2>1, <2>2 DEF LowBelow
    <3> QED
      BY <1>2, <1>3, <2>1, <3>1
  <2>3. CASE w \notin Arcs[v] \ Rest[v]
    <3>1. v = t /\ w = n
      BY <2>1, <2>3 DEF t
    <3> QED
      BY <1>6, <1>13, <3>1
  <2> QED
    BY <2>2, <2>3
<1>15. LowReached'
  <2> SUFFICES ASSUME NEW a \in Active
               PROVE  low'[a] <= order[a] /\ \E w \in Open : order[w] = low'[a] /\ w \in Reach[a]
    BY <1>7 DEF LowReached
  <2>1. low[a] <= order[a] /\ \E w \in Open : order[w] = low[a] /\ w \in Reach[a]
    BY <1>1 DEF LowReached
  <2>2. low'[a] <= order[a]
    <3>1. low'[a] <= low[a] /\ low'[a] \in Nat /\ low[a] \in Nat /\ order[a] \in Nat
      BY <1>2, <1>3, <1>4
    <3> QED
      BY <2>1, <3>1
  <2>3. CASE low'[a] = low[a]
    BY <2>1, <2>2, <2>3
  <2>4. CASE low'[a] # low[a]
    <3>1. a = t /\ n \in Open /\ low'[a] = order[n]
      BY <1>2, <1>5, <1>6, <2>4
    <3>2. n \in Reach[t]
      BY <1>2, ReachingSteps
    <3> QED
      BY <2>2, <3>1, <3>2
  <2> QED
    BY <2>3, <2>4
<1>16. ReportedSoFar'
  BY <1>1, <1>7, GraphOfCyclesStays DEF ReportedSoFar
<1> QED
  BY <1>8, <1>9, <1>11, <1>12, <1>14, <1>15, <1>16 DEF SearchedSoFar

LEMMA FollowKeeps ==
  ASSUME GraphTypeOK, request.tool = "detect_cycles", SearchedSoFar, Follow
  PROVE  SearchedSoFar'
<1> DEFINE t == Top.node
<1>1. PICK n \in Top.rest :
        LET followed == [Top EXCEPT !.rest = @ \ {n}]
        IN  \/ order[n] = 0 /\ Connect(n, Append(Callers, followed))
            \/ /\ order[n] # 0
               /\ frames' = Append(Callers, followed)
               /\ low' = IF OnStack(n) THEN Lower(t, order[n]) ELSE low
               /\ UNCHANGED <<program, answer, done, breadth, order, stack>>
  BY DEF Follow
<1> DEFINE followed == [Top EXCEPT !.rest = @ \ {n}]
           fs == Append(Callers, followed)
<1>2. frames # <<>>
  BY DEF Follow
<1>3. /\ Callers \in Seq(CallFrames) /\ Top \in CallFrames /\ t \in Active
      /\ Active = Calling(Callers) \cup {t} /\ t \notin Calling(Callers)
      /\ Rest[t] = Top.rest
      /\ \A m \in Modules : Rest[m] = IF m = t THEN Top.rest ELSE Unfollowed(Callers)[m]
      /\ Deepening(Callers, order) /\ \A m \in Calling(Callers) : order[m] < order[t]
      /\ Active \subseteq Modules /\ \A m \in Modules : order[m] \in Nat
  BY <1>2, TopCall
<1>4. followed \in CallFrames /\ followed.node = t /\ followed.rest = Top.rest \ {n} /\ n \in Modules
  BY <1>3 DEF CallFrames
<1> HIDE DEF followed
<1>5. fs \in Seq(CallFrames)
  BY <1>3, <1>4, Appended
<1>6. Calling(fs) = Active /\ Deepening(fs, order)
  BY <1>3, <1>4, CallAdded
<1>7. \A m \in Modules : Unfollowed(fs)[m] = IF m = t THEN Rest[m] \ {n} ELSE Rest[m]
  <2>1. \A m \in Modules : Unfollowed(fs)[m] = IF m = followed.node THEN followed.rest ELSE Unfollowed(Callers)[m]
    BY <1>3, <1>4, CallAdded
  <2> QED
    BY <1>3, <1>4, <2>1
<1> HIDE DEF fs
<1>8. CASE order[n] = 0 /\ Connect(n, fs)
  <2>1. n \notin Entered
    BY <1>8 DEF Entered
  <2>2. n \in Reach[t]
    BY <1>3, <1>4, ReachingSteps DEF SearchedSoFar, FramesInOrder
  <2>3. \A a \in Active : order[a] <= order[t]
    BY <1>3
  <2>4. \A a \in Active : n \in Reach[a]
    BY <1>3, <1>4, <2>2, <2>3, ReachingSteps DEF SearchedSoFar, ActiveInARow
  <2>5. \A m \in Modules : Unfollowed(fs)[m] \subseteq Rest[m] /\ Rest[m] \subseteq Unfollowed(fs)[m] \cup {n}
    BY <1>7
  <2> QED
    BY <1>4, <1>5, <1>6, <1>8, <2>1, <2>4, <2>5, ConnectKeeps
<1>9. CASE /\ order[n] # 0
           /\ frames' = fs
           /\ low' = IF OnStack(n) THEN Lower(t, order[n]) ELSE low
           /\ UNCHANGED <<program, answer, done, breadth, order, stack>>
  <2>1. n \in Entered
    BY <1>4, <1>9 DEF Entered
  <2>2. OnStack(n) <=> n \in Open
    BY DEF OnStack, Open, ToSet
  <2>3. Active' = Active /\ \A m \in Modules : Rest'[m] = IF m = t THEN Rest[m] \ {n} ELSE Rest[m]
    BY <1>6, <1>7, <1>9 DEF Active, Rest
  <2>4. Deepening(frames', order) /\ frames' \in Seq(CallFrames)
    BY <1>5, <1>6, <1>9
  <2>5. low' = IF n \in Open THEN Lower(Top.node, order[n]) ELSE low
    BY <1>9, <2>2
  <2>6. UNCHANGED <<program, order, stack, answer>>
    BY <1>9
  <2> QED
    BY <1>2, <2>1, <2>3, <2>4, <2>5, <2>6, SeenKeeps
<1> QED
  BY <1>1, <1>8, <1>9 DEF followed, fs

\* _pop_component: what lies on the stack from a module up is what is numbered
\* from it on, and what is left below is the rest.
LEMMA ComponentOnTop ==
  ASSUME DepthTyped, Rising(stack, order), NEW node \in Open
  PROVE  /\ Component(node) \in Seq(Modules) /\ Len(Component(node)) \in Nat
         /\ ToSet(Component(node)) = {v \in Open : order[node] <= order[v]}
         /\ Cardinality(ToSet(Component(node))) = Len(Component(node))
         /\ LET left == SubSeq(stack, 1, Len(stack) - Len(Component(node)))
            IN  /\ left \in Seq(Modules) /\ Rising(left, order)
                /\ ToSet(left) = {v \in Open : order[v] < order[node]}
<1> DEFINE n == Len(stack)
           I == {i \in 1..n : stack[i] = node}
           p == SelectInSeq(stack, LAMBDA m : m = node)
           c == SubSeq(stack, p, n)
           left == SubSeq(stack, 1, n - Len(c))
<1>1. /\ n \in Nat /\ \A k \in 1..n : stack[k] \in Modules
      /\ Open = {stack[k] : k \in 1..n} /\ \A m \in Modules : order[m] \in Nat
  BY DEF DepthTyped, Open, ToSet
<1>2. I # {} /\ I \subseteq Nat
  BY <1>1
<1>3. p = Min(I)
  BY <1>2 DEF SelectInSeq
<1>4. p \in I
  BY <1>2, <1>3, LeastNatural DEF Min
<1> HIDE DEF p
<1>5. p \in 1..n /\ p \in Nat /\ stack[p] = node /\ p >= 1 /\ p <= n
  BY <1>1, <1>4
<1>6. \A j, k \in 1..n : j < k => order[stack[j]] < order[stack[k]]
  BY DEF Rising
<1>7. \A k \in 1..n : order[stack[k]] \in Nat
  BY <1>1
<1>8. \A k \in 1..n : (p <= k => order[node] <= order[stack[k]]) /\ (k < p => order[stack[k]] < order[node])
  BY <1>5, <1>6, <1>7
<1>9. c \in Seq(Modules) /\ Len(c) = n - p + 1 /\ \A k \in 1..n - p + 1 : c[k] = stack[p + k - 1]
  <2>1. \A k \in p..n : stack[k] \in Modules
    BY <1>1, <1>5
  <2> QED
    BY <1>1, <1>5, <2>1, SubSeqProperties
<1> HIDE DEF c
<1>10. n - Len(c) = p - 1 /\ p - 1 \in Nat /\ p - 1 <= n /\ Len(c) \in Nat
  BY <1>1, <1>5, <1>9
<1>11. left \in Seq(Modules) /\ Len(left) = p - 1 /\ \A k \in 1..p - 1 : left[k] = stack[k]
  <2> DEFINE b == p - 1
  <2>1. stack \in Seq(Modules) /\ b \in Nat /\ b <= Len(stack) /\ left = SubSeq(stack, 1, b)
    BY <1>10 DEF DepthTyped
  <2> HIDE DEF b, left
  <2>2. /\ SubSeq(stack, 1, b) \in Seq(Modules) /\ Len(SubSeq(stack, 1, b)) = b
        /\ \A k \in 1..b : SubSeq(stack, 1, b)[k] = stack[k]
    BY <2>1, CutOut
  <2>3. left \in Seq(Modules) /\ Len(left) = b /\ \A k \in 1..b : left[k] = stack[k]
    BY <2>1, <2>2, Zenon
  <2> QED
    BY <2>3 DEF b
<1> HIDE DEF left
<1> HIDE DEF n, I
<1>12. ToSet(c) = {stack[k] : k \in p..n}
  <2>1. \A k \in 1..n - p + 1 : p + k - 1 \in p..n
    BY <1>1, <1>5
  <2>2. \A k \in p..n : k - p + 1 \in 1..n - p + 1 /\ p + (k - p + 1) - 1 = k
    BY <1>1, <1>5
  <2>3. ToSet(c) = {c[k] : k \in 1..n - p + 1}
    BY <1>9 DEF ToSet
  <2>4. ASSUME NEW k \in p..n PROVE stack[k] \in ToSet(c)
    <3>1. c[k - p + 1] = stack[k]
      BY <1>9, <2>2
    <3> QED
      BY <2>2, <2>3, <3>1
  <2> QED
    BY <1>9, <2>1, <2>3, <2>4
<1>13. ToSet(left) = {stack[k] : k \in 1..p - 1}
  <2>1. DOMAIN left = 1..p - 1
    BY <1>11
  <2> QED
    BY <1>11, <2>1 DEF ToSet
<1>14. \A k \in 1..n : (k \in p..n <=> p <= k) /\ (k \in 1..p - 1 <=> k < p) /\ (p <= k \/ k < p)
  BY <1>1, <1>5
<1>15. \A k \in p..n : k \in 1..n
  BY <1>1, <1>5
<1>16. \A k \in 1..p - 1 : k \in 1..n
  BY <1>1, <1>5
<1>17. \A k \in 1..n : ~(order[node] <= order[stack[k]] /\ order[stack[k]] < order[node])
  BY <1>5, <1>7
<1>18. ToSet(c) = {v \in Open : order[node] <= order[v]}
  BY <1>1, <1>8, <1>12, <1>14, <1>15, <1>17
<1>19. ToSet(left) = {v \in Open : order[v] < order[node]}
  BY <1>1, <1>8, <1>13, <1>14, <1>16, <1>17
<1>20. Rising(left, order)
  BY <1>6, <1>11, <1>16 DEF Rising
<1>21. Cardinality(ToSet(c)) = Len(c)
  <2>1. \A j, k \in 1..Len(c) : p + j - 1 \in 1..n /\ (j < k => p + j - 1 < p + k - 1)
    BY <1>1, <1>5, <1>9
  <2>2. \A j, k \in 1..Len(c) : j < k => order[c[j]] < order[c[k]]
    BY <1>6, <1>9, <2>1
  <2>3. \A k \in 1..Len(c) : order[c[k]] \in Nat
    BY <1>1, <1>9
  <2>4. \A j, k \in 1..Len(c) : j < k \/ k < j \/ j = k
    OBVIOUS
  <2>5. \A j, k \in 1..Len(c) : c[j] = c[k] => j = k
    BY <2>2, <2>3, <2>4
  <2> QED
    BY <1>9, <2>5, OnceEach
<1> QED
  BY <1>9, <1>10, <1>11, <1>18, <1>19, <1>20, <1>21 DEF Component, c, left, n, p

\* The call below the top one is the last of those below it.
LEMMA CallerBelow ==
  ASSUME SearchedSoFar, frames # <<>>, Callers # <<>>
  PROVE  LET caller == Callers[Len(Callers)].node
         IN  caller \in Calling(Callers) /\ \A a \in Calling(Callers) : a # caller => order[a] < order[caller]
<1> DEFINE under == Front(Callers)
           last == Callers[Len(Callers)]
<1>1. Callers \in Seq(CallFrames) /\ Deepening(Callers, order)
  BY TopCall
<1>2. under \in Seq(CallFrames) /\ last \in CallFrames /\ Callers = Append(under, last)
  BY <1>1, TakenOff
<1> HIDE DEF under, last
<1>3. /\ Calling(Callers) = Calling(under) \cup {last.node}
      /\ Deepening(Callers, order) <=> Deepening(under, order) /\ \A m \in Calling(under) : order[m] < order[last.node]
  BY <1>2, CallAdded
<1> QED
  BY <1>1, <1>3 DEF last

\* Closing the call on top: every call below it goes on as it was.
LEMMA CallClosed ==
  ASSUME SearchedSoFar, frames # <<>>, Top.rest = {}, frames' = Callers, order' = order
  PROVE  /\ frames' \in Seq(CallFrames) /\ Deepening(frames', order)
         /\ Active' = Active \ {Top.node} /\ \A m \in Modules : Rest'[m] = Rest[m]
BY TopCall DEF Active, Rest

\* What lies from the root of a component up is all that the root can go to and
\* come back from.
LEMMA ComponentIsMutual ==
  ASSUME GraphTypeOK, request.tool = "detect_cycles", SearchedSoFar,
         frames # <<>>, Top.rest = {}, low[Top.node] = order[Top.node]
  PROVE  /\ Segment[Top.node] = {v \in Open : order[Top.node] <= order[v]}
         /\ \A v \in Segment[Top.node] : Mutual(v) = Segment[Top.node]
         /\ \A v \in Gone \cup Segment[Top.node] : Arcs[v] \subseteq Gone \cup Segment[Top.node]
<1> DEFINE t == Top.node
           C == Segment[t]
<1>1. /\ DepthTyped /\ Numbered /\ StackInOrder /\ FramesInOrder
      /\ FollowedEntered /\ GoneClosed
      /\ ActiveInARow /\ EveryOpenHeld /\ SegmentsMutual /\ LowBelow /\ LowReached
      /\ ReportedSoFar
  BY DEF SearchedSoFar
<1>2. /\ t \in Active /\ t \in Modules /\ Active \subseteq Modules /\ Active \subseteq Open
      /\ \A m \in Modules : order[m] \in Nat
      /\ \A a \in Active : a # t => order[a] < order[t]
      /\ Rest[t] = {} /\ Open \subseteq Entered /\ Entered \subseteq Modules
  BY <1>1, TopCall DEF FramesInOrder, StackInOrder, Entered
<1> HIDE DEF t
<1>3. \A b \in Active : ~(order[t] < order[b])
  BY <1>2
<1>4. C = {v \in Open : order[t] <= order[v]}
  BY <1>2, <1>3 DEF Segment
<1>5. \A v \in Modules : v \notin Active => Rest[v] = {}
  BY DEF Rest, Active, Unfollowed, Calling
<1> HIDE DEF C
<1>6. \A v \in C : v \in Modules /\ v \in Open /\ Rest[v] = {}
  <2>1. \A v \in C : v \in Active => v = t
    BY <1>2, <1>4
  <2> QED
    BY <1>2, <1>4, <1>5, <2>1
<1>7. \A v \in C : Arcs[v] \subseteq Gone \cup C
  <2> SUFFICES ASSUME NEW v \in C, NEW w \in Arcs[v], w \notin Gone PROVE w \in C
    OBVIOUS
  <2>1. w \in Entered
    BY <1>1, <1>2, <1>6 DEF FollowedEntered
  <2>2. w \in Open
    BY <2>1 DEF Gone
  <2>3. low[t] <= order[w]
    BY <1>1, <1>2, <1>6, <2>2 DEF LowBelow, C
  <2> QED
    BY <1>4, <2>2, <2>3 DEF t
<1>8. \A v \in Gone \cup C : Arcs[v] \subseteq Gone \cup C
  BY <1>1, <1>7 DEF GoneClosed
<1>9. ASSUME NEW v \in C
      PROVE  Mutual(v) = C
  <2>1. v \in Modules /\ v \notin Gone
    BY <1>6 DEF Gone
  <2>2. \A w \in C : w \in Modules /\ w \in Reach[t] /\ t \in Reach[w]
    BY <1>1, <1>2, <1>6 DEF SegmentsMutual, C
  <2>3. \A w \in C : w \in Reach[v] /\ v \in Reach[w]
    BY <1>2, <2>1, <2>2, ReachingSteps
  <2>4. Reach[v] \subseteq Gone \cup C
    <3>1. Gone \cup C \subseteq Modules
      BY <1>2, <1>6 DEF Gone
    <3> QED
      BY <1>8, <3>1, ReachStaysInside
  <2>5. \A w \in Gone : Reach[w] \subseteq Gone
    <3>1. Gone \subseteq Modules
      BY <1>2 DEF Gone
    <3> QED
      BY <1>1, <3>1, ReachStaysInside DEF GoneClosed
  <2>6. Mutual(v) = {w \in Reach[v] : v \in Reach[w]}
    BY <2>1, MutualReach
  <2> QED
    BY <2>1, <2>3, <2>4, <2>5, <2>6
<1> QED
  BY <1>4, <1>8, <1>9 DEF C, t

\* The module on top is the root of a component: the component is taken off.
LEMMA RootKeeps ==
  ASSUME GraphTypeOK, request.tool = "detect_cycles", SearchedSoFar,
         Close, low[Top.node] = order[Top.node]
  PROVE  SearchedSoFar'
<1> DEFINE t == Top.node
           C == Segment[t]
           component == Component(t)
<1>1. /\ DepthTyped /\ Numbered /\ StackInOrder /\ FramesInOrder
      /\ FollowedEntered /\ GoneClosed
      /\ ActiveInARow /\ EveryOpenHeld /\ SegmentsMutual /\ LowBelow /\ LowReached
      /\ ReportedSoFar
  BY DEF SearchedSoFar
<1>2. /\ frames # <<>> /\ Top.rest = {}
      /\ stack' = SubSeq(stack, 1, Len(stack) - Len(component))
      /\ answer' = IF Len(component) > 1 THEN Append(answer, ToSet(component)) ELSE answer
      /\ frames' = Callers
      /\ low' = IF Callers = <<>> THEN low ELSE Lower(Callers[Len(Callers)].node, low[t])
      /\ UNCHANGED program /\ order' = order
  BY DEF Close
<1>3. /\ t \in Active /\ t \in Modules /\ Active \subseteq Modules /\ Active \subseteq Open
      /\ \A m \in Modules : order[m] \in Nat
      /\ \A a \in Active : a # t => order[a] < order[t]
      /\ Open \subseteq Entered /\ Entered \subseteq Modules
      /\ Active = Calling(Callers) \cup {t} /\ t \notin Calling(Callers)
  BY <1>1, <1>2, TopCall DEF FramesInOrder, StackInOrder, Entered
<1>4. /\ C = {v \in Open : order[t] <= order[v]}
      /\ \A v \in C : Mutual(v) = C
      /\ \A v \in Gone \cup C : Arcs[v] \subseteq Gone \cup C
  BY <1>2, ComponentIsMutual
<1>5. /\ Len(component) \in Nat /\ ToSet(component) = C /\ Cardinality(C) = Len(component)
      /\ stack' \in Seq(Modules) /\ Rising(stack', order)
      /\ Open' = {v \in Open : order[v] < order[t]}
  BY <1>1, <1>2, <1>3, <1>4, ComponentOnTop DEF StackInOrder, Open
<1>6. /\ frames' \in Seq(CallFrames) /\ Deepening(frames', order)
      /\ Active' = Active \ {t} /\ \A m \in Modules : Rest'[m] = Rest[m]
  BY <1>2, CallClosed
<1>7. low' = low
  <2>1. CASE Callers = <<>>
    BY <1>2, <2>1
  <2>2. CASE Callers # <<>>
    <3> DEFINE caller == Callers[Len(Callers)].node
    <3>1. caller \in Active /\ caller # t
      BY <1>2, <1>3, <2>2, CallerBelow
    <3> HIDE DEF caller
    <3>2. low[caller] <= order[caller] /\ order[caller] < order[t] /\ low[caller] \in Nat /\ order[caller] \in Nat
      BY <1>1, <1>3, <3>1 DEF LowReached, DepthTyped
    <3>3. ~(low[t] < low[caller])
      BY <1>3, <3>2
    <3>4. low' = [low EXCEPT ![caller] = low[caller]]
      BY <1>2, <2>2, <3>3 DEF Lower, caller
    <3> QED
      BY <1>1, <3>4 DEF DepthTyped
  <2> QED
    BY <2>1, <2>2
<1> HIDE DEF component
<1>8. Arcs' = Arcs /\ Reach' = Reach /\ Entered' = Entered /\ \A m : Mutual(m)' = Mutual(m)
  BY <1>2, GraphOfCyclesStays DEF Entered
<1> HIDE DEF t
<1>9. \A v \in Open : order[v] \in Nat /\ (order[v] < order[t] \/ order[t] <= order[v])
                      /\ ~(order[v] < order[t] /\ order[t] <= order[v])
  BY <1>3
<1>10. C \subseteq Open /\ Open' = Open \ C /\ t \in C
  BY <1>3, <1>4, <1>5, <1>9
<1>11. Gone' = Gone \cup C
  BY <1>3, <1>8, <1>10 DEF Gone
<1>12. \A a \in Active' : a \in Active /\ a # t /\ a \in Open' /\ order[a] < order[t]
  BY <1>3, <1>5, <1>6
<1>13. \A a \in Active' : Segment'[a] = Segment[a]
  <2> SUFFICES ASSUME NEW a \in Active' PROVE Segment'[a] = Segment[a]
    OBVIOUS
  <2>1. a \in Modules
    BY <1>3, <1>12
  <2>2. Segment[a] = {v \in Open : order[a] <= order[v] /\
                         \A b \in Active : order[a] < order[b] => order[v] < order[b]}
    BY <2>1 DEF Segment
  <2>3. Segment'[a] = {v \in Open' : order[a] <= order[v] /\
                         \A b \in Active' : order[a] < order[b] => order[v] < order[b]}
    BY <1>2, <2>1 DEF Segment
  <2>4. ASSUME NEW v \in Open
        PROVE  v \in Segment[a] <=> v \in Segment'[a]
    BY <1>3, <1>5, <1>6, <1>12, <2>2, <2>3
  <2> QED
    BY <1>5, <2>2, <2>3, <2>4
<1> HIDE DEF C
<1>14. DepthTyped' /\ Numbered' /\ StackInOrder'
  BY <1>1, <1>2, <1>5, <1>6, <1>7, <1>8, <1>10 DEF DepthTyped, Numbered, StackInOrder
<1>15. FramesInOrder'
  BY <1>1, <1>2, <1>6, <1>8, <1>12 DEF FramesInOrder
<1>16. FollowedEntered' /\ GoneClosed'
  BY <1>1, <1>3, <1>4, <1>6, <1>8, <1>11 DEF FollowedEntered, GoneClosed
<1>17. ActiveInARow' /\ SegmentsMutual'
  BY <1>1, <1>2, <1>8, <1>12, <1>13 DEF ActiveInARow, SegmentsMutual
<1>18. EveryOpenHeld'
  BY <1>1, <1>6, <1>10, <1>13 DEF EveryOpenHeld, C
<1>19. LowBelow'
  <2>1. \A a \in Active : \A v \in Segment[a] : v \in Modules
    BY <1>3 DEF Segment
  <2> QED
    BY <1>1, <1>2, <1>6, <1>7, <1>8, <1>10, <1>12, <1>13, <2>1 DEF LowBelow
<1>20. LowReached'
  <2> SUFFICES ASSUME NEW a \in Active'
               PROVE  low[a] <= order[a] /\ \E w \in Open' : order[w] = low[a] /\ w \in Reach[a]
    BY <1>2, <1>7, <1>8 DEF LowReached
  <2>1. PICK w \in Open : order[w] = low[a] /\ w \in Reach[a]
    BY <1>1, <1>12 DEF LowReached
  <2>2. low[a] <= order[a] /\ order[a] < order[t] /\ order[a] \in Nat /\ low[a] \in Nat
    BY <1>1, <1>3, <1>12 DEF LowReached, DepthTyped
  <2>3. order[w] < order[t]
    BY <1>3, <2>1, <2>2
  <2> QED
    BY <1>5, <2>1, <2>2, <2>3
<1>21. ReportedSoFar'
  <2>1. /\ answer \in Seq(SUBSET Modules)
        /\ ToSet(answer) = {S \in {Mutual(m) : m \in Gone} : Cardinality(S) > 1}
        /\ \A j, k \in 1..Len(answer) : answer[j] = answer[k] => j = k
    BY <1>1 DEF ReportedSoFar
  <2>2. {Mutual(m) : m \in Gone'} = {Mutual(m) : m \in Gone} \cup {C}
    BY <1>4, <1>10, <1>11 DEF C
  <2>3. C \subseteq Modules
    BY <1>3, <1>10
  <2>4. C \notin ToSet(answer)
    <3>1. \A m \in Gone : m \in Mutual(m) /\ m \notin C
      <4>1. \A m \in Gone : m \in Modules /\ m \notin C
        BY <1>3, <1>10 DEF Gone
      <4> QED
        BY <4>1, ReachingSteps, MutualReach
    <3> QED
      BY <2>1, <3>1
  <2>5. CASE Len(component) > 1
    <3>1. answer' = Append(answer, C)
      BY <1>2, <1>5, <2>5 DEF component, t
    <3>2. /\ answer' \in Seq(SUBSET Modules) /\ ToSet(answer') = ToSet(answer) \cup {C}
          /\ Len(answer') = Len(answer) + 1 /\ answer'[Len(answer) + 1] = C
          /\ \A k \in 1..Len(answer) : answer'[k] = answer[k]
      BY <2>1, <2>3, <3>1, Appended
    <3>3. \A k \in 1..Len(answer) + 1 : k \in 1..Len(answer) \/ k = Len(answer) + 1
      BY <2>1
    <3>4. \A k \in 1..Len(answer) : answer[k] # C
      BY <2>1, <2>4 DEF ToSet
    <3>5. \A j, k \in 1..Len(answer') : answer'[j] = answer'[k] => j = k
      BY <2>1, <3>2, <3>3, <3>4
    <3>6. ToSet(answer') = {S \in {Mutual(m) : m \in Gone'} : Cardinality(S) > 1}
      <4> DEFINE before == {Mutual(m) : m \in Gone}
                 after == {Mutual(m) : m \in Gone'}
      <4>1. after = before \cup {C} /\ ToSet(answer) = {S \in before : Cardinality(S) > 1}
        BY <2>1, <2>2
      <4>2. Cardinality(C) > 1
        BY <1>5, <2>5
      <4> HIDE DEF before, after
      <4>3. ToSet(answer') = {S \in after : Cardinality(S) > 1}
        BY <3>2, <4>1, <4>2
      <4> QED
        BY <4>3 DEF after
    <3> QED
      BY <1>8, <3>2, <3>5, <3>6 DEF ReportedSoFar
  <2>6. CASE ~(Len(component) > 1)
    <3>1. answer' = answer /\ ~(Cardinality(C) > 1)
      BY <1>2, <1>5, <2>6 DEF component, t
    <3>2. ToSet(answer) = {S \in {Mutual(m) : m \in Gone'} : Cardinality(S) > 1}
      BY <2>1, <2>2, <3>1
    <3> QED
      BY <1>8, <2>1, <3>1, <3>2 DEF ReportedSoFar
  <2> QED
    BY <2>5, <2>6
<1> QED
  BY <1>14, <1>15, <1>16, <1>17, <1>18, <1>19, <1>20, <1>21 DEF SearchedSoFar

\* The module on top is none: its segment goes to the call below, with its low.
LEMMA ReturnKeeps ==
  ASSUME GraphTypeOK, request.tool = "detect_cycles", SearchedSoFar,
         Close, low[Top.node] # order[Top.node]
  PROVE  SearchedSoFar'
<1> DEFINE t == Top.node
           p == Callers[Len(Callers)].node
<1>1. /\ DepthTyped /\ Numbered /\ StackInOrder /\ FramesInOrder
      /\ FollowedEntered /\ GoneClosed
      /\ ActiveInARow /\ EveryOpenHeld /\ SegmentsMutual /\ LowBelow /\ LowReached
      /\ ReportedSoFar
  BY DEF SearchedSoFar
<1>2. /\ frames # <<>> /\ Top.rest = {} /\ frames' = Callers
      /\ stack' = SubSeq(stack, 1, Len(stack) - Len(<<>>))
      /\ answer' = IF Len(<<>>) > 1 THEN Append(answer, ToSet(<<>>)) ELSE answer
      /\ low' = IF Callers = <<>> THEN low ELSE Lower(p, low[t])
      /\ UNCHANGED program /\ order' = order
  BY DEF Close
<1>3. stack' = stack /\ answer' = answer
  <2>1. Len(<<>>) = 0 /\ ~(0 > 1) /\ stack \in Seq(Modules) /\ Len(stack) - 0 = Len(stack)
    BY <1>1 DEF DepthTyped
  <2>2. SubSeq(stack, 1, Len(stack)) = stack
    BY <2>1, SubSeqFull
  <2> QED
    BY <1>2, <2>1, <2>2
<1>4. /\ t \in Active /\ t \in Modules /\ Active \subseteq Modules /\ Active \subseteq Open
      /\ \A m \in Modules : order[m] \in Nat /\ low[m] \in Nat
      /\ \A a \in Active : a # t => order[a] < order[t]
      /\ Open \subseteq Entered /\ Entered \subseteq Modules
      /\ Active = Calling(Callers) \cup {t} /\ t \notin Calling(Callers)
  BY <1>1, <1>2, TopCall DEF FramesInOrder, StackInOrder, Entered, DepthTyped
<1>5. /\ frames' \in Seq(CallFrames) /\ Deepening(frames', order)
      /\ Active' = Active \ {t} /\ \A m \in Modules : Rest'[m] = Rest[m]
  BY <1>2, CallClosed
<1>6. /\ Arcs' = Arcs /\ Reach' = Reach /\ Entered' = Entered /\ Open' = Open /\ Gone' = Gone
      /\ \A m : Mutual(m)' = Mutual(m)
  BY <1>2, <1>3, GraphOfCyclesStays DEF Entered, Open, Gone
<1>7. /\ low[t] < order[t]
      /\ \E w \in Open : order[w] = low[t] /\ w \in Reach[t]
  BY <1>1, <1>4 DEF LowReached
<1> HIDE DEF t
\* The low leads to an open module of a segment below, and so back to the caller.
<1>8. PICK w \in Open : order[w] = low[t] /\ w \in Reach[t]
  BY <1>7
<1>9. PICK held \in Active : w \in Segment[held]
  BY <1>1 DEF EveryOpenHeld
<1>10. held # t /\ held \in Calling(Callers)
  <2>1. order[held] <= order[w]
    BY <1>4, <1>9 DEF Segment
  <2> QED
    BY <1>4, <1>7, <1>8, <2>1
<1>11. Callers # <<>>
  BY <1>10, NothingOnEmpty
<1>12. p \in Active' /\ \A a \in Active' : a # p => order[a] < order[p]
  BY <1>2, <1>4, <1>5, <1>11, CallerBelow
<1>13. low' = Lower(p, low[t])
  BY <1>2, <1>11
<1> HIDE DEF p
<1>14. /\ p \in Modules /\ p \in Active /\ p # t /\ order[p] < order[t]
       /\ \A a \in Active' : a \in Active /\ a \in Modules /\ a # t /\ order[a] < order[t] /\ order[a] <= order[p]
  BY <1>4, <1>5, <1>12
<1>15. p \in Reach[t] /\ t \in Reach[p]
  <2>1. held \in Modules /\ w \in Modules /\ held \in Reach[w]
    BY <1>1, <1>4, <1>9 DEF SegmentsMutual
  <2>2. p \in Reach[held] /\ t \in Reach[p]
    <3>1. order[held] <= order[p] /\ order[p] <= order[t]
      BY <1>4, <1>5, <1>10, <1>14
    <3> QED
      BY <1>1, <1>4, <1>14, <3>1 DEF ActiveInARow
  <2>3. held \in Reach[t]
    BY <1>4, <1>8, <2>1, ReachingSteps
  <2> QED
    BY <1>4, <1>14, <2>1, <2>2, <2>3, ReachingSteps
<1>16. /\ low' \in [Modules -> Nat]
       /\ \A m \in Modules : m # p => low'[m] = low[m]
       /\ low'[p] <= low[p] /\ low'[p] <= low[t] /\ (low'[p] = low[p] \/ low'[p] = low[t])
  BY <1>1, <1>4, <1>13, <1>14 DEF Lower, DepthTyped
<1>17. /\ Segment'[p] = Segment[p] \cup Segment[t]
       /\ \A a \in Active' : a # p => Segment'[a] = Segment[a]
  <2>1. \A a \in Modules : Segment[a] = {v \in Open : order[a] <= order[v] /\
                              \A b \in Active : order[a] < order[b] => order[v] < order[b]}
    BY DEF Segment
  <2>2. \A a \in Modules : Segment'[a] = {v \in Open : order[a] <= order[v] /\
                              \A b \in Active' : order[a] < order[b] => order[v] < order[b]}
    BY <1>2, <1>6 DEF Segment
  <2>3. Open \subseteq Modules
    BY <1>4
  <2>4. Segment[t] = {v \in Open : order[t] <= order[v]}
    <3>1. \A b \in Active : ~(order[t] < order[b])
      BY <1>4
    <3> QED
      BY <1>4, <2>1, <3>1
  <2>5. Segment'[p] = {v \in Open : order[p] <= order[v]}
    <3>1. \A b \in Active' : ~(order[p] < order[b])
      BY <1>4, <1>12, <1>14
    <3> QED
      BY <1>14, <2>2, <3>1
  <2>6. Segment[p] = {v \in Open : order[p] <= order[v] /\ order[v] < order[t]}
    <3>1. \A b \in Active : order[p] < order[b] => b = t
      BY <1>4, <1>5, <1>12, <1>14
    <3> QED
      BY <1>4, <1>14, <2>1, <3>1
  <2>7. \A v \in Open : order[p] <= order[v] <=>
                          (order[p] <= order[v] /\ order[v] < order[t]) \/ order[t] <= order[v]
    BY <1>4, <1>14, <2>3
  <2>8. ASSUME NEW a \in Active', a # p
        PROVE  Segment'[a] = Segment[a]
    <3>1. a \in Modules /\ order[a] < order[p] /\ order[p] < order[t] /\ p \in Active'
      BY <1>12, <1>14, <2>8
    <3>2. \A v \in Open : order[v] < order[p] => order[v] < order[t]
      BY <1>4, <1>14, <2>3
    <3>3. Active = Active' \cup {t}
      BY <1>4, <1>5
    <3>4. ASSUME NEW v \in Open
          PROVE  (\A b \in Active : order[a] < order[b] => order[v] < order[b]) <=>
                   \A b \in Active' : order[a] < order[b] => order[v] < order[b]
      BY <3>1, <3>2, <3>3
    <3> QED
      BY <2>1, <2>2, <3>1, <3>4
  <2> QED
    BY <2>4, <2>5, <2>6, <2>7, <2>8
<1>18. \A a \in Active : Segment[a] \subseteq Open
  BY <1>4 DEF Segment
<1>19. DepthTyped' /\ Numbered' /\ StackInOrder'
  BY <1>1, <1>2, <1>3, <1>5, <1>6, <1>16 DEF DepthTyped, Numbered, StackInOrder
<1>20. FramesInOrder'
  BY <1>1, <1>2, <1>4, <1>5, <1>6 DEF FramesInOrder
<1>21. FollowedEntered' /\ GoneClosed'
  BY <1>1, <1>4, <1>5, <1>6 DEF FollowedEntered, GoneClosed
<1>22. ActiveInARow'
  BY <1>1, <1>2, <1>6, <1>14 DEF ActiveInARow
<1>23. EveryOpenHeld'
  <2> SUFFICES ASSUME NEW v \in Open PROVE \E a \in Active' : v \in Segment'[a]
    BY <1>6 DEF EveryOpenHeld
  <2>1. PICK a \in Active : v \in Segment[a]
    BY <1>1 DEF EveryOpenHeld
  <2> QED
    BY <1>5, <1>12, <1>17, <2>1
<1>24. SegmentsMutual'
  <2> SUFFICES ASSUME NEW a \in Active', NEW v \in Segment'[a] PROVE v \in Reach[a] /\ a \in Reach[v]
    BY <1>6 DEF SegmentsMutual
  <2>1. CASE v \in Segment[a]
    BY <1>1, <1>14, <2>1 DEF SegmentsMutual
  <2>2. CASE v \notin Segment[a]
    <3>1. a = p /\ v \in Segment[t]
      BY <1>17, <2>2
    <3>2. v \in Modules /\ v \in Reach[t] /\ t \in Reach[v]
      BY <1>1, <1>4, <1>18, <3>1 DEF SegmentsMutual
    <3> QED
      BY <1>4, <1>14, <1>15, <3>1, <3>2, ReachingSteps
  <2> QED
    BY <2>1, <2>2
<1>25. LowBelow'
  <2> SUFFICES ASSUME NEW a \in Active', NEW v \in Segment'[a], NEW x \in (Arcs[v] \ Rest[v]) \cap Open
               PROVE  low'[a] <= order[x]
    <3>1. \A a \in Active' : Segment'[a] \subseteq Modules
      BY <1>4, <1>14, <1>17, <1>18
    <3> QED
      BY <1>2, <1>5, <1>6, <3>1 DEF LowBelow
  <2>1. x \in Modules /\ a \in Modules /\ low'[a] \in Nat
    BY <1>4, <1>14, <1>16
  <2>2. CASE v \in Segment[a]
    <3>1. low[a] <= order[x] /\ low'[a] <= low[a]
      BY <1>1, <1>4, <1>14, <1>16, <2>1, <2>2 DEF LowBelow
    <3> QED
      BY <1>4, <2>1, <3>1
  <2>3. CASE v \notin Segment[a]
    <3>1. a = p /\ v \in Segment[t]
      BY <1>17, <2>3
    <3>2. low[t] <= order[x] /\ low'[a] <= low[t]
      BY <1>1, <1>4, <1>16, <3>1 DEF LowBelow
    <3> QED
      BY <1>4, <2>1, <3>2
  <2> QED
    BY <2>2, <2>3
<1>26. LowReached'
  <2> SUFFICES ASSUME NEW a \in Active'
               PROVE  low'[a] <= order[a] /\ \E x \in Open : order[x] = low'[a] /\ x \in Reach[a]
    BY <1>2, <1>6 DEF LowReached
  <2>1. a \in Modules /\ low[a] <= order[a] /\ \E x \in Open : order[x] = low[a] /\ x \in Reach[a]
    BY <1>1, <1>14 DEF LowReached
  <2>2. CASE low'[a] = low[a]
    BY <2>1, <2>2
  <2>3. CASE low'[a] # low[a]
    <3>1. a = p /\ low'[a] = low[t] /\ low'[a] <= low[a] /\ low'[a] \in Nat
      BY <1>14, <1>16, <2>3
    <3>2. low'[a] <= order[a]
      BY <1>4, <2>1, <3>1
    <3>3. w \in Reach[p]
      BY <1>4, <1>8, <1>14, <1>15, ReachingSteps
    <3> QED
      BY <1>8, <3>1, <3>2, <3>3
  <2> QED
    BY <2>2, <2>3
<1>27. ReportedSoFar'
  BY <1>1, <1>3, <1>6 DEF ReportedSoFar
<1> QED
  BY <1>19, <1>20, <1>21, <1>22, <1>23, <1>24, <1>25, <1>26, <1>27 DEF SearchedSoFar

LEMMA DepthKept == GraphTypeOK /\ DepthInv /\ [GraphNext]_graphVars => DepthInv'
<1> SUFFICES ASSUME GraphTypeOK, DepthInv, [GraphNext]_graphVars PROVE DepthInv'
  OBVIOUS
<1>0. request' = request /\ UNCHANGED program
  BY ProgramStays DEF program
<1> SUFFICES ASSUME request.tool = "detect_cycles" PROVE DepthInv'
  BY <1>0 DEF DepthInv
<1>1. frontier = <<>> /\ SearchedSoFar /\ (done => frames = <<>> /\ request.path \subseteq Entered)
  BY DEF DepthInv
<1>2. ASSUME SearchedSoFar', frontier' = frontier, done' = done, ~done
      PROVE  DepthInv'
  BY <1>0, <1>1, <1>2 DEF DepthInv
<1>3. CASE StartSearch
  BY <1>1, <1>2, <1>3, StartKeeps DEF StartSearch, Connect, breadth
<1>4. CASE Follow
  <2>1. frames # <<>> /\ frontier' = frontier /\ done' = done
    BY <1>4 DEF Follow, Connect, breadth
  <2> QED
    BY <1>1, <1>2, <1>4, <2>1, FollowKeeps
<1>5. CASE Close
  <2>1. frames # <<>> /\ frontier' = frontier /\ done' = done
    BY <1>5 DEF Close, breadth
  <2> QED
    BY <1>1, <1>2, <1>5, <2>1, RootKeeps, ReturnKeeps
<1>6. CASE UNCHANGED <<program, answer, breadth, depth>> /\
           (done' = done \/ (frames = <<>> /\ \A m \in request.path : order[m] # 0))
  <2>1. /\ Arcs' = Arcs /\ Reach' = Reach /\ Entered' = Entered /\ Open' = Open /\ Gone' = Gone
        /\ Active' = Active /\ Rest' = Rest /\ Segment' = Segment /\ \A m : Mutual(m)' = Mutual(m)
    BY <1>6, GraphOfCyclesStays DEF depth, Entered, Open, Gone, Active, Rest, Segment
  <2>2. SearchedSoFar'
    BY <1>1, <1>6, <2>1
    DEF SearchedSoFar, DepthTyped, Numbered, StackInOrder, FramesInOrder, FollowedEntered, GoneClosed,
        ActiveInARow, EveryOpenHeld, SegmentsMutual, LowBelow, LowReached, ReportedSoFar, depth
  <2>3. request.path \subseteq Modules
    BY ProgramAssumption DEF GraphTypeOK, Cycles, Dependencies, CallGraphs, DeadCode, DefinitionsOf
  <2>4. done' => frames' = <<>> /\ request'.path \subseteq Entered'
    BY <1>0, <1>1, <1>6, <2>1, <2>3 DEF depth, Entered
  <2> QED
    BY <1>1, <1>6, <2>2, <2>4 DEF DepthInv, breadth
<1>7. CASE EndCycles \/ UNCHANGED graphVars
  BY <1>6, <1>7 DEF EndCycles, graphVars
<1>8. ASSUME FindDeadCode \/ FindDefinition \/ Skip \/ Expand \/ EndSearch PROVE FALSE
  BY <1>1, <1>8 DEF FindDeadCode, FindDefinition, Skip, Expand, EndSearch, Searches
<1> QED
  BY <1>3, <1>4, <1>5, <1>7, <1>8 DEF GraphNext

\* When the search is over nothing is open, so all is reported: what was not
\* entered lies outside of the path and imports nothing.
LEMMA DepthExact == GraphTypeOK /\ DepthInv => CyclesExact
<1> SUFFICES ASSUME GraphTypeOK, DepthInv, done, request.tool = "detect_cycles"
             PROVE  /\ ToSet(answer) = {S \in {Mutual(m) : m \in Modules} : Cardinality(S) > 1}
                    /\ Len(answer) = Cardinality(ToSet(answer))
  BY DEF CyclesExact
<1>1. SearchedSoFar /\ frames = <<>> /\ request.path \subseteq Entered
  BY DEF DepthInv
<1>2. /\ answer \in Seq(SUBSET Modules)
      /\ ToSet(answer) = {S \in {Mutual(m) : m \in Gone} : Cardinality(S) > 1}
      /\ \A j, k \in 1..Len(answer) : answer[j] = answer[k] => j = k
  BY <1>1 DEF SearchedSoFar, ReportedSoFar
<1>3. Gone = Entered /\ Entered \subseteq Modules
  BY <1>1, NothingOnEmpty DEF SearchedSoFar, EveryOpenHeld, Active, Gone, Entered
<1>4. ASSUME NEW m \in Modules, m \notin Gone
      PROVE  Cardinality(Mutual(m)) = 1
  <2>1. Arcs[m] = {}
    BY <1>1, <1>3, <1>4 DEF Arcs, Deps
  <2>2. Reach[m] \subseteq {m} /\ m \in Reach[m]
    BY <2>1, ReachingSteps, ReachStaysInside
  <2>3. Mutual(m) = {m}
    BY <2>2, MutualReach
  <2> QED
    BY <2>3, FS_Singleton
<1>5. \A m \in Modules : Cardinality(Mutual(m)) > 1 => m \in Gone
  BY <1>4
<1> QED
  BY <1>2, <1>3, <1>5, OnceEach

(* The cycles reported are the sets of modules that import each other,     *)
(* each whole and once, for every program and path, in whatever order the  *)
(* imports are followed.                                                   *)
THEOREM CyclesAreExact == GraphSpec => []CyclesExact
<1>1. GraphInit => GraphTypeOK /\ DepthInv
  BY GraphTypedAtFirst, DepthStarts DEF DepthInv
<1>2. GraphTypeOK /\ DepthInv /\ [GraphNext]_graphVars => (GraphTypeOK /\ DepthInv)'
  BY GraphStaysTyped, DepthKept
<1>3. GraphTypeOK /\ DepthInv => CyclesExact
  BY DepthExact
<1> QED
  BY <1>1, <1>2, <1>3, PTL DEF GraphSpec
-----------------------------------------------------------------------------
(* The tools that start a program                                            *)

(* What is known of the code under test and of the programs there are.     *)
CodeTypeOK ==
  /\ status \in [Tests -> Statuses]
  /\ {linted, typed, unformatted} \subseteq SUBSET Sources
  /\ installed \subseteq Toolchains
  /\ columns \in BOOLEAN

LEMMA CodeTyped == ToolchainSpec => []CodeTypeOK
<1>1. ToolchainInit => CodeTypeOK
  BY DEF ToolchainInit, CodeTypeOK
<1>2. CodeTypeOK /\ [ToolchainNext]_toolVars => CodeTypeOK'
  <2> SUFFICES ASSUME CodeTypeOK, [ToolchainNext]_toolVars PROVE CodeTypeOK'
    OBVIOUS
  <2>1. CASE Edit
    <3>1. CASE \E t \in Tests, s \in Statuses :
                  status' = [status EXCEPT ![t] = s] /\ UNCHANGED <<linted, typed, unformatted>>
      BY <2>1, <3>1 DEF Edit, CodeTypeOK
    <3>2. CASE \E f \in Sources :
                  /\ linted' \in {linted \cup {f}, linted \ {f}}
                  /\ typed' \in {typed \cup {f}, typed \ {f}}
                  /\ unformatted' \in {unformatted \cup {f}, unformatted \ {f}}
                  /\ UNCHANGED status
      <4>1. PICK f \in Sources :
                  /\ linted' \in {linted \cup {f}, linted \ {f}}
                  /\ typed' \in {typed \cup {f}, typed \ {f}}
                  /\ unformatted' \in {unformatted \cup {f}, unformatted \ {f}}
                  /\ UNCHANGED status
        BY <3>2
      <4>2. linted' \subseteq Sources /\ typed' \subseteq Sources /\ unformatted' \subseteq Sources
        BY <4>1 DEF CodeTypeOK
      <4> QED
        BY <2>1, <4>1, <4>2 DEF Edit, CodeTypeOK
    <3> QED
      BY <2>1, <3>1, <3>2 DEF Edit
  <2>2. CASE Format
    BY <2>2 DEF Format, CodeTypeOK
  <2>3. CASE \/ \E targets \in SUBSET Tests : RunTests(targets)
             \/ Coverage \/ Lint \/ Typecheck \/ FormatCheck
    BY <2>3 DEF RunTests, Coverage, Lint, Typecheck, FormatCheck, CodeTypeOK, code
  <2>4. CASE UNCHANGED toolVars
    BY <2>4 DEF toolVars, code, CodeTypeOK
  <2> QED
    BY <2>1, <2>2, <2>3, <2>4 DEF ToolchainNext
<1> QED
  BY <1>1, <1>2, PTL DEF ToolchainSpec

(* A call is answered with what its program reported only if it is there.  *)
LEMMA Answered ==
  ASSUME NEW tool, NEW exit \in Runs(tool), NEW result, NEW otherwise
  PROVE  \/ Answer(exit, result, otherwise) \in {Unavailable, Escaped}
         \/ /\ tool \in installed
            /\ exit = "reports" /\ Answer(exit, result, otherwise) = result
         \/ /\ tool \in installed
            /\ exit = "crashes" /\ Answer(exit, result, otherwise) = otherwise
BY DEF Runs, Exits, Answer

(* What a test run that answers with a result is answered with.            *)
LEMMA TestsAnswered ==
  ASSUME NEW targets, RunTests(targets)
  PROVE  /\ did'.targets = targets /\ did'.tool = "run_tests" /\ status' = status
         /\ installed' = installed
         /\ did'.answer.kind \in {"tests", "coverage", "verdict"} =>
              "pytest" \in installed /\ did'.answer = Parsed(Ran(targets))
<1>1. PICK exit \in Runs("pytest") :
          /\ did' = [tool |-> "run_tests", exit |-> exit, targets |-> targets,
                     answer |-> Answer(exit, Parsed(Ran(targets)), Unavailable)]
          /\ UNCHANGED <<code, installed, columns>>
  BY DEF RunTests
<1>2. Unavailable.kind = "unavailable" /\ Escaped.kind = "escaped"
  BY DEF Unavailable, Escaped
<1> DEFINE said == Answer(exit, Parsed(Ran(targets)), Unavailable)
<1>3. said \in {Unavailable, Escaped} \/ ("pytest" \in installed /\ said = Parsed(Ran(targets)))
  BY Answered
<1> HIDE DEF said
<1>4. did'.answer = said /\ did'.targets = targets /\ did'.tool = "run_tests"
  BY <1>1 DEF said
<1> QED
  BY <1>1, <1>2, <1>3, <1>4 DEF code

(* The other tools answer with no test result, and with anything else only *)
(* if their program is there.                                              *)
Others == Coverage \/ Lint \/ Typecheck \/ FormatCheck \/ Format

LEMMA OthersAnswered ==
  ASSUME Others
  PROVE  /\ did'.answer.kind # "tests" /\ installed' = installed
         /\ did'.answer.kind \in {"coverage", "verdict"} =>
              \/ did'.tool = "coverage" /\ "coverage" \in installed
              \/ did'.tool = "typecheck" /\ "mypy" \in installed
              \/ did'.tool \in {"lint", "format_check", "format"} /\ "ruff" \in installed
<1>1. Unavailable.kind = "unavailable" /\ Escaped.kind = "escaped"
  BY DEF Unavailable, Escaped
<1>2. \A issues : Verdict(issues).kind = "verdict"
  BY DEF Verdict
<1>3. [Verdict({}) EXCEPT !.passed = FALSE].kind = "verdict"
  BY DEF Verdict
<1>4. \A tool, exit, said : Done(tool, exit, said) => did'.tool = tool /\ did'.answer = said
  BY DEF Done
<1>5. CASE Coverage
  <2>1. PICK exit \in Runs("coverage"), second \in Exits :
          LET last == IF exit \in {"absent", "hangs"} THEN exit ELSE second
          IN  /\ Done("coverage", last, Answer(last, [kind |-> "coverage"], Unavailable))
              /\ UNCHANGED <<code, installed, columns>>
    BY <1>5 DEF Coverage
  <2> DEFINE last == IF exit \in {"absent", "hangs"} THEN exit ELSE second
  <2>2. last \in Runs("coverage")
    BY DEF Runs, Exits
  <2>3. did'.tool = "coverage" /\ did'.answer = Answer(last, [kind |-> "coverage"], Unavailable)
        /\ installed' = installed
    BY <1>4, <2>1
  <2> HIDE DEF last
  <2>4. \/ did'.answer \in {Unavailable, Escaped}
        \/ "coverage" \in installed /\ did'.answer = [kind |-> "coverage"]
    BY <2>2, <2>3, Answered
  <2> QED
    BY <1>1, <2>3, <2>4
<1>6. CASE Lint
  <2>1. PICK exit \in Runs("ruff") :
            /\ Done("lint", exit, Answer(exit, Verdict(linted), Verdict({})))
            /\ UNCHANGED <<code, installed, columns>>
    BY <1>6 DEF Lint
  <2>2. did'.tool = "lint" /\ did'.answer = Answer(exit, Verdict(linted), Verdict({}))
    BY <1>4, <2>1
  <2>3. \/ did'.answer \in {Unavailable, Escaped}
        \/ "ruff" \in installed /\ did'.answer \in {Verdict(linted), Verdict({})}
    BY <2>2, Answered
  <2> QED
    BY <1>1, <1>2, <2>1, <2>2, <2>3
<1>7. CASE Typecheck
  <2>1. PICK exit \in Runs("mypy") :
            /\ Done("typecheck", exit, Answer(exit, Verdict(TypeErrors), Verdict({})))
            /\ UNCHANGED <<code, installed, columns>>
    BY <1>7 DEF Typecheck
  <2>2. did'.tool = "typecheck" /\ did'.answer = Answer(exit, Verdict(TypeErrors), Verdict({}))
    BY <1>4, <2>1
  <2>3. \/ did'.answer \in {Unavailable, Escaped}
        \/ "mypy" \in installed /\ did'.answer \in {Verdict(TypeErrors), Verdict({})}
    BY <2>2, Answered
  <2> QED
    BY <1>1, <1>2, <2>1, <2>2, <2>3
<1>8. CASE FormatCheck
  <2>1. PICK exit \in Runs("ruff") :
            /\ Done("format_check", exit,
                    Answer(exit, Verdict(Changed), [Verdict({}) EXCEPT !.passed = FALSE]))
            /\ UNCHANGED <<code, installed, columns>>
    BY <1>8 DEF FormatCheck
  <2>2. /\ did'.tool = "format_check"
        /\ did'.answer = Answer(exit, Verdict(Changed), [Verdict({}) EXCEPT !.passed = FALSE])
    BY <1>4, <2>1
  <2>3. \/ did'.answer \in {Unavailable, Escaped}
        \/ /\ "ruff" \in installed
           /\ did'.answer \in {Verdict(Changed), [Verdict({}) EXCEPT !.passed = FALSE]}
    BY <2>2, Answered
  <2> QED
    BY <1>1, <1>2, <1>3, <2>1, <2>2, <2>3
<1>9. CASE Format
  <2>1. PICK exit \in Runs("ruff") :
            /\ Done("format", exit,
                    Answer(exit, Verdict({}), [Verdict({}) EXCEPT !.passed = FALSE]))
            /\ UNCHANGED <<status, linted, typed, installed, columns>>
    BY <1>9 DEF Format
  <2>2. /\ did'.tool = "format"
        /\ did'.answer = Answer(exit, Verdict({}), [Verdict({}) EXCEPT !.passed = FALSE])
    BY <1>4, <2>1
  <2>3. \/ did'.answer \in {Unavailable, Escaped}
        \/ /\ "ruff" \in installed
           /\ did'.answer \in {Verdict({}), [Verdict({}) EXCEPT !.passed = FALSE]}
    BY <2>2, Answered
  <2> QED
    BY <1>1, <1>2, <1>3, <2>1, <2>2, <2>3
<1> QED
  BY <1>5, <1>6, <1>7, <1>8, <1>9 DEF Others

LEMMA EditAnswered ==
  ASSUME Edit
  PROVE  did'.answer.kind = "edit"
BY DEF Edit, Done

(* A test result is green only if nothing asked for would fail, and lists  *)
(* only what would, import errors included, until the next edit.           *)
THEOREM GreenIsTrue == ToolchainSpec => []GreenMeansNothingFails
<1>1. ToolchainInit => GreenMeansNothingFails
  BY DEF ToolchainInit, GreenMeansNothingFails
<1>2. ASSUME CodeTypeOK, GreenMeansNothingFails, [ToolchainNext]_toolVars
      PROVE  GreenMeansNothingFails'
  <2>1. ASSUME NEW targets \in SUBSET Tests, RunTests(targets)
        PROVE  GreenMeansNothingFails'
    <3> SUFFICES ASSUME did'.answer.kind = "tests"
                 PROVE  /\ did'.answer.failures = {} =>
                             \A t \in did'.targets : status'[t] \in {"passes", "skips"}
                        /\ \A t \in did'.answer.failures : status'[t] \in {"fails", "errs"}
      BY DEF GreenMeansNothingFails
    <3>1. did'.targets = targets /\ did'.answer = Parsed(Ran(targets)) /\ status' = status
      BY <2>1, TestsAnswered
    <3>2. did'.answer.failures = {t \in Ran(targets) : status[t] \in {"fails", "errs"}}
      BY <3>1 DEF Parsed, Problem
    <3>3. ASSUME did'.answer.failures = {}, NEW t \in targets
          PROVE  status[t] \in {"passes", "skips"}
      <4>1. Ran(targets) = targets
        BY <3>2, <3>3 DEF Ran
      <4>2. status[t] \notin {"fails", "errs"} /\ status[t] \in Statuses
        BY <1>2, <3>2, <3>3, <4>1 DEF CodeTypeOK
      <4> QED
        BY <4>2 DEF Statuses
    <3> QED
      BY <3>1, <3>2, <3>3
  <2>2. CASE Others
    BY <2>2, OthersAnswered DEF GreenMeansNothingFails
  <2>3. CASE Edit
    BY <2>3, EditAnswered DEF GreenMeansNothingFails
  <2>4. CASE UNCHANGED toolVars
    BY <1>2, <2>4 DEF toolVars, code, GreenMeansNothingFails
  <2> QED
    BY <1>2, <2>1, <2>2, <2>3, <2>4 DEF ToolchainNext, Others
<1> QED
  BY <1>1, <1>2, CodeTyped, PTL DEF ToolchainSpec

(* Whatever a tool says of the code, its program was there to look at it.  *)
THEOREM VerdictsHavePrograms == ToolchainSpec => []NoVerdictWithoutProgram
<1> DEFINE Program ==
      \/ did.tool = "run_tests" /\ "pytest" \in installed
      \/ did.tool = "coverage" /\ "coverage" \in installed
      \/ did.tool = "typecheck" /\ "mypy" \in installed
      \/ did.tool \in {"lint", "format_check", "format"} /\ "ruff" \in installed
           Backed == did.answer.kind \in {"tests", "coverage", "verdict"} => Program
<1>1. ToolchainInit => Backed
  BY DEF ToolchainInit
<1>2. ASSUME Backed, [ToolchainNext]_toolVars
      PROVE  Backed'
  <2>1. ASSUME NEW targets \in SUBSET Tests, RunTests(targets)
        PROVE  Backed'
    BY <2>1, TestsAnswered
  <2>2. CASE Others
    BY <2>2, OthersAnswered
  <2>3. CASE Edit
    BY <2>3, EditAnswered
  <2>4. CASE UNCHANGED toolVars
    BY <1>2, <2>4 DEF toolVars, code
  <2> QED
    BY <1>2, <2>1, <2>2, <2>3, <2>4 DEF ToolchainNext, Others
<1>3. Backed => NoVerdictWithoutProgram
  BY DEF NoVerdictWithoutProgram
<1> QED
  BY <1>1, <1>2, <1>3, PTL DEF ToolchainSpec
=============================================================================
