------------------------------ MODULE Induction ------------------------------
(***************************************************************************)
(* Induction over the naturals, and what a recursion over them defines,    *)
(* stated over sets and functions so that a proof can cite it as it is.    *)
(***************************************************************************)
EXTENDS Naturals, WellFoundedInduction, TLAPS

(* A set that holds zero and every successor of a member holds all numbers.*)
LEMMA EveryNatural ==
  ASSUME NEW A, 0 \in A, \A n \in Nat : n \in A => n + 1 \in A
  PROVE  Nat \subseteq A
<1> DEFINE T == Nat \ A
<1> SUFFICES ASSUME T # {} PROVE FALSE
  OBVIOUS
<1>1. \E x \in T : \A y \in T : ~(<<y, x>> \in OpToRel(<, Nat))
  BY WFMin, NatLessThanWellFounded
<1>2. PICK x \in T : \A y \in T : ~(y < x)
  BY <1>1 DEF OpToRel
<1>3. x # 0 /\ x \in Nat
  OBVIOUS
<1>4. x - 1 \in Nat /\ x - 1 < x /\ (x - 1) + 1 = x
  BY <1>3
<1>5. x - 1 \in A
  BY <1>2, <1>4
<1> QED
  BY <1>4, <1>5

(* A non-empty set of naturals has a least member.                         *)
LEMMA LeastNatural ==
  ASSUME NEW T, T \subseteq Nat, T # {}
  PROVE  \E x \in T : \A y \in T : x <= y
<1>1. \E x \in T : \A y \in T : ~(<<y, x>> \in OpToRel(<, Nat))
  BY WFMin, NatLessThanWellFounded
<1>2. PICK x \in T : \A y \in T : ~(y < x)
  BY <1>1 DEF OpToRel
<1> QED
  BY <1>2

(* The recursion from a start over a step function, which may depend on    *)
(* how far it got.                                                         *)
Iterates(f, base, step) ==
  f[0] = base /\ \A n \in Nat : f[n + 1] = step[<<n, f[n]>>]

\* The same, as far as the first n steps, and two sequences that agree so far.
Steps(f, step, n) == \A i \in 0 .. n - 1 : f[i + 1] = step[<<i, f[i]>>]
Agree(f, g, n) == \A i \in 0 .. n : f[i] = g[i]

(* Two sequences of iterates agree.                                        *)
LEMMA IteratesAgree ==
  ASSUME NEW step, NEW n \in Nat, NEW g, NEW h, g[0] = h[0],
         Steps(g, step, n), Steps(h, step, n)
  PROVE  Agree(g, h, n)
<1> DEFINE A == {i \in Nat : i <= n => g[i] = h[i]}
<1>1. 0 \in A
  OBVIOUS
<1>2. ASSUME NEW i \in Nat, i \in A
      PROVE  i + 1 \in A
  <2> SUFFICES ASSUME i + 1 <= n PROVE g[i + 1] = h[i + 1]
    OBVIOUS
  <2>1. i \in 0 .. n - 1 /\ g[i] = h[i]
    BY <1>2
  <2> QED
    BY <2>1 DEF Steps
<1>3. Nat \subseteq A
  <2> HIDE DEF A
  <2> QED
    BY <1>1, <1>2, EveryNatural
<1> QED
  BY <1>3 DEF Agree

LEMMA IteratesExist ==
  ASSUME NEW S, NEW base \in S, NEW step \in [Nat \X S -> S]
  PROVE  \E f \in [Nat -> S] : Iterates(f, base, step)
<1> DEFINE Upto(g, n) == g[0] = base /\ \A i \in 0 .. n - 1 : g[i + 1] = step[<<i, g[i]>>]
           A == {n \in Nat : \E g \in [0 .. n -> S] : Upto(g, n)}
<1>1. 0 \in A
  <2>1. [i \in 0 .. 0 |-> base] \in [0 .. 0 -> S] /\ Upto([i \in 0 .. 0 |-> base], 0)
    OBVIOUS
  <2> QED
    BY <2>1
<1>2. ASSUME NEW n \in Nat, n \in A
      PROVE  n + 1 \in A
  <2>1. PICK g \in [0 .. n -> S] : Upto(g, n)
    BY <1>2
  <2> DEFINE h == [i \in 0 .. n + 1 |-> IF i = n + 1 THEN step[<<n, g[n]>>] ELSE g[i]]
  <2>2. step[<<n, g[n]>>] \in S
    <3>1. n \in 0 .. n
      OBVIOUS
    <3>2. g[n] \in S
      BY <3>1
    <3> QED
      BY <3>2
  <2>3. \A i \in 0 .. n + 1 : i = n + 1 \/ i \in 0 .. n
    OBVIOUS
  <2>4. h \in [0 .. n + 1 -> S]
    BY <2>2, <2>3
  <2>5. \A i \in 0 .. n : h[i] = g[i]
    OBVIOUS
  <2>6. h[n + 1] = step[<<n, g[n]>>] /\ n \in 0 .. n
    OBVIOUS
  <2> HIDE DEF h
  <2>7. \A i \in 0 .. (n + 1) - 1 : i = n \/ (i \in 0 .. n - 1 /\ i \in 0 .. n /\ i + 1 \in 0 .. n)
    OBVIOUS
  <2>8. Upto(h, n + 1)
    BY <2>1, <2>5, <2>6, <2>7
  <2> QED
    BY <2>4, <2>8
<1>3. Nat \subseteq A
  <2> HIDE DEF A
  <2> QED
    BY <1>1, <1>2, EveryNatural
<1> DEFINE G(n) == CHOOSE g \in [0 .. n -> S] : Upto(g, n)
           f == [n \in Nat |-> G(n)[n]]
<1>4. ASSUME NEW n \in Nat
      PROVE  G(n) \in [0 .. n -> S] /\ Upto(G(n), n)
  <2>1. \E g \in [0 .. n -> S] : Upto(g, n)
    BY <1>3
  <2> HIDE DEF Upto
  <2> QED
    BY <2>1
<1> HIDE DEF G
<1>5. f \in [Nat -> S]
  <2> SUFFICES ASSUME NEW n \in Nat PROVE G(n)[n] \in S
    OBVIOUS
  <2>1. n \in 0 .. n
    OBVIOUS
  <2> QED
    BY <1>4, <2>1
<1>6. f[0] = base
  BY <1>4
<1>7. ASSUME NEW n \in Nat
      PROVE  f[n + 1] = step[<<n, f[n]>>]
  <2> DEFINE g == G(n)
             h == G(n + 1)
             m == n + 1
  <2>1. m \in Nat /\ n <= m /\ m - 1 = n /\ n \in 0 .. n /\ n \in 0 .. m - 1
    OBVIOUS
  <2>2. g \in [0 .. n -> S] /\ g[0] = base /\ \A i \in 0 .. n - 1 : g[i + 1] = step[<<i, g[i]>>]
    BY <1>4
  <2>3. h \in [0 .. m -> S] /\ h[0] = base /\ \A i \in 0 .. m - 1 : h[i + 1] = step[<<i, h[i]>>]
    BY <1>4, <2>1
  <2>4. f[n + 1] = h[n + 1] /\ f[n] = g[n]
    BY <2>1
  <2> HIDE DEF g, h, m
  <2>5. Agree(g, h, n)
    <3>1. Steps(g, step, n) /\ Steps(h, step, n)
      BY <2>1, <2>2, <2>3 DEF Steps
    <3>2. g[0] = h[0]
      BY <2>2, <2>3
    <3> QED
      BY <3>1, <3>2, IteratesAgree
  <2>6. h[n + 1] = step[<<n, h[n]>>]
    BY <2>1, <2>3
  <2> QED
    BY <2>1, <2>4, <2>5, <2>6 DEF Agree
<1> HIDE DEF f
<1> QED
  BY <1>5, <1>6, <1>7 DEF Iterates

(* What is defined by recursion over the naturals is what it says.         *)
LEMMA RecursionUnrolls ==
  ASSUME NEW S, NEW base \in S, NEW step \in [Nat \X S -> S],
         NEW f, f = CHOOSE g : g = [n \in Nat |-> IF n = 0 THEN base
                                                 ELSE step[<<n - 1, g[n - 1]>>]]
  PROVE  f \in [Nat -> S] /\ Iterates(f, base, step)
<1> DEFINE Unrolled(g) == [n \in Nat |-> IF n = 0 THEN base ELSE step[<<n - 1, g[n - 1]>>]]
<1>1. PICK h \in [Nat -> S] : Iterates(h, base, step)
  BY IteratesExist
<1>2. h = Unrolled(h)
  <2>1. \A n \in Nat : n # 0 => n - 1 \in Nat /\ (n - 1) + 1 = n
    OBVIOUS
  <2>2. \A n \in Nat : h[n] = Unrolled(h)[n]
    BY <1>1, <2>1 DEF Iterates
  <2> QED
    BY <2>2
<1>3. f = Unrolled(f)
  BY <1>2
<1>4. f[0] = base
  BY <1>3
<1>5. ASSUME NEW n \in Nat
      PROVE  f[n + 1] = step[<<n, f[n]>>]
  <2>1. n + 1 \in Nat /\ n + 1 # 0 /\ (n + 1) - 1 = n
    OBVIOUS
  <2> QED
    BY <1>3, <2>1
<1>6. \A n \in Nat : f[n] \in S
  <2> DEFINE A == {n \in Nat : f[n] \in S}
  <2>1. 0 \in A
    BY <1>4
  <2>2. ASSUME NEW n \in Nat, n \in A
        PROVE  n + 1 \in A
    <3>1. f[n] \in S
      BY <2>2
    <3>2. <<n, f[n]>> \in Nat \X S
      BY <3>1
    <3>3. step[<<n, f[n]>>] \in S
      BY <3>2
    <3>4. f[n + 1] \in S
      BY <1>5, <3>3
    <3> QED
      BY <3>4
  <2>3. Nat \subseteq A
    <3> HIDE DEF A
    <3> QED
      BY <2>1, <2>2, EveryNatural
  <2> QED
    BY <2>3
<1>7. f = [n \in Nat |-> f[n]]
  BY <1>3
<1> QED
  BY <1>4, <1>5, <1>6, <1>7 DEF Iterates
=============================================================================
