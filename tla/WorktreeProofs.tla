-------------------------- MODULE WorktreeProofs ---------------------------
(***************************************************************************)
(* Proofs about Worktree: what the tools that change files do to them.     *)
(***************************************************************************)
EXTENDS Worktree, Induction, SequenceTheorems, FiniteSetTheorems

-----------------------------------------------------------------------------
(* What the recursive definitions say, one step at a time.                 *)

Start(lines) == [lines |-> lines, cursor |-> 0, result |-> <<>>, fits |-> TRUE]
AsIs == [files |-> tree, failed |-> FALSE]
Picked(kept, entry, tags) ==
  IF entry.tag \in tags THEN Append(kept, entry.text) ELSE kept

(* The states a body leads through start as given, each from the last.     *)
LEMMA ConsumedUnrolls ==
  ASSUME NEW state, NEW body, Len(body) \in Nat
  PROVE  /\ Consumed(state, body)[0] = state
         /\ \A n \in 1 .. Len(body) :
              Consumed(state, body)[n] = Consume(Consumed(state, body)[n - 1], body[n])
<1> DEFINE Unrolled(g, m) ==
             [n \in 0 .. m |-> IF n = 0 THEN state ELSE Consume(g[n - 1], body[n])]
           A == {m \in Nat : \E g : g = Unrolled(g, m)}
<1>1. 0 \in A
  <2>1. [n \in 0 .. 0 |-> state] = Unrolled([n \in 0 .. 0 |-> state], 0)
    OBVIOUS
  <2> QED
    BY <2>1
<1>2. ASSUME NEW m \in Nat, m \in A
      PROVE  m + 1 \in A
  <2>1. PICK g : g = Unrolled(g, m)
    BY <1>2
  <2> DEFINE h == [n \in 0 .. m + 1 |-> IF n = m + 1 THEN Consume(g[m], body[m + 1]) ELSE g[n]]
  <2>2. \A n \in 0 .. m + 1 : n = m + 1 \/ (n # m + 1 /\ n \in 0 .. m)
    OBVIOUS
  <2>3. \A n \in 0 .. m : n # 0 => n - 1 \in 0 .. m
    OBVIOUS
  <2>4. \A n \in 0 .. m : h[n] = g[n]
    OBVIOUS
  <2>5. \A n \in 0 .. m : g[n] = IF n = 0 THEN state ELSE Consume(g[n - 1], body[n])
    BY <2>1
  <2>6. h[m + 1] = Consume(h[m], body[m + 1])
    OBVIOUS
  <2>7. \A n \in 0 .. m + 1 : h[n] = IF n = 0 THEN state ELSE Consume(h[n - 1], body[n])
    <3> HIDE DEF h
    <3>1. m + 1 # 0 /\ (m + 1) - 1 = m
      OBVIOUS
    <3> QED
      BY <2>2, <2>3, <2>4, <2>5, <2>6, <3>1
  <2>8. h = Unrolled(h, m + 1)
    BY <2>7
  <2> HIDE DEF h, Unrolled
  <2> QED
    BY <2>8
<1>3. Nat \subseteq A
  <2> HIDE DEF A
  <2> QED
    BY <1>1, <1>2, EveryNatural
<1> DEFINE F == Consumed(state, body)
<1>4. F = CHOOSE g : g = Unrolled(g, Len(body))
  BY DEF Consumed
<1>5. F = Unrolled(F, Len(body))
  <2>1. \E g : g = Unrolled(g, Len(body))
    BY <1>3
  <2> HIDE DEF F, Unrolled
  <2> QED
    BY <1>4, <2>1
<1> HIDE DEF F
<1>6. F[0] = state /\ \A n \in 1 .. Len(body) : F[n] = Consume(F[n - 1], body[n])
  BY <1>5
<1> QED
  BY <1>6 DEF F

(* The states the hunks lead through start at the file's first line.       *)
LEMMA AppliedUnrolls ==
  ASSUME NEW lines, NEW hunks, Len(hunks) \in Nat
  PROVE  /\ Applied(lines, hunks)[0] = Start(lines)
         /\ \A n \in 1 .. Len(hunks) :
              Applied(lines, hunks)[n] = ApplyHunk(Applied(lines, hunks)[n - 1], hunks[n])
<1> DEFINE Unrolled(g, m) ==
             [n \in 0 .. m |-> IF n = 0 THEN Start(lines) ELSE ApplyHunk(g[n - 1], hunks[n])]
           A == {m \in Nat : \E g : g = Unrolled(g, m)}
<1>1. 0 \in A
  <2>1. [n \in 0 .. 0 |-> Start(lines)] = Unrolled([n \in 0 .. 0 |-> Start(lines)], 0)
    OBVIOUS
  <2> QED
    BY <2>1
<1>2. ASSUME NEW m \in Nat, m \in A
      PROVE  m + 1 \in A
  <2>1. PICK g : g = Unrolled(g, m)
    BY <1>2
  <2> DEFINE h == [n \in 0 .. m + 1 |-> IF n = m + 1 THEN ApplyHunk(g[m], hunks[m + 1]) ELSE g[n]]
  <2>2. \A n \in 0 .. m + 1 : n = m + 1 \/ (n # m + 1 /\ n \in 0 .. m)
    OBVIOUS
  <2>3. \A n \in 0 .. m : n # 0 => n - 1 \in 0 .. m
    OBVIOUS
  <2>4. \A n \in 0 .. m : h[n] = g[n]
    OBVIOUS
  <2>5. \A n \in 0 .. m : g[n] = IF n = 0 THEN Start(lines) ELSE ApplyHunk(g[n - 1], hunks[n])
    BY <2>1
  <2>6. h[m + 1] = ApplyHunk(h[m], hunks[m + 1])
    OBVIOUS
  <2>7. \A n \in 0 .. m + 1 : h[n] = IF n = 0 THEN Start(lines) ELSE ApplyHunk(h[n - 1], hunks[n])
    <3> HIDE DEF h
    <3>1. m + 1 # 0 /\ (m + 1) - 1 = m
      OBVIOUS
    <3> QED
      BY <2>2, <2>3, <2>4, <2>5, <2>6, <3>1
  <2>8. h = Unrolled(h, m + 1)
    BY <2>7
  <2> HIDE DEF h, Unrolled
  <2> QED
    BY <2>8
<1>3. Nat \subseteq A
  <2> HIDE DEF A
  <2> QED
    BY <1>1, <1>2, EveryNatural
<1> DEFINE F == Applied(lines, hunks)
<1>4. F = CHOOSE g : g = Unrolled(g, Len(hunks))
  BY DEF Applied, Start
<1>5. F = Unrolled(F, Len(hunks))
  <2>1. \E g : g = Unrolled(g, Len(hunks))
    BY <1>3
  <2> HIDE DEF F, Unrolled
  <2> QED
    BY <1>4, <2>1
<1> HIDE DEF F
<1>6. F[0] = Start(lines) /\ \A n \in 1 .. Len(hunks) : F[n] = ApplyHunk(F[n - 1], hunks[n])
  BY <1>5
<1> QED
  BY <1>6 DEF F

(* The states of the tree while sections are written.                      *)
LEMMA CommittedUnrolls ==
  ASSUME NEW sections, Len(sections) \in Nat
  PROVE  /\ Committed(sections)[0] = AsIs
         /\ \A n \in 1 .. Len(sections) :
              Committed(sections)[n] = WriteSection(Committed(sections)[n - 1], sections[n])
<1> DEFINE Unrolled(g, m) ==
             [n \in 0 .. m |-> IF n = 0 THEN AsIs ELSE WriteSection(g[n - 1], sections[n])]
           A == {m \in Nat : \E g : g = Unrolled(g, m)}
<1>1. 0 \in A
  <2>1. [n \in 0 .. 0 |-> AsIs] = Unrolled([n \in 0 .. 0 |-> AsIs], 0)
    OBVIOUS
  <2> QED
    BY <2>1
<1>2. ASSUME NEW m \in Nat, m \in A
      PROVE  m + 1 \in A
  <2>1. PICK g : g = Unrolled(g, m)
    BY <1>2
  <2> DEFINE h == [n \in 0 .. m + 1 |-> IF n = m + 1 THEN WriteSection(g[m], sections[m + 1]) ELSE g[n]]
  <2>2. \A n \in 0 .. m + 1 : n = m + 1 \/ (n # m + 1 /\ n \in 0 .. m)
    OBVIOUS
  <2>3. \A n \in 0 .. m : n # 0 => n - 1 \in 0 .. m
    OBVIOUS
  <2>4. \A n \in 0 .. m : h[n] = g[n]
    OBVIOUS
  <2>5. \A n \in 0 .. m : g[n] = IF n = 0 THEN AsIs ELSE WriteSection(g[n - 1], sections[n])
    BY <2>1
  <2>6. h[m + 1] = WriteSection(h[m], sections[m + 1])
    OBVIOUS
  <2>7. \A n \in 0 .. m + 1 : h[n] = IF n = 0 THEN AsIs ELSE WriteSection(h[n - 1], sections[n])
    <3> HIDE DEF h
    <3>1. m + 1 # 0 /\ (m + 1) - 1 = m
      OBVIOUS
    <3> QED
      BY <2>2, <2>3, <2>4, <2>5, <2>6, <3>1
  <2>8. h = Unrolled(h, m + 1)
    BY <2>7
  <2> HIDE DEF h, Unrolled
  <2> QED
    BY <2>8
<1>3. Nat \subseteq A
  <2> HIDE DEF A
  <2> QED
    BY <1>1, <1>2, EveryNatural
<1> DEFINE F == Committed(sections)
<1>4. F = CHOOSE g : g = Unrolled(g, Len(sections))
  BY DEF Committed, AsIs
<1>5. F = Unrolled(F, Len(sections))
  <2>1. \E g : g = Unrolled(g, Len(sections))
    BY <1>3
  <2> HIDE DEF F, Unrolled
  <2> QED
    BY <1>4, <2>1
<1> HIDE DEF F
<1>6. F[0] = AsIs /\ \A n \in 1 .. Len(sections) : F[n] = WriteSection(F[n - 1], sections[n])
  BY <1>5
<1> QED
  BY <1>6 DEF F

(* The lines of some tags, after each line of a body.                      *)
LEMMA SideUnrolls ==
  ASSUME NEW body, NEW tags, Len(body) \in Nat
  PROVE  /\ Side(body, tags)[0] = <<>>
         /\ \A n \in 1 .. Len(body) :
              Side(body, tags)[n] = Picked(Side(body, tags)[n - 1], body[n], tags)
<1> DEFINE Unrolled(g, m) ==
             [n \in 0 .. m |-> IF n = 0 THEN <<>> ELSE Picked(g[n - 1], body[n], tags)]
           A == {m \in Nat : \E g : g = Unrolled(g, m)}
<1>1. 0 \in A
  <2>1. [n \in 0 .. 0 |-> <<>>] = Unrolled([n \in 0 .. 0 |-> <<>>], 0)
    OBVIOUS
  <2> QED
    BY <2>1
<1>2. ASSUME NEW m \in Nat, m \in A
      PROVE  m + 1 \in A
  <2>1. PICK g : g = Unrolled(g, m)
    BY <1>2
  <2> DEFINE h == [n \in 0 .. m + 1 |-> IF n = m + 1 THEN Picked(g[m], body[m + 1], tags) ELSE g[n]]
  <2>2. \A n \in 0 .. m + 1 : n = m + 1 \/ (n # m + 1 /\ n \in 0 .. m)
    OBVIOUS
  <2>3. \A n \in 0 .. m : n # 0 => n - 1 \in 0 .. m
    OBVIOUS
  <2>4. \A n \in 0 .. m : h[n] = g[n]
    OBVIOUS
  <2>5. \A n \in 0 .. m : g[n] = IF n = 0 THEN <<>> ELSE Picked(g[n - 1], body[n], tags)
    BY <2>1
  <2>6. h[m + 1] = Picked(h[m], body[m + 1], tags)
    OBVIOUS
  <2>7. \A n \in 0 .. m + 1 : h[n] = IF n = 0 THEN <<>> ELSE Picked(h[n - 1], body[n], tags)
    <3> HIDE DEF h
    <3>1. m + 1 # 0 /\ (m + 1) - 1 = m
      OBVIOUS
    <3> QED
      BY <2>2, <2>3, <2>4, <2>5, <2>6, <3>1
  <2>8. h = Unrolled(h, m + 1)
    BY <2>7
  <2> HIDE DEF h, Unrolled
  <2> QED
    BY <2>8
<1>3. Nat \subseteq A
  <2> HIDE DEF A
  <2> QED
    BY <1>1, <1>2, EveryNatural
<1> DEFINE F == Side(body, tags)
<1>4. F = CHOOSE g : g = Unrolled(g, Len(body))
  BY DEF Side, Picked
<1>5. F = Unrolled(F, Len(body))
  <2>1. \E g : g = Unrolled(g, Len(body))
    BY <1>3
  <2> HIDE DEF F, Unrolled
  <2> QED
    BY <1>4, <2>1
<1> HIDE DEF F
<1>6. F[0] = <<>> /\ \A n \in 1 .. Len(body) : F[n] = Picked(F[n - 1], body[n], tags)
  BY <1>5
<1> QED
  BY <1>6 DEF F

-----------------------------------------------------------------------------
(* Applying hunks: types, and what a hunk that fits says of the file.      *)

Tags == {" ", "-", "+"}
Entry == [tag : Tags, text : Line]
Hunk == [start : Nat, body : Seq(Entry)]
State == [lines : Seq(Line), cursor : Nat, result : Seq(Line), fits : BOOLEAN]

\* The hunks fit so far; the cursor is within the file.
Fitting(state) == state.fits
Within(state) == state.cursor <= Len(state.lines)

LEMMA ConsumeAdds ==
  ASSUME NEW state \in State, NEW entry \in Entry, entry.tag = "+"
  PROVE  /\ Consume(state, entry) \in State
         /\ Consume(state, entry).lines = state.lines
         /\ Consume(state, entry).cursor = state.cursor
         /\ Fitting(Consume(state, entry)) <=> Fitting(state)
         /\ Consume(state, entry).result = Append(state.result, entry.text)
<1>1. Append(state.result, entry.text) \in Seq(Line)
  BY DEF State, Entry
<1> QED
  BY <1>1 DEF State, Entry, Consume, Fitting

LEMMA ConsumeTakes ==
  ASSUME NEW state \in State, NEW entry \in Entry, entry.tag # "+"
  PROVE  /\ Consume(state, entry) \in State
         /\ Consume(state, entry).lines = state.lines
         /\ Consume(state, entry).cursor = state.cursor + 1
         /\ Fitting(Consume(state, entry)) <=> /\ Fitting(state)
                                           /\ state.cursor < Len(state.lines)
                                           /\ state.lines[state.cursor + 1] = entry.text
         /\ Consume(state, entry).result = IF entry.tag = " "
                                           THEN Append(state.result, entry.text)
                                           ELSE state.result
<1>1. Append(state.result, entry.text) \in Seq(Line) /\ state.result \in Seq(Line)
  BY DEF State, Entry
<1> DEFINE found == /\ Fitting(state)
                    /\ state.cursor < Len(state.lines)
                    /\ state.lines[state.cursor + 1] = entry.text
           next == [lines |-> state.lines, cursor |-> state.cursor + 1,
                    result |-> IF entry.tag = " " THEN Append(state.result, entry.text)
                               ELSE state.result,
                    fits |-> found]
<1>2. Consume(state, entry) = next
  BY DEF State, Consume, Fitting
<1>3. found \in BOOLEAN
  OBVIOUS
<1>4. Fitting(next) <=> found
  BY DEF Fitting
<1>5. state.lines \in Seq(Line) /\ state.cursor + 1 \in Nat
  BY DEF State
<1> HIDE DEF found
<1>6. next \in State
  BY <1>1, <1>3, <1>5 DEF State
<1>7. /\ next.lines = state.lines /\ next.cursor = state.cursor + 1
      /\ next.result = IF entry.tag = " " THEN Append(state.result, entry.text) ELSE state.result
  OBVIOUS
<1> HIDE DEF next
<1> QED
  BY <1>2, <1>4, <1>6, <1>7 DEF found

(* The lines before a hunk, once it is aligned, are in the result.         *)
LEMMA AlignKeeps ==
  ASSUME NEW state \in State, NEW hunk \in Hunk
  PROVE  /\ Align(state, hunk) \in State
         /\ Align(state, hunk).lines = state.lines
         /\ Fitting(Align(state, hunk)) <=> /\ Fitting(state) /\ hunk.start - 1 >= state.cursor
                                        /\ hunk.start - 1 <= Len(state.lines)
         /\ Fitting(Align(state, hunk)) =>
              /\ Align(state, hunk).cursor = hunk.start - 1
              /\ Align(state, hunk).result
                   = state.result \o SubSeq(state.lines, state.cursor + 1, hunk.start - 1)
<1> DEFINE kept == SubSeq(state.lines, state.cursor + 1, hunk.start - 1)
           start == hunk.start - 1
<1>1. start \in Int /\ state.cursor \in Nat /\ state.result \in Seq(Line)
      /\ state.lines \in Seq(Line) /\ Len(state.lines) \in Nat
  BY DEF State, Hunk
<1>2. ASSUME start >= state.cursor, start <= Len(state.lines)
      PROVE  state.result \o kept \in Seq(Line) /\ start \in Nat
  <2>1. start \in Nat
    BY <1>1, <1>2
  <2>2. \A i \in state.cursor + 1 .. start : state.lines[i] \in Line
    BY <1>1, <1>2, ElementOfSeq
  <2>3. kept \in Seq(Line)
    <3>1. state.cursor + 1 \in Int
      BY <1>1
    <3> QED
      BY <1>1, <2>1, <2>2, <3>1, SubSeqProperties
  <2> QED
    BY <1>1, <2>1, <2>3, ConcatProperties
<1> QED
  BY <1>1, <1>2 DEF State, Align, Fitting

LEMMA ConsumedTypes ==
  ASSUME NEW state \in State, NEW body \in Seq(Entry)
  PROVE  \A n \in 0 .. Len(body) : Consumed(state, body)[n] \in State
                                   /\ Consumed(state, body)[n].lines = state.lines
<1> DEFINE F == Consumed(state, body)
           A == {n \in Nat : n <= Len(body) => F[n] \in State /\ F[n].lines = state.lines}
<1>1. Len(body) \in Nat
  OBVIOUS
<1>2. F[0] = state /\ \A n \in 1 .. Len(body) : F[n] = Consume(F[n - 1], body[n])
  BY <1>1, ConsumedUnrolls
<1> HIDE DEF F
<1>3. 0 \in A
  BY <1>2
<1>4. ASSUME NEW n \in Nat, n \in A
      PROVE  n + 1 \in A
  <2> SUFFICES ASSUME n + 1 <= Len(body)
               PROVE  F[n + 1] \in State /\ F[n + 1].lines = state.lines
    OBVIOUS
  <2>1. n + 1 \in 1 .. Len(body) /\ (n + 1) - 1 = n /\ n <= Len(body)
    BY <1>1
  <2>2. F[n + 1] = Consume(F[n], body[n + 1])
    BY <1>2, <2>1
  <2>3. body[n + 1] \in Entry
    BY <2>1, ElementOfSeq
  <2>4. F[n] \in State /\ F[n].lines = state.lines
    BY <1>4, <2>1
  <2>5. Consume(F[n], body[n + 1]) \in State /\ Consume(F[n], body[n + 1]).lines = F[n].lines
    <3>1. CASE body[n + 1].tag = "+"
      BY <2>3, <2>4, <3>1, ConsumeAdds
    <3>2. CASE body[n + 1].tag # "+"
      BY <2>3, <2>4, <3>2, ConsumeTakes
    <3> QED
      BY <3>1, <3>2
  <2> QED
    BY <2>2, <2>4, <2>5
<1>5. Nat \subseteq A
  <2> HIDE DEF A
  <2> QED
    BY <1>3, <1>4, EveryNatural
<1> QED
  BY <1>1, <1>5 DEF F

LEMMA ApplyHunkTypes ==
  ASSUME NEW state \in State, NEW hunk \in Hunk
  PROVE  ApplyHunk(state, hunk) \in State /\ ApplyHunk(state, hunk).lines = state.lines
<1> DEFINE aligned == Align(state, hunk)
<1>1. aligned \in State /\ aligned.lines = state.lines
  BY AlignKeeps
<1> HIDE DEF aligned
<1>2. hunk.body \in Seq(Entry) /\ Len(hunk.body) \in 0 .. Len(hunk.body)
  BY DEF Hunk
<1>3. /\ Consumed(aligned, hunk.body)[Len(hunk.body)] \in State
      /\ Consumed(aligned, hunk.body)[Len(hunk.body)].lines = aligned.lines
  BY <1>1, <1>2, ConsumedTypes
<1> QED
  BY <1>1, <1>3 DEF ApplyHunk, aligned

LEMMA AppliedTypes ==
  ASSUME NEW lines \in Seq(Line), NEW hunks \in Seq(Hunk)
  PROVE  \A n \in 0 .. Len(hunks) : Applied(lines, hunks)[n] \in State
                                    /\ Applied(lines, hunks)[n].lines = lines
<1> DEFINE F == Applied(lines, hunks)
           A == {n \in Nat : n <= Len(hunks) => F[n] \in State /\ F[n].lines = lines}
<1>1. Len(hunks) \in Nat
  OBVIOUS
<1>2. F[0] = Start(lines) /\ \A n \in 1 .. Len(hunks) : F[n] = ApplyHunk(F[n - 1], hunks[n])
  BY <1>1, AppliedUnrolls
<1> HIDE DEF F
<1>3. 0 \in A
  <2>1. <<>> \in Seq(Line)
    OBVIOUS
  <2>2. Start(lines) \in State /\ Start(lines).lines = lines
    BY <2>1 DEF Start, State
  <2> QED
    BY <1>2, <2>2
<1>4. ASSUME NEW n \in Nat, n \in A
      PROVE  n + 1 \in A
  <2> SUFFICES ASSUME n + 1 <= Len(hunks)
               PROVE  F[n + 1] \in State /\ F[n + 1].lines = lines
    OBVIOUS
  <2>1. n + 1 \in 1 .. Len(hunks) /\ (n + 1) - 1 = n /\ n <= Len(hunks)
    BY <1>1
  <2>2. F[n + 1] = ApplyHunk(F[n], hunks[n + 1])
    BY <1>2, <2>1
  <2>3. hunks[n + 1] \in Hunk
    BY <2>1, ElementOfSeq
  <2>4. F[n] \in State /\ F[n].lines = lines
    BY <1>4, <2>1
  <2> QED
    BY <2>2, <2>3, <2>4, ApplyHunkTypes
<1>5. Nat \subseteq A
  <2> HIDE DEF A
  <2> QED
    BY <1>3, <1>4, EveryNatural
<1> QED
  BY <1>1, <1>5 DEF F

(* A piece of a sequence, continued by the next member, is a longer piece. *)
LEMMA PieceGrows ==
  ASSUME NEW S, NEW s \in Seq(S), NEW a \in Nat, NEW b \in Nat, a <= b, b < Len(s)
  PROVE  /\ SubSeq(s, a + 1, b) \in Seq(S) /\ s[b + 1] \in S
         /\ Append(SubSeq(s, a + 1, b), s[b + 1]) = SubSeq(s, a + 1, b + 1)
<1>1. /\ a + 1 \in 1 .. Len(s) /\ b + 1 \in a + 1 .. Len(s) /\ (b + 1) - 1 = b
      /\ b + 1 \in 1 .. Len(s) /\ a + 1 \in Int /\ b \in Int
  OBVIOUS
<1>2. \A i \in a + 1 .. b : i \in 1 .. Len(s)
  OBVIOUS
<1>3. SubSeq(s, a + 1, b) \in Seq(S) /\ s[b + 1] \in S
  <2>1. \A i \in a + 1 .. b : s[i] \in S
    BY <1>2, ElementOfSeq
  <2> QED
    BY <1>1, <2>1, SubSeqProperties, ElementOfSeq
<1>4. SubSeq(s, a + 1, b + 1) = SubSeq(s, a + 1, b) \o <<s[b + 1]>>
  BY <1>1, SubSeqRecursiveSecond
<1> QED
  BY <1>3, <1>4, AppendIsConcat

LEMMA SideTypes ==
  ASSUME NEW body \in Seq(Entry), NEW tags
  PROVE  \A n \in 0 .. Len(body) : Side(body, tags)[n] \in Seq(Line)
<1> DEFINE F == Side(body, tags)
           A == {n \in Nat : n <= Len(body) => F[n] \in Seq(Line)}
<1>1. Len(body) \in Nat
  OBVIOUS
<1>2. F[0] = <<>> /\ \A n \in 1 .. Len(body) : F[n] = Picked(F[n - 1], body[n], tags)
  BY <1>1, SideUnrolls
<1> HIDE DEF F
<1>3. 0 \in A
  <2>1. <<>> \in Seq(Line)
    OBVIOUS
  <2> QED
    BY <1>2, <2>1
<1>4. ASSUME NEW n \in Nat, n \in A
      PROVE  n + 1 \in A
  <2> SUFFICES ASSUME n + 1 <= Len(body)
               PROVE  F[n + 1] \in Seq(Line)
    OBVIOUS
  <2>1. n + 1 \in 1 .. Len(body) /\ (n + 1) - 1 = n /\ n <= Len(body)
    BY <1>1
  <2>2. F[n + 1] = Picked(F[n], body[n + 1], tags)
    BY <1>2, <2>1
  <2>3. body[n + 1].text \in Line
    <3>1. body[n + 1] \in Entry
      BY <2>1, ElementOfSeq
    <3> QED
      BY <3>1 DEF Entry
  <2>4. F[n] \in Seq(Line)
    BY <1>4, <2>1
  <2> QED
    BY <2>2, <2>3, <2>4, AppendProperties DEF Picked
<1>5. Nat \subseteq A
  <2> HIDE DEF A
  <2> QED
    BY <1>3, <1>4, EveryNatural
<1> QED
  BY <1>1, <1>5 DEF F

(* The lines old, kept or dropped, stand in the file from where a state's  *)
(* cursor is to where a later one's is.                                    *)
Standing(state, now, old) ==
  /\ Fitting(state) /\ Within(now)
  /\ now.cursor = state.cursor + Len(old)
  /\ old = SubSeq(state.lines, state.cursor + 1, now.cursor)

LEMMA StandingGrows ==
  ASSUME NEW state \in State, NEW prev \in State, prev.lines = state.lines,
         NEW old \in Seq(Line), NEW entry \in Entry,
         Fitting(prev) => Standing(state, prev, old),
         NEW next, next = Consume(prev, entry), Fitting(next)
  PROVE  Standing(state, next, Picked(old, entry, {" ", "-"}))
<1> DEFINE grown == Picked(old, entry, {" ", "-"})
<1>1. state.cursor \in Nat /\ prev.cursor \in Nat /\ Len(old) \in Nat
  BY DEF State
<1>4. state.lines \in Seq(Line)
  BY DEF State
<1>2. CASE entry.tag = "+"
  <2>1. Fitting(next) <=> Fitting(prev) /\ next.cursor = prev.cursor /\ next.lines = prev.lines
    BY <1>2, ConsumeAdds
  <2>2. grown = old
    BY <1>2 DEF Picked
  <2> HIDE DEF grown
  <2>4. Standing(state, prev, old)
    BY <2>1
  <2>5. Standing(state, next, grown)
    BY <2>1, <2>2, <2>4 DEF Standing, Within
  <2> QED
    BY <2>5 DEF grown
<1>3. CASE entry.tag # "+"
  <2>1. next.cursor = prev.cursor + 1 /\ next.lines = state.lines
    BY <1>3, ConsumeTakes
  <2>2. Fitting(prev)
    BY <1>3, ConsumeTakes
  <2>3. entry.tag \in {" ", "-"} /\ entry.text \in Line
    BY <1>3 DEF Entry, Tags
  <2>4. grown = Append(old, entry.text)
    BY <2>3 DEF Picked
  <2> HIDE DEF grown
  <2>5. Len(grown) = Len(old) + 1
    BY <2>3, <2>4, AppendProperties
  <2>6. prev.cursor = state.cursor + Len(old)
    BY <2>2 DEF Standing
  <2>7. old = SubSeq(state.lines, state.cursor + 1, prev.cursor)
    BY <2>2 DEF Standing
  <2>8. state.cursor <= prev.cursor
    BY <1>1, <2>6
  <2>9. prev.cursor < Len(prev.lines) /\ prev.lines[prev.cursor + 1] = entry.text
    BY <1>3, ConsumeTakes
  <2>10. prev.cursor < Len(state.lines) /\ state.lines[prev.cursor + 1] = entry.text
    BY <2>9
  <2>11. Append(SubSeq(state.lines, state.cursor + 1, prev.cursor), state.lines[prev.cursor + 1])
          = SubSeq(state.lines, state.cursor + 1, prev.cursor + 1)
    BY <1>1, <1>4, <2>8, <2>10, PieceGrows
  <2>12. grown = SubSeq(state.lines, state.cursor + 1, prev.cursor + 1)
    BY <2>4, <2>10, <2>11, <2>7
  <2>13. Len(state.lines) \in Nat
    BY <1>4, LenProperties
  <2>14. prev.cursor + 1 = state.cursor + Len(grown) /\ prev.cursor + 1 <= Len(state.lines)
    BY <1>1, <2>5, <2>6, <2>10, <2>13
  <2>15. Fitting(state)
    BY <2>2 DEF Standing
  <2>16. Standing(state, next, grown)
    BY <2>1, <2>14, <2>15, <2>12 DEF Standing, Within
  <2> QED
    BY <2>16 DEF grown
<1> QED
  BY <1>2, <1>3

(* The lines a body has kept or dropped so far stand in the file.          *)
LEMMA BodyStands ==
  ASSUME NEW state \in State, Within(state), NEW body \in Seq(Entry)
  PROVE  \A n \in 0 .. Len(body) :
           Fitting(Consumed(state, body)[n]) =>
             Standing(state, Consumed(state, body)[n], Side(body, {" ", "-"})[n])
<1> DEFINE F == Consumed(state, body)
           G == Side(body, {" ", "-"})
           A == {n \in Nat : n <= Len(body) /\ Fitting(F[n]) => Standing(state, F[n], G[n])}
<1>1. Len(body) \in Nat
  OBVIOUS
<1>2. F[0] = state /\ \A n \in 1 .. Len(body) : F[n] = Consume(F[n - 1], body[n])
  BY <1>1, ConsumedUnrolls
<1>3. G[0] = <<>> /\ \A n \in 1 .. Len(body) : G[n] = Picked(G[n - 1], body[n], {" ", "-"})
  BY <1>1, SideUnrolls
<1>4. \A n \in 0 .. Len(body) : F[n] \in State /\ F[n].lines = state.lines
  BY ConsumedTypes
<1>5. \A n \in 0 .. Len(body) : G[n] \in Seq(Line)
  BY SideTypes
<1>6. state.cursor \in Nat /\ state.lines \in Seq(Line) /\ Len(state.lines) \in Nat
  BY DEF State
<1> HIDE DEF F, G
<1>7. 0 \in A
  <2>1. SubSeq(state.lines, state.cursor + 1, state.cursor) = <<>>
    BY <1>6
  <2>2. state.cursor = state.cursor + Len(<<>>)
    BY <1>6
  <2>3. Fitting(state) => Standing(state, state, <<>>)
    BY <2>1, <2>2 DEF Standing
  <2> QED
    BY <1>2, <1>3, <2>3
<1>8. ASSUME NEW n \in Nat, n \in A
      PROVE  n + 1 \in A
  <2> SUFFICES ASSUME n + 1 <= Len(body), Fitting(F[n + 1])
               PROVE  Standing(state, F[n + 1], G[n + 1])
    OBVIOUS
  <2>1. n + 1 \in 1 .. Len(body) /\ (n + 1) - 1 = n /\ n <= Len(body) /\ n \in 0 .. Len(body)
    BY <1>1
  <2>2. F[n + 1] = Consume(F[n], body[n + 1]) /\ G[n + 1] = Picked(G[n], body[n + 1], {" ", "-"})
    BY <1>2, <1>3, <2>1
  <2>3. body[n + 1] \in Entry
    BY <2>1, ElementOfSeq
  <2>4. F[n] \in State /\ F[n].lines = state.lines /\ G[n] \in Seq(Line)
    BY <1>4, <1>5, <2>1
  <2>5. Fitting(F[n]) => Standing(state, F[n], G[n])
    BY <1>8, <2>1
  <2> QED
    BY <2>2, <2>3, <2>4, <2>5, StandingGrows
<1>9. Nat \subseteq A
  <2> HIDE DEF A
  <2> QED
    BY <1>7, <1>8, EveryNatural
<1>10. \A n \in 0 .. Len(body) : Fitting(F[n]) => Standing(state, F[n], G[n])
  BY <1>1, <1>9
<1> QED
  BY <1>10 DEF F, G

(* A hunk that fits stands where it says.                                  *)
LEMMA HunkStands ==
  ASSUME NEW state \in State, NEW hunk \in Hunk, Fitting(ApplyHunk(state, hunk))
  PROVE  Fitting(state) /\ Stands(hunk, state.lines)
<1> DEFINE aligned == Align(state, hunk)
           body == hunk.body
           end == Consumed(aligned, body)[Len(body)]
           old == Side(body, {" ", "-"})[Len(body)]
<1>1. aligned \in State /\ aligned.lines = state.lines
  BY AlignKeeps
<1>2. Fitting(aligned) => /\ Fitting(state) /\ aligned.cursor = hunk.start - 1
                      /\ aligned.cursor <= Len(state.lines)
  BY AlignKeeps
<1>3. body \in Seq(Entry) /\ Len(body) \in 0 .. Len(body) /\ hunk.start \in Nat
  BY DEF Hunk
<1>4. Fitting(aligned) => ApplyHunk(state, hunk) = end
  BY DEF ApplyHunk, Fitting
<1>5. Fitting(aligned)
  BY DEF ApplyHunk, Fitting
<1>6. Within(aligned)
  BY <1>1, <1>2, <1>5 DEF Within
<1>7. Fitting(end)
  BY <1>4, <1>5
<1>8. end \in State /\ end.lines = aligned.lines
  BY <1>1, <1>3, ConsumedTypes
<1>9. old \in Seq(Line)
  BY <1>3, SideTypes
<1>10. /\ Within(end) /\ end.cursor = aligned.cursor + Len(old)
       /\ old = SubSeq(aligned.lines, aligned.cursor + 1, end.cursor)
  BY <1>1, <1>3, <1>6, <1>7, BodyStands DEF Standing
<1>11. OldSide(hunk) = old
  BY DEF OldSide
<1> HIDE DEF aligned, end, old, body
<1>12. hunk.start + Len(old) - 1 = end.cursor /\ aligned.cursor + 1 = hunk.start
  <2>1. Len(old) \in Nat
    BY <1>9
  <2>2. aligned.cursor = hunk.start - 1 /\ end.cursor = aligned.cursor + Len(old)
    BY <1>2, <1>5, <1>10
  <2> QED
    BY <1>3, <2>1, <2>2
<1> QED
  BY <1>1, <1>2, <1>5, <1>8, <1>10, <1>11, <1>12 DEF Stands, Within

(* When all hunks fit, each stands where it says.                          *)
LEMMA HunksStand ==
  ASSUME NEW lines \in Seq(Line), NEW hunks \in Seq(Hunk),
         Fitting(Applied(lines, hunks)[Len(hunks)])
  PROVE  \A h \in DOMAIN hunks : Stands(hunks[h], lines)
<1> DEFINE F == Applied(lines, hunks)
           A == {n \in Nat : n <= Len(hunks) /\ Fitting(F[n]) =>
                               \A h \in 1 .. n : Stands(hunks[h], lines)}
<1>1. Len(hunks) \in Nat
  OBVIOUS
<1>2. \A n \in 1 .. Len(hunks) : F[n] = ApplyHunk(F[n - 1], hunks[n])
  BY <1>1, AppliedUnrolls
<1>3. \A n \in 0 .. Len(hunks) : F[n] \in State /\ F[n].lines = lines
  BY AppliedTypes
<1> HIDE DEF F
<1>4. 0 \in A
  OBVIOUS
<1>5. ASSUME NEW n \in Nat, n \in A
      PROVE  n + 1 \in A
  <2> SUFFICES ASSUME n + 1 <= Len(hunks), Fitting(F[n + 1])
               PROVE  \A h \in 1 .. n + 1 : Stands(hunks[h], lines)
    OBVIOUS
  <2>1. n + 1 \in 1 .. Len(hunks) /\ (n + 1) - 1 = n /\ n <= Len(hunks) /\ n \in 0 .. Len(hunks)
    BY <1>1
  <2>2. F[n + 1] = ApplyHunk(F[n], hunks[n + 1]) /\ hunks[n + 1] \in Hunk
    BY <1>2, <2>1, ElementOfSeq
  <2>3. F[n] \in State /\ F[n].lines = lines
    BY <1>3, <2>1
  <2>4. Fitting(F[n]) /\ Stands(hunks[n + 1], lines)
    BY <2>2, <2>3, HunkStands
  <2>5. \A h \in 1 .. n + 1 : h = n + 1 \/ h \in 1 .. n
    OBVIOUS
  <2> QED
    BY <1>5, <2>1, <2>4, <2>5
<1>6. Nat \subseteq A
  <2> HIDE DEF A
  <2> QED
    BY <1>4, <1>5, EveryNatural
<1>7. Fitting(F[Len(hunks)])
  BY DEF F
<1> QED
  BY <1>1, <1>6, <1>7

-----------------------------------------------------------------------------
(* The hunks the agent writes are hunks.                                   *)

LEMMA GreatestIsMember ==
  ASSUME NEW N \in Nat, NEW T, T \subseteq 0 .. N, T # {}
  PROVE  Max(T) \in T /\ \A t \in T : t <= Max(T)
<1> DEFINE Gaps == {N - t : t \in T}
<1>1. \A t \in T : t \in Nat /\ t <= N /\ N - t \in Nat
  OBVIOUS
<1>2. Gaps \subseteq Nat /\ Gaps # {}
  BY <1>1
<1>3. PICK gap \in Gaps : \A g \in Gaps : gap <= g
  <2> HIDE DEF Gaps
  <2> QED
    BY <1>2, LeastNatural
<1>4. PICK m \in T : gap = N - m
  BY <1>3
<1>5. ASSUME NEW t \in T PROVE m >= t
  <2>1. N - m <= N - t
    BY <1>3, <1>4, <1>5
  <2> QED
    BY <1>1, <1>4, <1>5, <2>1
<1>6. \E x \in T : \A y \in T : x >= y
  BY <1>4, <1>5
<1>7. Max(T) \in T /\ \A y \in T : Max(T) >= y
  BY <1>6 DEF Max
<1> QED
  BY <1>1, <1>7

LEMMA PieceTypes ==
  ASSUME NEW S, NEW s \in Seq(S), NEW a \in Nat, NEW b \in 0 .. Len(s)
  PROVE  /\ SubSeq(s, a + 1, b) \in Seq(S)
         /\ Len(SubSeq(s, a + 1, b)) = IF a <= b THEN b - a ELSE 0
         /\ \A i \in 1 .. b - a : SubSeq(s, a + 1, b)[i] = s[a + i]
<1>1. a + 1 \in Int /\ b \in Int /\ \A i \in a + 1 .. b : i \in 1 .. Len(s)
  OBVIOUS
<1>2. \A i \in a + 1 .. b : s[i] \in S
  BY <1>1, ElementOfSeq
<1>3. /\ SubSeq(s, a + 1, b) \in Seq(S)
      /\ Len(SubSeq(s, a + 1, b)) = IF a + 1 <= b THEN b - (a + 1) + 1 ELSE 0
      /\ \A i \in 1 .. b - (a + 1) + 1 : SubSeq(s, a + 1, b)[i] = s[(a + 1) + i - 1]
  BY <1>1, <1>2, SubSeqProperties
<1>4. b - (a + 1) + 1 = b - a /\ \A i \in Nat : (a + 1) + i - 1 = a + i
  OBVIOUS
<1>5. (a + 1 <= b => a <= b) /\ (~(a + 1 <= b) /\ a <= b => b - a = 0)
  OBVIOUS
<1> QED
  BY <1>3, <1>4, <1>5

(* The lines two texts share at the start.                                 *)
LEMMA SharedStart ==
  ASSUME NEW old \in Seq(Line), NEW new \in Seq(Line)
  PROVE  /\ Shared(old, new) \in 0 .. Len(old)
         /\ Shared(old, new) \in 0 .. Len(new)
         /\ SubSeq(old, 1, Shared(old, new)) = SubSeq(new, 1, Shared(old, new))
<1> DEFINE T == {n \in 0 .. Len(old) : n <= Len(new) /\ SubSeq(old, 1, n) = SubSeq(new, 1, n)}
<1>1. Len(old) \in Nat /\ Len(new) \in Nat
  OBVIOUS
<1>2. SubSeq(old, 1, 0) = <<>> /\ SubSeq(new, 1, 0) = <<>>
  OBVIOUS
<1>3. 0 \in T /\ T \subseteq 0 .. Len(old)
  BY <1>1, <1>2
<1>4. Max(T) \in T
  <2> HIDE DEF T
  <2> QED
    BY <1>1, <1>3, GreatestIsMember
<1>5. Shared(old, new) = Max(T)
  BY DEF Shared
<1>6. Shared(old, new) \in T
  <2> HIDE DEF T
  <2> QED
    BY <1>4, <1>5
<1>7. \A n \in T : n \in 0 .. Len(old) /\ n \in 0 .. Len(new)
  BY <1>1
<1>8. \A n \in T : SubSeq(old, 1, n) = SubSeq(new, 1, n)
  OBVIOUS
<1> HIDE DEF T
<1> QED
  BY <1>6, <1>7, <1>8

LEMMA TaggedTypes ==
  ASSUME NEW tag \in Tags, NEW lines \in Seq(Line)
  PROVE  Tagged(tag, lines) \in Seq(Entry) /\ Len(Tagged(tag, lines)) = Len(lines)
<1>1. \A i \in 1 .. Len(lines) : [tag |-> tag, text |-> lines[i]] \in Entry
  BY ElementOfSeq DEF Entry
<1>2. Tagged(tag, lines) \in [1 .. Len(lines) -> Entry] /\ Len(lines) \in Nat
  BY <1>1 DEF Tagged
<1> QED
  BY <1>2

LEMMA BodyTypes ==
  ASSUME NEW old \in Seq(Line), NEW new \in Seq(Line)
  PROVE  Body(old, new) \in Seq(Entry)
<1> DEFINE c == Shared(old, new)
<1>1. c \in 0 .. Len(old) /\ c \in 0 .. Len(new) /\ c \in Nat
  BY SharedStart
<1>2. SubSeq(old, 1, c) \in Seq(Line)
  <2>1. SubSeq(old, 0 + 1, c) \in Seq(Line)
    BY <1>1, PieceTypes
  <2> QED
    BY <2>1
<1>3. SubSeq(old, c + 1, Len(old)) \in Seq(Line) /\ SubSeq(new, c + 1, Len(new)) \in Seq(Line)
  <2>1. Len(old) \in 0 .. Len(old) /\ Len(new) \in 0 .. Len(new)
    OBVIOUS
  <2> QED
    BY <1>1, <2>1, PieceTypes
<1>4. {" ", "-", "+"} = Tags
  BY DEF Tags
<1>5. /\ Tagged(" ", SubSeq(old, 1, c)) \in Seq(Entry)
      /\ Tagged("-", SubSeq(old, c + 1, Len(old))) \in Seq(Entry)
      /\ Tagged("+", SubSeq(new, c + 1, Len(new))) \in Seq(Entry)
  BY <1>2, <1>3, <1>4, TaggedTypes
<1> QED
  BY <1>5, ConcatProperties DEF Body

LEMMA HunksTypes ==
  ASSUME NEW base \in Seq(Line), NEW goal \in Seq(Line), NEW offset \in Nat
  PROVE  Hunks(base, goal, offset) \subseteq Hunk
<1> SUFFICES ASSUME NEW skip \in 0 .. Len(base), NEW rest \in 0 .. Len(base),
                    Same(base, goal, skip, rest)
             PROVE  [start |-> offset + skip + 1,
                     body |-> Body(SubSeq(base, skip + 1, Len(base) - rest),
                                   SubSeq(goal, skip + 1, Len(goal) - rest))] \in Hunk
  BY DEF Hunks
<1>1. Len(base) \in Nat /\ Len(goal) \in Nat /\ skip \in Nat /\ rest \in Nat
  OBVIOUS
<1>2. Len(base) - rest \in 0 .. Len(base) /\ Len(goal) - rest \in 0 .. Len(goal)
  BY <1>1 DEF Same
<1>3. /\ SubSeq(base, skip + 1, Len(base) - rest) \in Seq(Line)
      /\ SubSeq(goal, skip + 1, Len(goal) - rest) \in Seq(Line)
  BY <1>1, <1>2, PieceTypes
<1>4. Body(SubSeq(base, skip + 1, Len(base) - rest),
           SubSeq(goal, skip + 1, Len(goal) - rest)) \in Seq(Entry)
  BY <1>3, BodyTypes
<1>5. offset + skip + 1 \in Nat
  BY <1>1
<1> QED
  BY <1>4, <1>5 DEF Hunk

LEMMA DiffsTypes ==
  ASSUME NEW base \in Seq(Line), NEW goal \in Seq(Line), NEW hunks \in Diffs(base, goal)
  PROVE  hunks \in Seq(Hunk)
<1>1. CASE hunks \in {<<hunk>> : hunk \in Hunks(base, goal, 0)}
  <2>1. PICK hunk \in Hunks(base, goal, 0) : hunks = <<hunk>>
    BY <1>1
  <2>2. hunk \in Hunk
    BY HunksTypes
  <2> QED
    BY <2>1, <2>2
<1>2. CASE \E i \in 1 .. Len(base), j \in 0 .. Len(goal) :
              hunks \in Hunks(SubSeq(base, 1, i), SubSeq(goal, 1, j), 0)
                \X Hunks(SubSeq(base, i + 1, Len(base)), SubSeq(goal, j + 1, Len(goal)), i)
  <2>1. PICK i \in 1 .. Len(base), j \in 0 .. Len(goal) :
              hunks \in Hunks(SubSeq(base, 1, i), SubSeq(goal, 1, j), 0)
                \X Hunks(SubSeq(base, i + 1, Len(base)), SubSeq(goal, j + 1, Len(goal)), i)
    BY <1>2
  <2>2. /\ i \in Nat /\ j \in Nat /\ i \in 0 .. Len(base) /\ Len(base) \in 0 .. Len(base)
        /\ Len(goal) \in 0 .. Len(goal)
    OBVIOUS
  <2>3. SubSeq(base, 0 + 1, i) \in Seq(Line) /\ SubSeq(goal, 0 + 1, j) \in Seq(Line)
    BY <2>2, PieceTypes
  <2>4. SubSeq(base, i + 1, Len(base)) \in Seq(Line) /\ SubSeq(goal, j + 1, Len(goal)) \in Seq(Line)
    BY <2>2, PieceTypes
  <2>5. 0 + 1 = 1
    OBVIOUS
  <2>6. PICK h1 \in Hunks(SubSeq(base, 1, i), SubSeq(goal, 1, j), 0),
             h2 \in Hunks(SubSeq(base, i + 1, Len(base)), SubSeq(goal, j + 1, Len(goal)), i) :
             hunks = <<h1, h2>>
    BY <2>1
  <2>7. h1 \in Hunk /\ h2 \in Hunk
    BY <2>2, <2>3, <2>4, <2>5, HunksTypes
  <2> QED
    BY <2>6, <2>7
<1> QED
  BY <1>1, <1>2 DEF Diffs

-----------------------------------------------------------------------------
(* What a path can hold, and what a section of a patch can be.             *)

\* A text read from a file ends in no blank line but one that a newline ends.
Ended(lines, ended) ==
  IF ended THEN lines # <<>> ELSE lines = <<>> \/ lines[Len(lines)] # Blank

Files == {f \in [kind : {"file"}, lines : Seq(Line), ended : BOOLEAN] : Ended(f.lines, f.ended)}
Contents == Files \cup {Absent, Dir}

TreeOK == tree \in [Paths -> Contents]

LEMMA FileKind ==
  ASSUME NEW entry \in Contents
  PROVE  /\ IsFile(entry) <=> entry \in Files
         /\ entry \in Files => entry.lines \in Seq(Line) /\ entry.ended \in BOOLEAN
<1>1. Absent.kind # "file" /\ Dir.kind # "file"
  BY DEF Absent, Dir
<1> QED
  BY <1>1 DEF Contents, Files, IsFile

LEMMA FileTypes ==
  ASSUME NEW lines \in Seq(Line), NEW ended \in BOOLEAN, Ended(lines, ended)
  PROVE  File(lines, ended) \in Files
BY DEF File, Files

LEMMA WrittenTypes ==
  ASSUME NEW text \in Seq(Line)
  PROVE  Written(text) \in Files /\ Written(text).lines = text
<1>1. Ended(text, text # <<>>) /\ (text # <<>>) \in BOOLEAN
  BY DEF Ended
<1>2. File(text, text # <<>>) \in Files
  BY <1>1, FileTypes
<1>3. File(text, text # <<>>).lines = text
  BY DEF File
<1> QED
  BY <1>2, <1>3 DEF Written

LEMMA JoinedTypes ==
  ASSUME NEW lines \in Seq(Line), NEW ended \in BOOLEAN
  PROVE  Joined(lines, ended) \in Files
<1>1. Blank \in Line
  BY DEF Blank, Line
<1>2. <<Blank>> \in Seq(Line) /\ <<Blank>> # <<>>
  BY <1>1
<1>3. CASE ended
  <2>1. (IF lines = <<>> THEN <<Blank>> ELSE lines) \in Seq(Line)
    BY <1>2
  <2>2. Ended(IF lines = <<>> THEN <<Blank>> ELSE lines, TRUE)
    BY <1>2 DEF Ended
  <2>3. File(IF lines = <<>> THEN <<Blank>> ELSE lines, TRUE) \in Files
    BY <2>1, <2>2, FileTypes
  <2> QED
    BY <1>3, <2>3 DEF Joined
<1>4. CASE ~ended /\ lines # <<>> /\ Last(lines) = Blank
  <2>1. Front(lines) \in Seq(Line)
    <3>1. Len(lines) \in Nat /\ Len(lines) # 0
      BY <1>4, EmptySeq
    <3>2. Len(lines) - 1 \in 0 .. Len(lines) /\ 0 + 1 = 1
      BY <3>1
    <3>3. SubSeq(lines, 0 + 1, Len(lines) - 1) \in Seq(Line)
      BY <3>2, PieceTypes
    <3> QED
      BY <3>2, <3>3 DEF Front
  <2>2. Written(Front(lines)) \in Files
    BY <2>1, WrittenTypes
  <2> QED
    BY <1>4, <2>2 DEF Joined
<1>5. CASE ~ended /\ ~(lines # <<>> /\ Last(lines) = Blank)
  <2>1. Ended(lines, FALSE)
    BY <1>5 DEF Ended, Last
  <2>2. File(lines, FALSE) \in Files
    BY <2>1, FileTypes
  <2> QED
    BY <1>5, <2>2 DEF Joined
<1> QED
  BY <1>3, <1>4, <1>5

LEMMA ApplyHunksTypes ==
  ASSUME NEW file \in Files, NEW hunks \in Seq(Hunk)
  PROVE  ApplyHunks(file, hunks).file \in Files
<1> DEFINE end == Applied(file.lines, hunks)[Len(hunks)]
<1>1. file.lines \in Seq(Line) /\ file.ended \in BOOLEAN
  BY DEF Files
<1>2. Len(hunks) \in 0 .. Len(hunks)
  OBVIOUS
<1>3. end \in State
  BY <1>1, <1>2, AppliedTypes
<1> HIDE DEF end
<1>4. end.result \in Seq(Line) /\ end.cursor \in Nat
  BY <1>3 DEF State
<1>5. Len(file.lines) \in 0 .. Len(file.lines)
  BY <1>1
<1>6. SubSeq(file.lines, end.cursor + 1, Len(file.lines)) \in Seq(Line)
  BY <1>1, <1>4, <1>5, PieceTypes
<1>7. end.result \o SubSeq(file.lines, end.cursor + 1, Len(file.lines)) \in Seq(Line)
  BY <1>4, <1>6, ConcatProperties
<1>8. Joined(end.result \o SubSeq(file.lines, end.cursor + 1, Len(file.lines)), file.ended) \in Files
  BY <1>1, <1>7, JoinedTypes
<1> QED
  BY <1>8 DEF ApplyHunks, end

\* The only hunk of a section that creates a file.
CreatingHunk(goal) == [start |-> 0, body |-> Body(<<>>, goal)]

Kinds == {"change", "create", "delete"}

(* What a section was written for.                                         *)
Drafted(section) ==
  \/ /\ section.kind = "change" /\ section.base \in Files /\ section.goal \in Texts
     /\ section.hunks \in Diffs(section.base.lines, section.goal)
  \/ /\ section.kind = "create" /\ section.base = Absent /\ section.goal \in Texts
     /\ section.hunks = <<CreatingHunk(section.goal)>>
  \/ section.kind = "delete" /\ section.base \in Files

DraftedSections ==
  {s \in [path : Paths, kind : Kinds, hunks : Seq(Hunk), base : Contents, goal : Seq(Line)] :
     Drafted(s)}

PatchOK == patch \in Seq(DraftedSections)

LEMMA CreatingHunkTypes ==
  ASSUME NEW goal \in Seq(Line)
  PROVE  CreatingHunk(goal) \in Hunk
<1>1. <<>> \in Seq(Line)
  OBVIOUS
<1>2. Body(<<>>, goal) \in Seq(Entry)
  BY <1>1, BodyTypes
<1> QED
  BY <1>2 DEF CreatingHunk, Hunk

(* A created file says what its one hunk adds.                             *)
LEMMA OneBody ==
  ASSUME NEW hunk
  PROVE  Bodies(<<hunk>>) = hunk.body
<1> DEFINE seqs == [i \in DOMAIN <<hunk>> |-> <<hunk>>[i].body]
           Unrolled(g) == [i \in 1 .. 1 |-> IF i = 1 THEN seqs[i] ELSE g[i - 1] \o seqs[i]]
           h == [i \in 1 .. 1 |-> seqs[i]]
           F == CHOOSE g : g = Unrolled(g)
<1>1. DOMAIN <<hunk>> = 1 .. 1 /\ <<hunk>>[1] = hunk
  OBVIOUS
<1>2. seqs = <<hunk.body>>
  BY <1>1
<1>3. Len(seqs) = 1 /\ seqs[1] = hunk.body
  BY <1>2
<1> HIDE DEF seqs
<1>4. h = Unrolled(h)
  OBVIOUS
<1>5. F = Unrolled(F)
  <2> HIDE DEF h, Unrolled
  <2> QED
    BY <1>4
<1>6. F[1] = seqs[1]
  <2> HIDE DEF F
  <2> QED
    BY <1>5
<1>7. FlattenSeq(seqs) = F[1]
  BY <1>3 DEF FlattenSeq
<1> QED
  BY <1>3, <1>6, <1>7 DEF Bodies, seqs

LEMMA CreatedTypes ==
  ASSUME NEW hunk \in Hunk
  PROVE  Created(<<hunk>>) \in Files
<1> DEFINE lines == Side(hunk.body, {"+"})[Len(hunk.body)]
<1>1. hunk.body \in Seq(Entry) /\ Len(hunk.body) \in 0 .. Len(hunk.body)
  BY DEF Hunk
<1>2. lines \in Seq(Line)
  BY <1>1, SideTypes
<1> HIDE DEF lines
<1>3. (IF lines = <<Blank>> THEN <<>> ELSE lines) \in Seq(Line)
  <2>1. <<>> \in Seq(Line)
    OBVIOUS
  <2> QED
    BY <1>2, <2>1
<1>4. Written(IF lines = <<Blank>> THEN <<>> ELSE lines) \in Files
  BY <1>3, WrittenTypes
<1> QED
  BY <1>4, OneBody DEF Created, lines

LEMMA PlannedTypes ==
  ASSUME TreeOK, NEW section \in DraftedSections, Plannable(section)
  PROVE  Planned(section) \in Contents
<1>1. section.path \in Paths /\ section.hunks \in Seq(Hunk) /\ tree[section.path] \in Contents
  BY DEF TreeOK, DraftedSections
<1>2. Drafted(section)
  BY DEF DraftedSections
<1>3. CASE section.kind = "delete"
  BY <1>3 DEF Planned, Contents
<1>4. CASE section.kind = "create"
  <2>1. section.goal \in Texts /\ section.hunks = <<CreatingHunk(section.goal)>>
    BY <1>2, <1>4 DEF Drafted
  <2>2. section.goal \in Seq(Line)
    BY DEF DraftedSections
  <2>3. Created(section.hunks) \in Files
    BY <2>1, <2>2, CreatingHunkTypes, CreatedTypes
  <2> QED
    BY <1>4, <2>3 DEF Planned, Contents
<1>5. CASE section.kind = "change"
  <2>1. IsFile(tree[section.path])
    BY <1>5 DEF Plannable
  <2>2. tree[section.path] \in Files
    BY <1>1, <2>1, FileKind
  <2>3. ApplyHunks(tree[section.path], section.hunks).file \in Files
    BY <1>1, <2>2, ApplyHunksTypes
  <2> QED
    BY <1>5, <2>3 DEF Planned, Contents
<1> QED
  BY <1>3, <1>4, <1>5 DEF DraftedSections, Kinds

LEMMA CommittedTypes ==
  ASSUME TreeOK, PatchOK, \A i \in DOMAIN patch : Plannable(patch[i])
  PROVE  \A n \in 0 .. Len(patch) :
           /\ Committed(patch)[n].files \in [Paths -> Contents]
           /\ Committed(patch)[n].failed \in BOOLEAN
           /\ Committed(patch)[n] = [files |-> Committed(patch)[n].files,
                                     failed |-> Committed(patch)[n].failed]
<1> DEFINE F == Committed(patch)
           Typed(state) == /\ state.files \in [Paths -> Contents] /\ state.failed \in BOOLEAN
                           /\ state = [files |-> state.files, failed |-> state.failed]
           A == {n \in Nat : n <= Len(patch) => Typed(F[n])}
<1>1. Len(patch) \in Nat /\ DOMAIN patch = 1 .. Len(patch)
  BY LenProperties DEF PatchOK
<1>2. F[0] = AsIs /\ \A n \in 1 .. Len(patch) : F[n] = WriteSection(F[n - 1], patch[n])
  BY <1>1, CommittedUnrolls
<1> HIDE DEF F
<1>3. 0 \in A
  <2>1. Typed(AsIs)
    BY DEF AsIs, TreeOK
  <2> QED
    BY <1>2, <2>1
<1>4. ASSUME NEW n \in Nat, n \in A
      PROVE  n + 1 \in A
  <2> SUFFICES ASSUME n + 1 <= Len(patch)
               PROVE  Typed(F[n + 1])
    OBVIOUS
  <2> DEFINE section == patch[n + 1]
             state == F[n]
  <2>1. n + 1 \in 1 .. Len(patch) /\ (n + 1) - 1 = n /\ n <= Len(patch)
    BY <1>1
  <2>2. F[n + 1] = WriteSection(state, section)
    BY <1>2, <2>1
  <2>3. section \in DraftedSections
    BY <2>1, ElementOfSeq DEF PatchOK
  <2>4. Planned(section) \in Contents /\ section.path \in Paths
    <3>1. Plannable(section)
      BY <1>1, <2>1
    <3> QED
      BY <2>3, <3>1, PlannedTypes DEF DraftedSections
  <2>5. Typed(state)
    BY <1>4, <2>1
  <2> HIDE DEF section, state
  <2>6. state.files \in [Paths -> Contents] /\ state = [files |-> state.files, failed |-> state.failed]
    BY <2>5
  <2>7. \/ WriteSection(state, section) = [files |-> state.files, failed |-> TRUE]
        \/ WriteSection(state, section)
             = [files |-> [state.files EXCEPT ![section.path] = Planned(section)],
                failed |-> state.failed]
    BY <2>6 DEF WriteSection
  <2>8. [state.files EXCEPT ![section.path] = Planned(section)] \in [Paths -> Contents]
    BY <2>4, <2>6
  <2>9. state.failed \in BOOLEAN
    BY <2>5
  <2> DEFINE written == [state.files EXCEPT ![section.path] = Planned(section)]
  <2>10. ASSUME NEW files \in [Paths -> Contents], NEW failed \in BOOLEAN
         PROVE  Typed([files |-> files, failed |-> failed])
    OBVIOUS
  <2> HIDE DEF written, Typed
  <2>11. Typed([files |-> state.files, failed |-> TRUE])
    BY <2>6, <2>10
  <2>12. Typed([files |-> written, failed |-> state.failed])
    BY <2>8, <2>9, <2>10 DEF written
  <2> QED
    BY <2>2, <2>7, <2>11, <2>12 DEF written
<1>5. Nat \subseteq A
  <2> HIDE DEF A
  <2> QED
    BY <1>3, <1>4, EveryNatural
<1>6. \A n \in 0 .. Len(patch) : Typed(F[n])
  BY <1>1, <1>5
<1> QED
  BY <1>6 DEF F

(* What the agent adds to a patch is drafted.                              *)
LEMMA SectionsDrafted ==
  ASSUME TreeOK, NEW path \in Paths, NEW goal \in Texts, NEW section \in Sections(path, goal)
  PROVE  section \in DraftedSections
<1>1. tree[path] \in Contents /\ goal \in Seq(Line)
  BY TreeAssumption DEF TreeOK, TreeAssumption
<1>2. CASE IsFile(tree[path]) /\ section = Delete(path)
  <2>1. tree[path] \in Files
    BY <1>1, <1>2, FileKind
  <2>2. <<>> \in Seq(Hunk) /\ <<>> \in Seq(Line)
    OBVIOUS
  <2> QED
    BY <1>1, <1>2, <2>1, <2>2 DEF Delete, DraftedSections, Drafted, Kinds
<1>3. CASE /\ IsFile(tree[path])
           /\ \E hunks \in Diffs(tree[path].lines, goal) : section = Change(path, hunks, goal)
  <2>1. tree[path] \in Files /\ tree[path].lines \in Seq(Line)
    BY <1>1, <1>3, FileKind
  <2>2. PICK hunks \in Diffs(tree[path].lines, goal) : section = Change(path, hunks, goal)
    BY <1>3
  <2>3. hunks \in Seq(Hunk)
    BY <1>1, <2>1, DiffsTypes
  <2> QED
    BY <1>1, <2>1, <2>2, <2>3 DEF Change, DraftedSections, Drafted, Kinds
<1>4. CASE tree[path] = Absent /\ section = Create(path, goal)
  <2>1. section = [path |-> path, kind |-> "create", base |-> Absent, goal |-> goal,
                   hunks |-> <<CreatingHunk(goal)>>]
    BY <1>4 DEF Create, CreatingHunk
  <2>2. CreatingHunk(goal) \in Hunk
    BY <1>1, CreatingHunkTypes
  <2>3. <<CreatingHunk(goal)>> \in Seq(Hunk) /\ Absent \in Contents
    BY <2>2 DEF Contents
  <2> QED
    BY <1>1, <2>1, <2>3 DEF DraftedSections, Drafted, Kinds
<1>5. IF IsFile(tree[path])
      THEN \/ section = Delete(path)
           \/ \E hunks \in Diffs(tree[path].lines, goal) : section = Change(path, hunks, goal)
      ELSE tree[path] = Absent /\ section = Create(path, goal)
  BY DEF Sections
<1> QED
  BY <1>2, <1>3, <1>4, <1>5

-----------------------------------------------------------------------------
(* The sites of a rename, and the order in which they are spliced.         *)

SiteSet == [path : Paths, line : 1 .. MaxLines, column : 0 .. MaxWidth]
SitesIn(path) == {site \in SiteSet : site.path = path}
ReferencesOK == references \subseteq SiteSet

LEMMA SitesFinite ==
  ASSUME NEW path, NEW sites, sites \subseteq SitesIn(path)
  PROVE  IsFiniteSet(sites)
<1> DEFINE Places == (1 .. MaxLines) \X (0 .. MaxWidth)
           place == [site \in sites |-> <<site.line, site.column>>]
<1>1. MaxLines \in Nat /\ MaxWidth \in Nat
  BY TreeAssumption DEF TreeAssumption
<1>2. IsFiniteSet(1 .. MaxLines) /\ IsFiniteSet(0 .. MaxWidth)
  BY <1>1, FS_Interval
<1>3. IsFiniteSet(Places)
  BY <1>2, FS_Product
<1>4. place \in [sites -> Places]
  BY DEF SitesIn, SiteSet
<1>5. \A a, b \in sites : a.line = b.line /\ a.column = b.column => a = b
  BY DEF SitesIn, SiteSet
<1>6. \A a, b \in sites : place[a] = place[b] => a = b
  BY <1>5
<1>7. place \in Injection(sites, Places)
  BY <1>4, <1>6 DEF Injection, IsInjective
<1> QED
  BY <1>3, <1>7, FS_Injection

(* Of the sites in a file there is one before all others.                  *)
LEMMA FirstSite ==
  ASSUME NEW path, NEW part, part \subseteq SitesIn(path), part # {}
  PROVE  /\ SplicedLast(part) \in part
         /\ \A b \in part : b = SplicedLast(part) \/ Before(SplicedLast(part), b)
<1> DEFINE Lines == {site.line : site \in part}
<1>1. \A site \in part : site.line \in Nat /\ site.column \in Nat
  BY DEF SitesIn, SiteSet
<1>2. Lines \subseteq Nat /\ Lines # {}
  BY <1>1
<1>3. PICK line \in Lines : \A l \in Lines : line <= l
  <2> HIDE DEF Lines
  <2> QED
    BY <1>2, LeastNatural
<1> DEFINE Columns == {site.column : site \in {s \in part : s.line = line}}
<1>4. Columns \subseteq Nat /\ Columns # {}
  BY <1>1, <1>3
<1>5. PICK column \in Columns : \A c \in Columns : column <= c
  <2> HIDE DEF Columns
  <2> QED
    BY <1>4, LeastNatural
<1>6. PICK a \in part : a.line = line /\ a.column = column
  BY <1>5
<1>7. ASSUME NEW b \in part
      PROVE  a = b \/ Before(a, b)
  <2>1. line <= b.line /\ line \in Nat /\ b.line \in Nat
    BY <1>1, <1>2, <1>3
  <2>2. b.line = line => column <= b.column
    BY <1>5
  <2>3. column \in Nat /\ b.column \in Nat
    BY <1>1, <1>4, <1>5
  <2>4. b.line = line /\ b.column = column => a = b
    BY <1>6 DEF SitesIn, SiteSet
  <2> QED
    BY <1>6, <2>1, <2>2, <2>3, <2>4 DEF Before
<1>8. \E x \in part : \A b \in part : x = b \/ Before(x, b)
  BY <1>7
<1>9. /\ SplicedLast(part) \in part
      /\ \A b \in part : SplicedLast(part) = b \/ Before(SplicedLast(part), b)
  BY <1>8 DEF SplicedLast
<1> QED
  BY <1>9

\* The pieces with one more site spliced.
SplicedOnce(pieces, site) ==
  [pieces EXCEPT ![site.line] = SpliceAt(pieces[site.line], site.column)]

(* Every part of the sites is the rest of it and the site spliced last.    *)
LEMMA SpliceUnrolls ==
  ASSUME NEW path, NEW pieces, NEW sites, sites \subseteq SitesIn(path)
  PROVE  /\ Splice(pieces, sites)[{}] = pieces
         /\ \A part \in SUBSET sites : part # {} =>
              Splice(pieces, sites)[part] =
                SplicedOnce(Splice(pieces, sites)[part \ {SplicedLast(part)}], SplicedLast(part))
<1> DEFINE Body1(g, part) == IF part = {} THEN pieces
                             ELSE SplicedOnce(g[part \ {SplicedLast(part)}], SplicedLast(part))
           Unrolled(g, D) == [part \in D |-> Body1(g, part)]
           Upto(m) == {part \in SUBSET sites : Cardinality(part) <= m}
           A == {m \in Nat : \E g : g = Unrolled(g, Upto(m))}
<1>1. \A part \in SUBSET sites : IsFiniteSet(part) /\ Cardinality(part) \in Nat
  BY SitesFinite, FS_CardinalityType
<1>2. \A part \in SUBSET sites : part # {} =>
        /\ SplicedLast(part) \in part
        /\ part \ {SplicedLast(part)} \in SUBSET sites
        /\ Cardinality(part \ {SplicedLast(part)}) = Cardinality(part) - 1
  <2> SUFFICES ASSUME NEW part \in SUBSET sites, part # {}
               PROVE  /\ SplicedLast(part) \in part
                      /\ Cardinality(part \ {SplicedLast(part)}) = Cardinality(part) - 1
    OBVIOUS
  <2>1. SplicedLast(part) \in part
    BY FirstSite
  <2> QED
    BY <1>1, <2>1, FS_RemoveElement
<1>3. 0 \in A
  <2> DEFINE g == [part \in Upto(0) |-> pieces]
  <2>1. \A part \in Upto(0) : part = {}
    BY <1>1, FS_EmptySet
  <2>2. g = Unrolled(g, Upto(0))
    BY <2>1
  <2> HIDE DEF g, Unrolled, Upto
  <2> QED
    BY <2>2
<1>4. ASSUME NEW m \in Nat, m \in A
      PROVE  m + 1 \in A
  <2>1. PICK g : g = Unrolled(g, Upto(m))
    BY <1>4
  <2> DEFINE h == [part \in Upto(m + 1) |-> Body1(g, part)]
  <2>2. \A part \in Upto(m + 1) : part # {} => part \ {SplicedLast(part)} \in Upto(m)
    <3> SUFFICES ASSUME NEW part \in Upto(m + 1), part # {}
                 PROVE  part \ {SplicedLast(part)} \in Upto(m)
      OBVIOUS
    <3>1. Cardinality(part) \in Nat /\ Cardinality(part) <= m + 1
      BY <1>1
    <3>2. /\ part \ {SplicedLast(part)} \in SUBSET sites
          /\ Cardinality(part \ {SplicedLast(part)}) = Cardinality(part) - 1
      BY <1>2
    <3>3. Cardinality(part) - 1 <= m
      BY <3>1
    <3> QED
      BY <3>2, <3>3
  <2>3. \A part \in Upto(m) : part \in Upto(m + 1)
    BY <1>1
  <2> HIDE DEF Upto
  <2>4. \A part \in Upto(m) : h[part] = g[part]
    <3>1. \A part \in Upto(m) : g[part] = Body1(g, part)
      BY <2>1
    <3>2. \A part \in Upto(m) : h[part] = Body1(g, part)
      BY <2>3
    <3> QED
      BY <3>1, <3>2
  <2>5. \A part \in Upto(m + 1) : h[part] = Body1(g, part)
    OBVIOUS
  <2>6. \A part \in Upto(m + 1) : Body1(g, part) = Body1(h, part)
    <3> HIDE DEF h
    <3> QED
      BY <2>2, <2>4
  <2>7. h = Unrolled(h, Upto(m + 1))
    <3>1. \A part \in Upto(m + 1) : h[part] = Body1(h, part)
      BY <2>5, <2>6
    <3>2. h = [part \in Upto(m + 1) |-> h[part]]
      OBVIOUS
    <3> HIDE DEF h
    <3> QED
      BY <3>1, <3>2
  <2> HIDE DEF h, Unrolled
  <2> QED
    BY <2>7
<1>5. Nat \subseteq A
  <2> HIDE DEF A
  <2> QED
    BY <1>3, <1>4, EveryNatural
<1>6. IsFiniteSet(sites) /\ Cardinality(sites) \in Nat /\ SUBSET sites = Upto(Cardinality(sites))
  <2>1. IsFiniteSet(sites) /\ Cardinality(sites) \in Nat
    BY <1>1
  <2>2. \A part \in SUBSET sites : Cardinality(part) <= Cardinality(sites)
    BY <2>1, FS_Subset
  <2> QED
    BY <2>1, <2>2
<1> DEFINE F == Splice(pieces, sites)
<1>7. F = CHOOSE g : g = Unrolled(g, SUBSET sites)
  BY DEF Splice, SplicedOnce
<1>8. F = Unrolled(F, SUBSET sites)
  <2>1. \E g : g = Unrolled(g, Upto(Cardinality(sites)))
    BY <1>5, <1>6
  <2>2. \E g : g = Unrolled(g, SUBSET sites)
    BY <1>6, <2>1
  <2> HIDE DEF F, Unrolled
  <2> QED
    BY <1>7, <2>2
<1> HIDE DEF F
<1>9. \A part \in SUBSET sites : F[part] = Body1(F, part)
  BY <1>8
<1>10. {} \in SUBSET sites
  OBVIOUS
<1> QED
  BY <1>9, <1>10 DEF F

(* What holds of no sites, and of any once of all but the last spliced,    *)
(* holds of every part of the sites.                                       *)
LEMMA EveryPart ==
  ASSUME NEW path, NEW sites, sites \subseteq SitesIn(path), NEW P, {} \in P,
         \A part \in SUBSET sites :
           part # {} /\ part \ {SplicedLast(part)} \in P => part \in P
  PROVE  SUBSET sites \subseteq P
<1> DEFINE A == {m \in Nat : \A part \in SUBSET sites : Cardinality(part) = m => part \in P}
<1>1. \A part \in SUBSET sites : IsFiniteSet(part) /\ Cardinality(part) \in Nat
  BY SitesFinite, FS_CardinalityType
<1>2. 0 \in A
  <2>1. \A part \in SUBSET sites : Cardinality(part) = 0 => part = {}
    BY <1>1, FS_EmptySet
  <2> QED
    BY <2>1
<1>3. ASSUME NEW m \in Nat, m \in A
      PROVE  m + 1 \in A
  <2> SUFFICES ASSUME NEW part \in SUBSET sites, Cardinality(part) = m + 1
               PROVE  part \in P
    OBVIOUS
  <2>1. part # {}
    BY FS_EmptySet
  <2>2. SplicedLast(part) \in part
    BY <2>1, FirstSite
  <2> DEFINE less == part \ {SplicedLast(part)}
  <2>3. Cardinality(less) = (m + 1) - 1 /\ less \in SUBSET sites
    BY <1>1, <2>2, FS_RemoveElement
  <2>4. less \in P
    BY <1>3, <2>3
  <2> QED
    BY <2>1, <2>4
<1>4. Nat \subseteq A
  <2> HIDE DEF A
  <2> QED
    BY <1>2, <1>3, EveryNatural
<1> QED
  BY <1>1, <1>4

LEMMA NamesAreLines ==
  /\ New \in Line /\ Old \in Line /\ New # <<>> /\ Old # <<>>
  /\ Len(Old) \in Nat \ {0} /\ Len(New) \in Nat \ {0}
<1>1. New \in Seq(Letters) /\ Old \in Seq(Letters) /\ Letters \subseteq Characters
      /\ New # <<>> /\ Old # <<>>
  BY TreeAssumption DEF TreeAssumption
<1>2. New \in Seq(Characters) /\ Old \in Seq(Characters)
  BY <1>1, SeqMonotonic
<1> QED
  BY <1>1, <1>2, EmptySeq DEF Line

LEMMA SpliceAtTypes ==
  ASSUME NEW line \in Line, NEW column \in Nat
  PROVE  SpliceAt(line, column) \in Line
<1> DEFINE before == IF column < Len(line) THEN column ELSE Len(line)
<1>1. Len(line) \in Nat /\ line \in Seq(Characters)
  BY LenProperties DEF Line
<1>2. before \in 0 .. Len(line) /\ Len(line) \in 0 .. Len(line) /\ 0 + 1 = 1
      /\ column + Len(Old) \in Nat
  BY <1>1, NamesAreLines
<1> HIDE DEF before
<1>3. SubSeq(line, 0 + 1, before) \in Seq(Characters)
      /\ SubSeq(line, column + Len(Old) + 1, Len(line)) \in Seq(Characters)
  BY <1>1, <1>2, PieceTypes
<1>4. SubSeq(line, 1, before) \o New \o SubSeq(line, column + Len(Old) + 1, Len(line))
        \in Seq(Characters)
  <2>1. New \in Seq(Characters)
    BY NamesAreLines DEF Line
  <2> QED
    BY <1>2, <1>3, <2>1, ConcatProperties
<1> QED
  BY <1>4 DEF SpliceAt, Line, before

\* As many lines as the pieces.
LinesLike(lines, pieces) == lines \in Seq(Line) /\ Len(lines) = Len(pieces)

(* Splices keep the number of pieces.                                      *)
LEMMA SpliceTypes ==
  ASSUME NEW path, NEW sites, sites \subseteq SitesIn(path), NEW pieces \in Seq(Line),
         \A site \in sites : site.line \in 1 .. Len(pieces)
  PROVE  \A part \in SUBSET sites : LinesLike(Splice(pieces, sites)[part], pieces)
<1> DEFINE F == Splice(pieces, sites)
           P == {part \in SUBSET sites : F[part] \in Seq(Line) /\ Len(F[part]) = Len(pieces)}
<1>1. /\ F[{}] = pieces
      /\ \A part \in SUBSET sites : part # {} =>
           F[part] = SplicedOnce(F[part \ {SplicedLast(part)}], SplicedLast(part))
  <2> HIDE DEF P
  <2>1. F[{}] = pieces
    BY SpliceUnrolls
  <2>2. ASSUME NEW part \in SUBSET sites, part # {}
        PROVE  F[part] = SplicedOnce(F[part \ {SplicedLast(part)}], SplicedLast(part))
    BY <2>2, SpliceUnrolls
  <2> QED
    BY <2>1, <2>2
<1> HIDE DEF F
<1>2. {} \in P
  BY <1>1
<1>3. ASSUME NEW part \in SUBSET sites, part # {}, part \ {SplicedLast(part)} \in P
      PROVE  part \in P
  <2> DEFINE site == SplicedLast(part)
             now == F[part \ {SplicedLast(part)}]
  <2>1. site \in part
    BY <1>3, FirstSite
  <2>2. site.line \in 1 .. Len(pieces) /\ site.column \in Nat
    BY <2>1 DEF SitesIn, SiteSet
  <2>3. now \in Seq(Line) /\ Len(now) = Len(pieces)
    BY <1>3
  <2>4. F[part] = SplicedOnce(now, site)
    BY <1>1, <1>3
  <2> HIDE DEF site, now
  <2>5. SpliceAt(now[site.line], site.column) \in Line
    <3>1. now[site.line] \in Line
      BY <2>2, <2>3, ElementOfSeq
    <3> QED
      BY <2>2, <3>1, SpliceAtTypes
  <2>6. SplicedOnce(now, site) \in Seq(Line) /\ Len(SplicedOnce(now, site)) = Len(now)
    BY <2>2, <2>3, <2>5, ExceptSeq DEF SplicedOnce
  <2> QED
    BY <2>3, <2>4, <2>6
<1>4. SUBSET sites \subseteq P
  <2> HIDE DEF P
  <2> QED
    BY <1>2, <1>3, EveryPart
<1> QED
  BY <1>4 DEF F, LinesLike

LEMMA PiecesTypes ==
  ASSUME NEW file \in Files
  PROVE  Pieces(file) \in Seq(Line) /\ DOMAIN Pieces(file) = 1 .. Len(Pieces(file))
<1>1. file.lines \in Seq(Line) /\ Blank \in Line
  BY DEF Files, Blank, Line
<1>2. Append(file.lines, Blank) \in Seq(Line)
  BY <1>1, AppendProperties
<1>3. Pieces(file) \in Seq(Line)
  BY <1>1, <1>2 DEF Pieces
<1> QED
  BY <1>3, LenProperties

LEMMA SplicedTypes ==
  ASSUME NEW path, NEW file \in Files, NEW sites, sites \subseteq SitesIn(path),
         \A site \in sites : site.line \in DOMAIN Pieces(file)
  PROVE  Spliced(file, sites) \in Files
<1> DEFINE end == Splice(Pieces(file), sites)[sites]
<1>1. sites \in SUBSET sites
  OBVIOUS
<1>2. end \in Seq(Line)
  BY <1>1, PiecesTypes, SpliceTypes DEF LinesLike
<1> HIDE DEF end
<1>3. Joined(end, FALSE) \in Files
  BY <1>2, JoinedTypes
<1> QED
  BY <1>3 DEF Spliced, end

-----------------------------------------------------------------------------
(* The invariant: every path holds nothing, a directory or a file as it is *)
(* read, every section of the patch is one the agent could write, and what *)
(* it was told of references names places within a file's bounds.          *)

SmallTree == Small(tree)
WorktreeInv == TreeOK /\ SmallTree /\ PatchOK /\ ReferencesOK

LEMMA PutKeeps ==
  ASSUME TreeOK, SmallTree, NEW path \in Paths, NEW entry \in Contents,
         IsFile(entry) => Short(entry.lines), tree' = [tree EXCEPT ![path] = entry]
  PROVE  TreeOK' /\ SmallTree'
<1>1. tree' \in [Paths -> Contents]
  BY DEF TreeOK
<1>2. \A p \in Paths : tree'[p] = IF p = path THEN entry ELSE tree[p]
  BY DEF TreeOK
<1>3. \A p \in Paths : IsFile(tree[p]) => Short(tree[p].lines)
  BY DEF SmallTree, Small
<1>4. \A p \in Paths : IsFile(tree'[p]) => Short(tree'[p].lines)
  BY <1>2, <1>3
<1> QED
  BY <1>1, <1>4 DEF TreeOK, SmallTree, Small

LEMMA WrittenTexts ==
  ASSUME NEW text \in Texts
  PROVE  Written(text) \in Files /\ Short(Written(text).lines)
<1>1. text \in Seq(Line) /\ Short(text)
  BY TreeAssumption DEF TreeAssumption
<1> QED
  BY <1>1, WrittenTypes

LEMMA UnendedTexts ==
  ASSUME NEW text \in Texts, Unended(text)
  PROVE  File(text, FALSE) \in Files /\ Short(File(text, FALSE).lines)
<1>1. text \in Seq(Line) /\ Short(text)
  BY TreeAssumption DEF TreeAssumption
<1>2. Ended(text, FALSE)
  BY DEF Unended, Ended, Last
<1>3. File(text, FALSE).lines = text
  BY DEF File
<1> QED
  BY <1>1, <1>2, <1>3, FileTypes

LEMMA WorktreeInit == Init => WorktreeInv
<1> SUFFICES ASSUME Init PROVE WorktreeInv
  OBVIOUS
<1>1. \A text \in Texts : Written(text) \in Contents /\ Short(Written(text).lines)
  BY WrittenTexts DEF Contents
<1>2. Absent \in Contents /\ ~IsFile(Absent)
  BY DEF Contents, Absent, IsFile
<1> DEFINE Broken == {File(text, FALSE) : text \in {t \in Texts : Unended(t)}}
<1>3. tree \in [Paths -> {Written(text) : text \in Texts} \cup {Absent} \cup Broken]
  BY DEF Init
<1>7. \A entry \in Broken : entry \in Contents /\ Short(entry.lines)
  BY UnendedTexts DEF Contents
<1> HIDE DEF Broken
<1>4. \A path \in Paths : tree[path] \in Contents /\ (IsFile(tree[path]) => Short(tree[path].lines))
  <2> SUFFICES ASSUME NEW path \in Paths
               PROVE  tree[path] \in Contents /\ (IsFile(tree[path]) => Short(tree[path].lines))
    OBVIOUS
  <2>1. tree[path] \in {Written(text) : text \in Texts} \cup {Absent} \cup Broken
    BY <1>3
  <2>2. tree[path] = Absent \/ tree[path] \in Broken \/ \E text \in Texts : tree[path] = Written(text)
    BY <2>1
  <2> QED
    BY <1>1, <1>2, <1>7, <2>2
<1>5. TreeOK /\ SmallTree
  BY <1>3, <1>4 DEF TreeOK, SmallTree, Small
<1>6. patch = <<>> /\ references = {}
  BY DEF Init
<1> QED
  BY <1>5, <1>6 DEF WorktreeInv, PatchOK, ReferencesOK

LEMMA MoveKeeps ==
  ASSUME TreeOK, SmallTree, NEW source \in Paths, NEW destination \in Paths,
         Move(source, destination)
  PROVE  TreeOK' /\ SmallTree'
<1>1. Absent \in Contents /\ ~IsFile(Absent)
  BY DEF Contents, Absent, IsFile
<1>2. CASE UNCHANGED tree
  BY <1>2 DEF TreeOK, SmallTree, Small
<1>3. CASE tree' = [tree EXCEPT ![source] = Absent]
  BY <1>1, <1>3, PutKeeps
<1>4. CASE tree' = [tree EXCEPT ![destination] = tree[source], ![source] = Absent]
  <2>1. tree' \in [Paths -> Contents]
    BY <1>1, <1>4 DEF TreeOK
  <2>2. \A p \in Paths : tree'[p] \in {Absent, tree[source], tree[p]}
    BY <1>4 DEF TreeOK
  <2>3. \A p \in Paths : IsFile(tree[p]) => Short(tree[p].lines)
    BY DEF SmallTree, Small
  <2>4. \A p \in Paths : IsFile(tree'[p]) => Short(tree'[p].lines)
    BY <1>1, <2>2, <2>3
  <2> QED
    BY <2>1, <2>4 DEF TreeOK, SmallTree, Small
<1> QED
  BY <1>2, <1>3, <1>4 DEF Move, Put, Untouched

LEMMA ApplyPatchKeeps ==
  ASSUME WorktreeInv, ApplyPatch
  PROVE  TreeOK' /\ SmallTree'
<1>1. CASE ~\A i \in DOMAIN patch : Plannable(patch[i])
  BY <1>1 DEF ApplyPatch, Untouched, WorktreeInv, TreeOK, SmallTree, Small
<1>2. CASE \A i \in DOMAIN patch : Plannable(patch[i])
  <2>1. tree' = Commit(patch).files /\ Small(tree')
    BY <1>2 DEF ApplyPatch
  <2>2. Len(patch) \in 0 .. Len(patch)
    BY LenProperties DEF WorktreeInv, PatchOK
  <2>3. Committed(patch)[Len(patch)].files \in [Paths -> Contents]
    BY <1>2, <2>2, CommittedTypes DEF WorktreeInv
  <2>4. tree' \in [Paths -> Contents]
    BY <2>1, <2>3 DEF Commit
  <2> QED
    BY <2>1, <2>4 DEF TreeOK, SmallTree, Small
<1> QED
  BY <1>1, <1>2

LEMMA SitesOfOne ==
  ASSUME ReferencesOK, NEW path \in Paths
  PROVE  SitesOf(path) \subseteq SitesIn(path)
BY DEF ReferencesOK, SitesOf, SitesIn

LEMMA RenameKeeps ==
  ASSUME WorktreeInv, RenameSymbol
  PROVE  TreeOK' /\ SmallTree'
<1> DEFINE renamed == [path \in Paths |-> IF SitesOf(path) = {} THEN tree[path]
                                          ELSE Spliced(tree[path], SitesOf(path))]
           found == \A site \in references :
                       /\ IsFile(tree[site.path])
                       /\ site.line \in DOMAIN Pieces(tree[site.path])
<1>1. CASE ~found
  BY <1>1 DEF RenameSymbol, Untouched, WorktreeInv, TreeOK, SmallTree, Small
<1>2. CASE found
  <2>1. tree' = renamed /\ Small(tree')
    BY <1>2 DEF RenameSymbol
  <2>2. ASSUME NEW path \in Paths, SitesOf(path) # {}
        PROVE  Spliced(tree[path], SitesOf(path)) \in Contents
    <3>1. \A site \in SitesOf(path) : site \in references /\ site.path = path
      BY DEF SitesOf
    <3>2. IsFile(tree[path]) /\ \A site \in SitesOf(path) : site.line \in DOMAIN Pieces(tree[path])
      BY <1>2, <2>2, <3>1
    <3>3. tree[path] \in Files
      BY <3>2, FileKind DEF WorktreeInv, TreeOK
    <3>4. SitesOf(path) \subseteq SitesIn(path)
      BY SitesOfOne DEF WorktreeInv
    <3>5. Spliced(tree[path], SitesOf(path)) \in Files
      BY <3>2, <3>3, <3>4, SplicedTypes
    <3> QED
      BY <3>5 DEF Contents
  <2>3. \A path \in Paths : tree[path] \in Contents
    BY DEF WorktreeInv, TreeOK
  <2>4. renamed \in [Paths -> Contents]
    BY <2>2, <2>3
  <2> HIDE DEF renamed
  <2>5. tree' \in [Paths -> Contents]
    BY <2>1, <2>4
  <2> QED
    BY <2>1, <2>5 DEF TreeOK, SmallTree, Small
<1> QED
  BY <1>1, <1>2

LEMMA WorktreeStep == WorktreeInv /\ [Next]_vars => WorktreeInv'
<1> SUFFICES ASSUME WorktreeInv, [Next]_vars PROVE WorktreeInv'
  OBVIOUS
<1>0. TreeOK /\ SmallTree /\ PatchOK /\ ReferencesOK
  BY DEF WorktreeInv
<1>1. UNCHANGED patch => PatchOK'
  BY <1>0 DEF PatchOK
<1>2. UNCHANGED references => ReferencesOK'
  BY <1>0 DEF ReferencesOK
<1>3. UNCHANGED tree => TreeOK' /\ SmallTree'
  BY <1>0 DEF TreeOK, SmallTree, Small
<1>4. ASSUME NEW path \in Paths, NEW text \in Texts, WriteFile(path, text)
      PROVE  WorktreeInv'
  <2>1. Written(text) \in Contents /\ Short(Written(text).lines)
    BY WrittenTexts DEF Contents
  <2>2. UNCHANGED tree \/ tree' = [tree EXCEPT ![path] = Written(text)]
    BY <1>4 DEF WriteFile, Put, Untouched
  <2>3. TreeOK' /\ SmallTree'
    BY <1>0, <1>3, <2>1, <2>2, PutKeeps
  <2> QED
    BY <1>1, <1>2, <1>4, <2>3 DEF WriteFile, WorktreeInv
<1>5. ASSUME NEW path \in Paths, DeletePath(path) \/ Mkdir(path)
      PROVE  WorktreeInv'
  <2>1. Absent \in Contents /\ Dir \in Contents /\ ~IsFile(Absent) /\ ~IsFile(Dir)
    BY DEF Contents, Absent, Dir, IsFile
  <2>2. \/ UNCHANGED tree \/ tree' = [tree EXCEPT ![path] = Absent]
        \/ tree' = [tree EXCEPT ![path] = Dir]
    BY <1>5 DEF DeletePath, Mkdir, Put, Untouched
  <2>3. TreeOK' /\ SmallTree'
    BY <1>0, <1>3, <2>1, <2>2, PutKeeps
  <2> QED
    BY <1>1, <1>2, <1>5, <2>3 DEF DeletePath, Mkdir, WorktreeInv
<1>6. ASSUME NEW source \in Paths, NEW destination \in Paths, Move(source, destination)
      PROVE  WorktreeInv'
  <2>1. TreeOK' /\ SmallTree'
    BY <1>0, <1>6, MoveKeeps
  <2> QED
    BY <1>1, <1>2, <1>6, <2>1 DEF Move, WorktreeInv
<1>7. CASE Draft
  <2>1. PICK path \in Paths, goal \in Texts : \E section \in Sections(path, goal) :
                patch' = Append(patch, section)
    BY <1>7 DEF Draft
  <2>2. PICK section \in Sections(path, goal) : patch' = Append(patch, section)
    BY <2>1
  <2>3. section \in DraftedSections
    BY <1>0, SectionsDrafted
  <2>4. PatchOK'
    BY <1>0, <2>2, <2>3, AppendProperties DEF PatchOK
  <2> QED
    BY <1>2, <1>3, <1>7, <2>4 DEF Draft, WorktreeInv
<1>8. CASE StartOver
  <2>1. PatchOK'
    BY <1>8 DEF StartOver, PatchOK
  <2> QED
    BY <1>2, <1>3, <1>8, <2>1 DEF StartOver, WorktreeInv
<1>9. CASE ApplyPatch
  <2>1. TreeOK' /\ SmallTree'
    BY <1>9, ApplyPatchKeeps
  <2> QED
    BY <1>1, <1>2, <1>9, <2>1 DEF ApplyPatch, WorktreeInv
<1>10. CASE FindReferences
  <2>1. Sites(tree) \subseteq SiteSet
    BY DEF Sites, SiteSet
  <2>2. ReferencesOK'
    BY <1>10, <2>1 DEF FindReferences, ReferencesOK
  <2> QED
    BY <1>1, <1>3, <1>10, <2>2 DEF FindReferences, WorktreeInv
<1>11. CASE RenameSymbol
  <2>1. TreeOK' /\ SmallTree'
    BY <1>11, RenameKeeps
  <2> QED
    BY <1>1, <1>2, <1>11, <2>1 DEF RenameSymbol, WorktreeInv
<1>12. CASE UNCHANGED vars
  BY <1>1, <1>2, <1>3, <1>12 DEF vars, WorktreeInv
<1> QED
  BY <1>4, <1>5, <1>6, <1>7, <1>8, <1>9, <1>10, <1>11, <1>12 DEF Next

(* Every path holds what a path can hold, every section of the patch is    *)
(* well formed, and the references name places within the bounds.          *)
THEOREM WorktreeTypes == Spec => []WorktreeInv
BY WorktreeInit, WorktreeStep, PTL DEF Spec

-----------------------------------------------------------------------------
(* A tool that answers with a refusal has changed no file.                 *)
THEOREM RefusalsChangeNothing == Spec => RefusalChangesNothing
<1>1. [Next]_vars => (report'.how = "refused" => UNCHANGED tree)
  <2>1. "ok" # "refused" /\ "escaped" # "refused"
    OBVIOUS
  <2>2. \A tool, how : Ends(tool, how) => report'.how = how
    BY DEF Ends
  <2>3. ASSUME NEW path \in Paths, NEW text \in Texts, WriteFile(path, text)
        PROVE  report'.how = "refused" => UNCHANGED tree
    BY <2>2, <2>3 DEF WriteFile, Untouched
  <2>4. ASSUME NEW path \in Paths, DeletePath(path) \/ Mkdir(path)
        PROVE  report'.how = "refused" => UNCHANGED tree
    BY <2>2, <2>4 DEF DeletePath, Mkdir, Untouched
  <2>5. ASSUME NEW source \in Paths, NEW destination \in Paths, Move(source, destination)
        PROVE  report'.how = "refused" => UNCHANGED tree
    BY <2>2, <2>5 DEF Move, Untouched
  <2>6. ApplyPatch => (report'.how = "refused" => UNCHANGED tree)
    BY <2>1, <2>2 DEF ApplyPatch, Untouched
  <2>7. RenameSymbol => (report'.how = "refused" => UNCHANGED tree)
    BY <2>1, <2>2 DEF RenameSymbol, Untouched
  <2>8. Draft \/ StartOver \/ FindReferences \/ UNCHANGED vars => UNCHANGED tree
    BY DEF Draft, StartOver, FindReferences, vars
  <2> QED
    BY <2>3, <2>4, <2>5, <2>6, <2>7, <2>8 DEF Next
<1> QED
  BY <1>1, PTL DEF Spec, RefusalChangesNothing


-----------------------------------------------------------------------------
(* A call of a tool is a step of that tool's action.                       *)
LEMMA PatchCalled == [Next]_vars /\ Called("apply_patch") => ApplyPatch
<1> SUFFICES ASSUME [Next]_vars, Called("apply_patch") PROVE ApplyPatch
  OBVIOUS
<1>1. \A tool, how : Ends(tool, how) => report'.tool = tool
  BY DEF Ends
<1>2. report'.tool = "apply_patch" /\ tools' # tools
  BY DEF Called
<1>3. ~ \E path \in Paths, text \in Texts : WriteFile(path, text)
  BY <1>1, <1>2 DEF WriteFile, Untouched
<1>4. ~ \E path \in Paths : DeletePath(path) \/ Mkdir(path)
  BY <1>1, <1>2 DEF DeletePath, Mkdir, Untouched
<1>5. ~ \E source, destination \in Paths : Move(source, destination)
  BY <1>1, <1>2 DEF Move, Untouched
<1>6. ~Draft /\ ~StartOver /\ ~FindReferences /\ ~UNCHANGED vars
  BY <1>1, <1>2 DEF Draft, StartOver, FindReferences, vars
<1>7. ~RenameSymbol
  BY <1>1, <1>2 DEF RenameSymbol, Untouched
<1> QED
  BY <1>3, <1>4, <1>5, <1>6, <1>7 DEF Next

(* Every section can be planned only when every hunk of a change stands    *)
(* where it says.                                                          *)
Standings ==
  \A i \in DOMAIN patch : patch[i].kind = "change" =>
     /\ IsFile(tree[patch[i].path])
     /\ \A h \in DOMAIN patch[i].hunks :
           Stands(patch[i].hunks[h], tree[patch[i].path].lines)

LEMMA PlannableStands ==
  ASSUME WorktreeInv, NEW i \in DOMAIN patch, patch[i].kind = "change", Plannable(patch[i])
  PROVE  /\ IsFile(tree[patch[i].path])
         /\ \A h \in DOMAIN patch[i].hunks :
               Stands(patch[i].hunks[h], tree[patch[i].path].lines)
<1> DEFINE section == patch[i]
           file == tree[section.path]
<1>1. section \in DraftedSections
  BY ElementOfSeq DEF WorktreeInv, PatchOK
<1>2. section.hunks \in Seq(Hunk) /\ section.path \in Paths
  BY <1>1 DEF DraftedSections
<1>3. IsFile(file) /\ ApplyHunks(file, section.hunks).fits
  BY DEF Plannable
<1>4. file \in Contents
  BY <1>2 DEF WorktreeInv, TreeOK
<1>5. file.lines \in Seq(Line)
  BY <1>3, <1>4, FileKind
<1> HIDE DEF section, file
<1>6. Fitting(Applied(file.lines, section.hunks)[Len(section.hunks)])
  BY <1>3 DEF ApplyHunks, Fitting
<1>7. \A h \in DOMAIN section.hunks : Stands(section.hunks[h], file.lines)
  BY <1>2, <1>5, <1>6, HunksStand
<1> QED
  BY <1>3, <1>7 DEF section, file

LEMMA RefusedUnlessStanding ==
  WorktreeInv /\ ApplyPatch /\ ~Standings => report'.how = "refused"
<1> SUFFICES ASSUME WorktreeInv, ApplyPatch, ~Standings
             PROVE  report'.how = "refused"
  OBVIOUS
<1>1. ~ \A i \in DOMAIN patch : Plannable(patch[i])
  BY PlannableStands DEF Standings
<1>2. Untouched("apply_patch", "refused")
  BY <1>1 DEF ApplyPatch
<1> QED
  BY <1>2 DEF Untouched, Ends

(* A patch some hunk of which does not find its old lines where it says is *)
(* refused.                                                                *)
THEOREM PatchesApplyWhereTheyStand == Spec => AppliedWhereItStands
<1>1. WorktreeInv /\ [Next]_vars => (Called("apply_patch") /\ ~Standings => report'.how = "refused")
  BY PatchCalled, RefusedUnlessStanding
<1> QED
  BY <1>1, WorktreeTypes, PTL DEF Spec, AppliedWhereItStands, Standings

-----------------------------------------------------------------------------
(* Pieces of sequences: adjacent ones, pieces of pieces.                   *)

LEMMA CutsJoin ==
  ASSUME NEW S, NEW s \in Seq(S), NEW a \in Nat, NEW b \in Nat, NEW c \in Nat,
         a <= b, b <= c, c <= Len(s)
  PROVE  SubSeq(s, a + 1, b) \o SubSeq(s, b + 1, c) = SubSeq(s, a + 1, c)
<1>1. Len(s) \in Nat
  OBVIOUS
<1>2. a + 1 \in 1 .. Len(s) + 1 /\ b \in (a + 1) - 1 .. Len(s) /\ c \in b .. Len(s)
  BY <1>1
<1> QED
  BY <1>2, ConcatAdjacentSubSeq

LEMMA CutOfCut ==
  ASSUME NEW S, NEW s \in Seq(S), NEW from \in Nat, NEW to \in Nat, from <= to, to <= Len(s),
         NEW piece, piece = SubSeq(s, from + 1, to),
         NEW a \in Nat, NEW b \in Nat, a <= b, b <= to - from
  PROVE  /\ SubSeq(piece, a + 1, b) = SubSeq(s, from + a + 1, from + b)
         /\ piece \in Seq(S) /\ Len(piece) = to - from
<1>1. to \in 0 .. Len(s) /\ from + a \in Nat /\ from + b \in 0 .. Len(s)
  OBVIOUS
<1>2. /\ piece \in Seq(S) /\ Len(piece) = to - from
      /\ \A i \in 1 .. to - from : piece[i] = s[from + i]
  BY <1>1, PieceTypes
<1>3. b \in 0 .. Len(piece)
  BY <1>2
<1>4. /\ SubSeq(piece, a + 1, b) \in Seq(S) /\ Len(SubSeq(piece, a + 1, b)) = b - a
      /\ \A i \in 1 .. b - a : SubSeq(piece, a + 1, b)[i] = piece[a + i]
  BY <1>2, <1>3, PieceTypes
<1>5. /\ SubSeq(s, (from + a) + 1, from + b) \in Seq(S)
      /\ Len(SubSeq(s, (from + a) + 1, from + b)) = b - a
      /\ \A i \in 1 .. b - a : SubSeq(s, (from + a) + 1, from + b)[i] = s[from + a + i]
  <2>1. (from + b) - (from + a) = b - a /\ from + a <= from + b
    OBVIOUS
  <2> QED
    BY <1>1, <2>1, PieceTypes
<1>6. \A i \in 1 .. b - a : SubSeq(piece, a + 1, b)[i] = SubSeq(s, (from + a) + 1, from + b)[i]
  <2>1. \A i \in 1 .. b - a : a + i \in 1 .. to - from /\ from + (a + i) = from + a + i
    OBVIOUS
  <2> QED
    BY <1>2, <1>4, <1>5, <2>1
<1>7. SubSeq(piece, a + 1, b) = SubSeq(s, (from + a) + 1, from + b)
  BY <1>4, <1>5, <1>6, SeqEqual
<1> QED
  BY <1>2, <1>7

LEMMA ConcatGrows ==
  ASSUME NEW S, NEW r \in Seq(S), NEW s \in Seq(S), NEW k \in Nat, k < Len(s)
  PROVE  /\ s[k + 1] \in S
         /\ Append(r \o SubSeq(s, 1, k), s[k + 1]) = r \o SubSeq(s, 1, k + 1)
<1>1. /\ SubSeq(s, 0 + 1, k) \in Seq(S) /\ s[k + 1] \in S
      /\ Append(SubSeq(s, 0 + 1, k), s[k + 1]) = SubSeq(s, 0 + 1, k + 1)
  BY PieceGrows
<1>2. /\ SubSeq(s, 1, k) \in Seq(S) /\ s[k + 1] \in S
      /\ Append(SubSeq(s, 1, k), s[k + 1]) = SubSeq(s, 1, k + 1)
  <2>1. 0 + 1 = 1
    OBVIOUS
  <2> QED
    BY <1>1, <2>1
<1> DEFINE p == SubSeq(s, 1, k)
           q == SubSeq(s, 1, k + 1)
           x == s[k + 1]
<1>3. p \in Seq(S) /\ x \in S /\ Append(p, x) = q
  BY <1>2
<1> HIDE DEF p, q, x
<1>4. Append(p, x) = p \o <<x>>
  BY <1>3, AppendIsConcat
<1>5. r \o p \in Seq(S) /\ <<x>> \in Seq(S)
  BY <1>3, ConcatProperties
<1>6. Append(r \o p, x) = (r \o p) \o <<x>>
  BY <1>3, <1>5, AppendIsConcat
<1>7. (r \o p) \o <<x>> = r \o (p \o <<x>>)
  BY <1>3, <1>5, ConcatAssociative
<1> QED
  BY <1>3, <1>4, <1>6, <1>7 DEF p, q, x

-----------------------------------------------------------------------------
(* A body that replaces lines by others: its entries one by one.           *)

\* Every one of the entries carries the tag.
Carries(entries, tag, count) == \A i \in 1 .. count : entries[i].tag = tag

LEMMA TaggedAt ==
  ASSUME NEW tag \in Tags, NEW lines \in Seq(Line), NEW count, count = Len(lines)
  PROVE  /\ Tagged(tag, lines) \in Seq(Entry) /\ Len(Tagged(tag, lines)) = count
         /\ Carries(Tagged(tag, lines), tag, count)
         /\ \A i \in 1 .. count : Tagged(tag, lines)[i].text = lines[i]
<1>1. DOMAIN lines = 1 .. Len(lines)
  OBVIOUS
<1>2. Carries(Tagged(tag, lines), tag, count)
  BY <1>1 DEF Tagged, Carries
<1>3. \A i \in 1 .. count : Tagged(tag, lines)[i].text = lines[i]
  BY <1>1 DEF Tagged
<1> QED
  BY <1>2, <1>3, TaggedTypes

BodyLength(old, new) == Len(old) + Len(new) - Shared(old, new)

LEMMA BodyEntries ==
  ASSUME NEW old \in Seq(Line), NEW new \in Seq(Line)
  PROVE  /\ Len(Body(old, new)) = BodyLength(old, new)
         /\ \A n \in Nat :
              /\ n < Shared(old, new) => /\ Body(old, new)[n + 1].tag = " "
                                         /\ Body(old, new)[n + 1].text = old[n + 1]
                                         /\ old[n + 1] = new[n + 1]
              /\ Shared(old, new) <= n /\ n < Len(old) =>
                                         /\ Body(old, new)[n + 1].tag = "-"
                                         /\ Body(old, new)[n + 1].text = old[n + 1]
              /\ Len(old) <= n /\ n < BodyLength(old, new) =>
                   /\ Body(old, new)[n + 1].tag = "+"
                   /\ Body(old, new)[n + 1].text = new[(Shared(old, new) + n - Len(old)) + 1]
<1> DEFINE c == Shared(old, new)
           P == SubSeq(old, 1, c)
           Q == SubSeq(old, c + 1, Len(old))
           R == SubSeq(new, c + 1, Len(new))
           X == Tagged(" ", P)
           Y == Tagged("-", Q)
           Z == Tagged("+", R)
<1>1. c \in Nat /\ c <= Len(old) /\ c <= Len(new) /\ Len(old) \in Nat /\ Len(new) \in Nat
      /\ P = SubSeq(new, 1, c)
  BY SharedStart
<1> HIDE DEF c
<1>2. /\ P \in Seq(Line) /\ Len(P) = c /\ \A i \in 1 .. c : P[i] = old[i] /\ P[i] = new[i]
  <2>1. /\ SubSeq(old, 0 + 1, c) \in Seq(Line) /\ Len(SubSeq(old, 0 + 1, c)) = c - 0
        /\ \A i \in 1 .. c - 0 : SubSeq(old, 0 + 1, c)[i] = old[0 + i]
    <3>1. c \in 0 .. Len(old) /\ 0 <= c
      BY <1>1
    <3> QED
      BY <3>1, PieceTypes
  <2>2. \A i \in 1 .. c - 0 : SubSeq(new, 0 + 1, c)[i] = new[0 + i]
    <3>1. c \in 0 .. Len(new)
      BY <1>1
    <3> QED
      BY <3>1, PieceTypes
  <2>3. 0 + 1 = 1 /\ c - 0 = c /\ \A i \in 1 .. c : 0 + i = i
    BY <1>1
  <2> QED
    BY <1>1, <2>1, <2>2, <2>3
<1>3. /\ Q \in Seq(Line) /\ Len(Q) = Len(old) - c
      /\ \A i \in 1 .. Len(old) - c : Q[i] = old[c + i]
  <2>1. Len(old) \in 0 .. Len(old)
    BY <1>1
  <2> QED
    BY <1>1, <2>1, PieceTypes
<1>4. /\ R \in Seq(Line) /\ Len(R) = Len(new) - c
      /\ \A i \in 1 .. Len(new) - c : R[i] = new[c + i]
  <2>1. Len(new) \in 0 .. Len(new)
    BY <1>1
  <2> QED
    BY <1>1, <2>1, PieceTypes
<1> HIDE DEF P, Q, R
<1>5. " " \in Tags /\ "-" \in Tags /\ "+" \in Tags
  BY DEF Tags
<1>6. /\ X \in Seq(Entry) /\ Len(X) = c /\ Carries(X, " ", c)
      /\ \A i \in 1 .. c : X[i].text = P[i]
  BY <1>2, <1>5, TaggedAt
<1>7. /\ Y \in Seq(Entry) /\ Len(Y) = Len(old) - c /\ Carries(Y, "-", Len(old) - c)
      /\ \A i \in 1 .. Len(old) - c : Y[i].text = Q[i]
  BY <1>3, <1>5, TaggedAt
<1>8. /\ Z \in Seq(Entry) /\ Len(Z) = Len(new) - c /\ Carries(Z, "+", Len(new) - c)
      /\ \A i \in 1 .. Len(new) - c : Z[i].text = R[i]
  BY <1>4, <1>5, TaggedAt
<1>9. Body(old, new) = (X \o Y) \o Z
  BY DEF Body, P, Q, R, c
<1> HIDE DEF X, Y, Z
<1>10. /\ X \o Y \in Seq(Entry) /\ Len(X \o Y) = Len(old)
       /\ \A i \in 1 .. Len(old) : (X \o Y)[i] = IF i <= c THEN X[i] ELSE Y[i - c]
  <2>1. c + (Len(old) - c) = Len(old)
    BY <1>1
  <2>2. X \in Seq(Entry) /\ Y \in Seq(Entry) /\ Len(X) = c /\ Len(Y) = Len(old) - c
    BY <1>6, <1>7
  <2>3. /\ X \o Y \in Seq(Entry) /\ Len(X \o Y) = Len(X) + Len(Y)
        /\ \A i \in 1 .. Len(X) + Len(Y) : (X \o Y)[i] = IF i <= Len(X) THEN X[i] ELSE Y[i - Len(X)]
    BY <2>2, ConcatProperties
  <2>4. Len(X) + Len(Y) = Len(old)
    BY <2>1, <2>2
  <2> QED
    BY <2>2, <2>3, <2>4
<1> DEFINE W == X \o Y
           m == Len(old) + (Len(new) - c)
<1> HIDE DEF W
<1>11. /\ Len(W \o Z) = m
       /\ \A i \in 1 .. m : (W \o Z)[i] = IF i <= Len(old) THEN W[i] ELSE Z[i - Len(old)]
  BY <1>8, <1>10, ConcatProperties DEF W
<1>12. m = BodyLength(old, new) /\ m \in Nat
  BY <1>1 DEF BodyLength, c
<1>13. ASSUME NEW n \in Nat, n < c
       PROVE  /\ (W \o Z)[n + 1].tag = " " /\ (W \o Z)[n + 1].text = old[n + 1]
              /\ old[n + 1] = new[n + 1]
  <2>1. n + 1 \in 1 .. m /\ n + 1 <= Len(old) /\ n + 1 \in 1 .. Len(old) /\ n + 1 <= c
        /\ n + 1 \in 1 .. c
    BY <1>1, <1>13
  <2>2. (W \o Z)[n + 1] = X[n + 1]
    BY <1>10, <1>11, <2>1 DEF W
  <2> QED
    BY <1>2, <1>6, <2>1, <2>2 DEF Carries
<1>14. ASSUME NEW n \in Nat, c <= n, n < Len(old)
       PROVE  (W \o Z)[n + 1].tag = "-" /\ (W \o Z)[n + 1].text = old[n + 1]
  <2>1. n + 1 \in 1 .. m /\ n + 1 <= Len(old) /\ n + 1 \in 1 .. Len(old) /\ ~(n + 1 <= c)
        /\ (n + 1) - c \in 1 .. Len(old) - c /\ c + ((n + 1) - c) = n + 1
    BY <1>1, <1>14
  <2>2. (W \o Z)[n + 1] = Y[(n + 1) - c]
    BY <1>10, <1>11, <2>1 DEF W
  <2> QED
    BY <1>3, <1>7, <2>1, <2>2 DEF Carries
<1>15. ASSUME NEW n \in Nat, Len(old) <= n, n < m
       PROVE  (W \o Z)[n + 1].tag = "+" /\ (W \o Z)[n + 1].text = new[(c + n - Len(old)) + 1]
  <2>1. n + 1 \in 1 .. m /\ ~(n + 1 <= Len(old))
        /\ (n + 1) - Len(old) \in 1 .. Len(new) - c
        /\ c + ((n + 1) - Len(old)) = (c + n - Len(old)) + 1
    BY <1>1, <1>15
  <2>2. (W \o Z)[n + 1] = Z[(n + 1) - Len(old)]
    BY <1>11, <2>1
  <2> QED
    BY <1>4, <1>8, <2>1, <2>2 DEF Carries
<1>16. Body(old, new) = W \o Z
  BY <1>9 DEF W
<1> HIDE DEF m
<1>17. \A n \in Nat : n < BodyLength(old, new) => n < m
  BY <1>12
<1> QED
  BY <1>11, <1>12, <1>13, <1>14, <1>15, <1>16 DEF c

-----------------------------------------------------------------------------
(* A hunk whose old lines stand where it says replaces them by the new.    *)

\* The lines kept or added once n entries of a body are consumed.
Said(old, new, n) ==
  IF n <= Shared(old, new) THEN n
  ELSE IF n <= Len(old) THEN Shared(old, new)
  ELSE Shared(old, new) + n - Len(old)

\* The old lines consumed once n entries are.
Read(old, n) == IF n <= Len(old) THEN n ELSE Len(old)

\* The old lines are the next ones of the file.
Ahead(state, old) ==
  /\ state.cursor + Len(old) <= Len(state.lines)
  /\ \A i \in 1 .. Len(old) : state.lines[state.cursor + i] = old[i]

Progress(state, now, old, new, n) ==
  /\ now \in State /\ now.lines = state.lines /\ Fitting(now)
  /\ now.cursor = state.cursor + Read(old, n)
  /\ now.result = state.result \o SubSeq(new, 1, Said(old, new, n))

\* What the entry after n others of a body is.
Tells(old, new, n, entry) ==
  /\ n < Shared(old, new) => entry.tag = " " /\ entry.text = old[n + 1] /\ old[n + 1] = new[n + 1]
  /\ Shared(old, new) <= n /\ n < Len(old) => entry.tag = "-" /\ entry.text = old[n + 1]
  /\ Len(old) <= n => /\ entry.tag = "+"
                      /\ entry.text = new[(Shared(old, new) + n - Len(old)) + 1]

LEMMA SharedBounds ==
  ASSUME NEW old \in Seq(Line), NEW new \in Seq(Line)
  PROVE  /\ Shared(old, new) \in Nat /\ Shared(old, new) <= Len(old)
         /\ Shared(old, new) <= Len(new) /\ Len(old) \in Nat /\ Len(new) \in Nat
BY SharedStart

LEMMA ProgressMade ==
  ASSUME NEW state \in State, NEW old \in Seq(Line), NEW new \in Seq(Line),
         NEW n \in Nat, NEW m \in Nat, m = BodyLength(old, new), n < m,
         Ahead(state, old),
         NEW prev, Progress(state, prev, old, new, n),
         NEW entry \in Entry, Tells(old, new, n, entry)
  PROVE  Progress(state, Consume(prev, entry), old, new, n + 1)
<1> DEFINE c == Shared(old, new)
           next == Consume(prev, entry)
<1>1. /\ c \in Nat /\ c <= Len(old) /\ c <= Len(new) /\ Len(old) \in Nat /\ Len(new) \in Nat
      /\ state.cursor \in Nat /\ Len(state.lines) \in Nat
      /\ state.cursor + Len(old) <= Len(state.lines)
  <2>1. state.cursor \in Nat /\ Len(state.lines) \in Nat
    BY DEF State
  <2>2. state.cursor + Len(old) <= Len(state.lines)
    BY DEF Ahead
  <2> QED
    BY <2>1, <2>2, SharedBounds
<1>0. \A i, j \in Nat : (i + j) + 1 = i + (j + 1)
  OBVIOUS
<1>2. prev \in State /\ prev.lines = state.lines /\ prev.cursor = state.cursor + Read(old, n)
  BY DEF Progress
<1>3. prev.result = state.result \o SubSeq(new, 1, Said(old, new, n))
  BY DEF Progress
<1>4. Fitting(prev) /\ state.result \in Seq(Line)
  <2>1. Fitting(prev)
    BY DEF Progress
  <2>2. state.result \in Seq(Line)
    BY DEF State
  <2> QED
    BY <2>1, <2>2
<1>5. CASE n < c
  <2>1. entry.tag = " "
    BY <1>5 DEF Tells
  <2>2. entry.text = old[n + 1] /\ old[n + 1] = new[n + 1]
    BY <1>5 DEF Tells
  <2>3. /\ Said(old, new, n) = n /\ Said(old, new, n + 1) = n + 1
        /\ Read(old, n) = n /\ Read(old, n + 1) = n + 1 /\ n < Len(new) /\ n < Len(old)
    BY <1>1, <1>5 DEF Said, Read
  <2>4. prev.cursor = state.cursor + n /\ prev.cursor < Len(prev.lines)
    BY <1>1, <1>2, <2>3
  <2>5. prev.lines[prev.cursor + 1] = entry.text
    <3>1. n + 1 \in 1 .. Len(old) /\ (state.cursor + n) + 1 = state.cursor + (n + 1)
      <4>1. n < Len(old) /\ Len(old) \in Nat
        BY <2>3, <1>1
      <4>2. n + 1 \in 1 .. Len(old)
        BY <4>1
      <4>3. state.cursor \in Nat
        BY <1>1
      <4>4. (state.cursor + n) + 1 = state.cursor + (n + 1)
        BY <1>0, <4>3
      <4> QED
        BY <4>2, <4>4
    <3>2. state.lines[state.cursor + (n + 1)] = old[n + 1]
      BY <3>1 DEF Ahead
    <3>3. prev.lines = state.lines /\ prev.cursor = state.cursor + n
      BY <1>2, <2>4
    <3> QED
      BY <2>2, <3>1, <3>2, <3>3
  <2>6. next \in State /\ next.lines = prev.lines /\ next.cursor = prev.cursor + 1
    BY <1>2, <2>1, ConsumeTakes
  <2>7. Fitting(next)
    BY <1>2, <1>4, <2>1, <2>4, <2>5, ConsumeTakes
  <2>8. next.result = Append(prev.result, entry.text)
    BY <1>2, <2>1, ConsumeTakes
  <2>9. Append(state.result \o SubSeq(new, 1, n), new[n + 1]) = state.result \o SubSeq(new, 1, n + 1)
    BY <1>4, <2>3, ConcatGrows
  <2>10. next.result = state.result \o SubSeq(new, 1, Said(old, new, n + 1))
    BY <1>3, <2>2, <2>3, <2>8, <2>9
  <2>11. next.cursor = state.cursor + Read(old, n + 1)
    BY <1>1, <2>3, <2>4, <2>6
  <2> HIDE DEF next
  <2> QED
    BY <1>2, <2>6, <2>7, <2>10, <2>11 DEF Progress, next
<1>6. CASE c <= n /\ n < Len(old)
  <2>1. entry.tag = "-"
    BY <1>6 DEF Tells
  <2>2. entry.text = old[n + 1]
    BY <1>6 DEF Tells
  <2>3. /\ Said(old, new, n) = c /\ Said(old, new, n + 1) = c
        /\ Read(old, n) = n /\ Read(old, n + 1) = n + 1
    BY <1>1, <1>6 DEF Said, Read
  <2>4. prev.cursor = state.cursor + n /\ prev.cursor < Len(prev.lines)
    BY <1>1, <1>2, <1>6, <2>3
  <2>5. prev.lines[prev.cursor + 1] = entry.text
    <3>1. n + 1 \in 1 .. Len(old) /\ (state.cursor + n) + 1 = state.cursor + (n + 1)
      BY <1>1, <1>6
    <3>2. state.lines[state.cursor + (n + 1)] = old[n + 1]
      BY <3>1 DEF Ahead
    <3>3. prev.lines = state.lines /\ prev.cursor = state.cursor + n
      BY <1>2, <2>4
    <3> QED
      BY <2>2, <3>1, <3>2, <3>3
  <2>6. next \in State /\ next.lines = prev.lines /\ next.cursor = prev.cursor + 1
    BY <1>2, <2>1, ConsumeTakes
  <2>7. Fitting(next)
    BY <1>2, <1>4, <2>1, <2>4, <2>5, ConsumeTakes
  <2>8. next.result = prev.result
    BY <1>2, <2>1, ConsumeTakes
  <2>10. next.result = state.result \o SubSeq(new, 1, Said(old, new, n + 1))
    BY <1>3, <2>3, <2>8
  <2>11. next.cursor = state.cursor + Read(old, n + 1)
    BY <1>1, <2>3, <2>4, <2>6
  <2> HIDE DEF next
  <2> QED
    BY <1>2, <2>6, <2>7, <2>10, <2>11 DEF Progress, next
<1>7. CASE Len(old) <= n
  <2> DEFINE k == c + n - Len(old)
  <2>1. entry.tag = "+"
    BY <1>7 DEF Tells
  <2>2. entry.text = new[k + 1]
    BY <1>7 DEF Tells
  <2>3. /\ Said(old, new, n) = k /\ Said(old, new, n + 1) = k + 1 /\ k \in Nat /\ k < Len(new)
        /\ Read(old, n) = Len(old) /\ Read(old, n + 1) = Len(old)
    BY <1>1, <1>7 DEF Said, Read, BodyLength
  <2> HIDE DEF k
  <2>4. next \in State /\ next.lines = prev.lines /\ next.cursor = prev.cursor
    BY <1>2, <2>1, ConsumeAdds
  <2>5. Fitting(next)
    BY <1>2, <1>4, <2>1, ConsumeAdds
  <2>6. next.result = Append(prev.result, entry.text)
    BY <1>2, <2>1, ConsumeAdds
  <2>7. Append(state.result \o SubSeq(new, 1, k), new[k + 1]) = state.result \o SubSeq(new, 1, k + 1)
    BY <1>4, <2>3, ConcatGrows
  <2>8. next.result = state.result \o SubSeq(new, 1, Said(old, new, n + 1))
    BY <1>3, <2>2, <2>3, <2>6, <2>7
  <2>9. next.cursor = state.cursor + Read(old, n + 1)
    BY <1>2, <2>3, <2>4
  <2> HIDE DEF next
  <2> QED
    BY <1>2, <2>4, <2>5, <2>8, <2>9 DEF Progress, next
<1> QED
  BY <1>1, <1>5, <1>6, <1>7

LEMMA BodyReplaces ==
  ASSUME NEW state \in State, Fitting(state), NEW old \in Seq(Line), NEW new \in Seq(Line),
         Ahead(state, old),
         NEW now, now = Consumed(state, Body(old, new))[Len(Body(old, new))]
  PROVE  /\ now \in State /\ now.lines = state.lines /\ Fitting(now)
         /\ now.cursor = state.cursor + Len(old) /\ now.result = state.result \o new
<1> DEFINE body == Body(old, new)
           F == Consumed(state, body)
           m == BodyLength(old, new)
           A == {n \in Nat : n <= m => Progress(state, F[n], old, new, n)}
<1>1. /\ Len(old) \in Nat /\ Len(new) \in Nat /\ Shared(old, new) \in Nat
      /\ Shared(old, new) <= Len(old) /\ Shared(old, new) <= Len(new) /\ state.cursor \in Nat
  <2>1. state.cursor \in Nat
    BY DEF State
  <2> QED
    BY <2>1, SharedStart
<1>2. body \in Seq(Entry) /\ Len(body) = m /\ m \in Nat
  <2>1. m \in Nat
    BY <1>1 DEF BodyLength
  <2>2. Len(body) = m
    BY BodyEntries
  <2> QED
    BY <2>1, <2>2, BodyTypes
<1> HIDE DEF m, body
<1>3. F[0] = state /\ \A n \in 1 .. m : F[n] = Consume(F[n - 1], body[n])
  BY <1>2, ConsumedUnrolls
<1> HIDE DEF F
<1>4. 0 \in A
  <2>1. Said(old, new, 0) = 0 /\ Read(old, 0) = 0 /\ state.cursor + 0 = state.cursor
    BY <1>1 DEF Said, Read
  <2>2. SubSeq(new, 1, 0) = <<>> /\ state.result \o <<>> = state.result
    <3>1. state.result \in Seq(Line)
      BY DEF State
    <3> QED
      BY <3>1, ConcatEmptySeq
  <2> QED
    BY <1>3, <2>1, <2>2 DEF Progress
<1>5. ASSUME NEW n \in Nat, n \in A
      PROVE  n + 1 \in A
  <2> SUFFICES ASSUME n + 1 <= m
               PROVE  Progress(state, F[n + 1], old, new, n + 1)
    OBVIOUS
  <2>1. n + 1 \in 1 .. m /\ (n + 1) - 1 = n /\ n <= m /\ n < m
    BY <1>2
  <2>2. F[n + 1] = Consume(F[n], body[n + 1])
    BY <1>3, <2>1
  <2>3. body[n + 1] \in Entry
    BY <1>2, <2>1, ElementOfSeq
  <2>4. Progress(state, F[n], old, new, n)
    BY <1>5, <2>1
  <2>5. n < m /\ m = BodyLength(old, new)
    BY <2>1 DEF m
  <2>6. Tells(old, new, n, body[n + 1])
    BY <2>5, BodyEntries DEF Tells, body
  <2>7. Progress(state, Consume(F[n], body[n + 1]), old, new, n + 1)
    BY <1>2, <2>3, <2>4, <2>5, <2>6, ProgressMade
  <2> QED
    BY <2>2, <2>7
<1>6. Nat \subseteq A
  <2> HIDE DEF A
  <2> QED
    BY <1>4, <1>5, EveryNatural
<1>7. Progress(state, F[m], old, new, m)
  BY <1>2, <1>6
<1>8. now = F[m]
  BY <1>2 DEF F, body
<1>9. Said(old, new, m) = Len(new) /\ Read(old, m) = Len(old)
  <2>1. m = Len(old) + Len(new) - Shared(old, new)
    BY DEF m, BodyLength
  <2>2. CASE m <= Len(old)
    <3>1. m = Len(old) /\ Shared(old, new) = Len(new)
      BY <1>1, <2>1, <2>2
    <3> QED
      BY <1>1, <3>1 DEF Said, Read
  <2>3. CASE ~(m <= Len(old))
    <3>1. ~(m <= Shared(old, new)) /\ Shared(old, new) + m - Len(old) = Len(new)
      BY <1>1, <2>1, <2>3
    <3> QED
      BY <2>3, <3>1 DEF Said, Read
  <2> QED
    BY <2>2, <2>3
<1>10. SubSeq(new, 1, Len(new)) = new
  BY SubSeqFull
<1> QED
  BY <1>7, <1>8, <1>9, <1>10 DEF Progress

-----------------------------------------------------------------------------
(* A hunk of a diff leaves the file, up to the end of what it was written  *)
(* for, as it was before plus the goal.                                    *)

Cat(x, y) == x \o y
Cut(s, a, b) == SubSeq(s, a + 1, b)

LEMMA CatAssociates ==
  ASSUME NEW S, NEW x \in Seq(S), NEW y \in Seq(S), NEW z \in Seq(S)
  PROVE  Cat(Cat(x, y), z) = Cat(x, Cat(y, z))
<1>1. (x \o y) \o z = x \o (y \o z)
  BY ConcatAssociative
<1> QED
  BY <1>1 DEF Cat

LEMMA Regrouped ==
  ASSUME NEW S, NEW a \in Seq(S), NEW b \in Seq(S), NEW c \in Seq(S), NEW d \in Seq(S),
         NEW e \in Seq(S)
  PROVE  Cat(Cat(Cat(a, Cat(b, c)), d), e) = Cat(Cat(a, b), Cat(Cat(c, d), e))
<1>1. \A x, y \in Seq(S) : Cat(x, y) \in Seq(S)
  BY ConcatProperties DEF Cat
<1>2. \A x, y, z \in Seq(S) : Cat(Cat(x, y), z) = Cat(x, Cat(y, z))
  BY CatAssociates
<1> DEFINE T == Seq(S)
<1>3. a \in T /\ b \in T /\ c \in T /\ d \in T /\ e \in T
  OBVIOUS
<1>4. /\ \A x, y \in T : Cat(x, y) \in T
      /\ \A x, y, z \in T : Cat(Cat(x, y), z) = Cat(x, Cat(y, z))
  BY <1>1, <1>2
<1> HIDE DEF T
<1>5. Cat(a, b) \in T /\ Cat(c, d) \in T /\ Cat(b, c) \in T
  BY <1>3, <1>4
<1> QED
  BY <1>3, <1>4, <1>5

\* The file's lines down to one of them, if no more is changed.
DownTo(state, line) == Cat(state.result, Cut(state.lines, state.cursor, line))

\* The file holds base after the lines above.
Holds(lines, above, base) ==
  above + Len(base) <= Len(lines) /\ base = SubSeq(lines, above + 1, above + Len(base))

LEMMA HeldPieces ==
  ASSUME NEW lines \in Seq(Line), NEW above \in Nat, NEW base \in Seq(Line),
         Holds(lines, above, base),
         NEW a \in Nat, NEW b \in Nat, a <= b, b <= Len(base)
  PROVE  SubSeq(base, a + 1, b) = SubSeq(lines, above + a + 1, above + b)
<1> DEFINE to == above + Len(base)
<1>1. Len(base) \in Nat
  OBVIOUS
<1>2. to \in Nat /\ above <= to /\ b <= to - above
  BY <1>1
<1>3. to <= Len(lines) /\ base = SubSeq(lines, above + 1, to)
  BY DEF Holds
<1> HIDE DEF to
<1> QED
  BY <1>2, <1>3, CutOfCut

(* Old lines that stand in the file are the next ones.                     *)
LEMMA PieceAhead ==
  ASSUME NEW state \in State, NEW stop \in Nat, state.cursor <= stop, stop <= Len(state.lines),
         NEW old, old = SubSeq(state.lines, state.cursor + 1, stop)
  PROVE  Ahead(state, old) /\ old \in Seq(Line) /\ state.cursor + Len(old) = stop
<1> DEFINE lines == state.lines
           at == state.cursor
<1>1. lines \in Seq(Line) /\ at \in Nat
  BY DEF State
<1>2. at <= stop /\ stop <= Len(lines) /\ old = SubSeq(lines, at + 1, stop)
  OBVIOUS
<1> HIDE DEF lines, at
<1>3. stop \in 0 .. Len(lines)
  BY <1>1, <1>2
<1> DEFINE piece == SubSeq(lines, at + 1, stop)
<1>4. /\ old \in Seq(Line) /\ Len(old) = stop - at
      /\ \A i \in 1 .. stop - at : old[i] = lines[at + i]
  <2>1. /\ piece \in Seq(Line) /\ Len(piece) = (IF at <= stop THEN stop - at ELSE 0)
        /\ \A i \in 1 .. stop - at : piece[i] = lines[at + i]
    BY <1>1, <1>3, PieceTypes
  <2>2. old = piece /\ at <= stop
    BY <1>2
  <2> HIDE DEF piece
  <2> QED
    BY <2>1, <2>2
<1>5. at + Len(old) = stop
  BY <1>1, <1>4
<1> QED
  BY <1>2, <1>4, <1>5 DEF Ahead, lines, at

IsText(lines) == lines \in Seq(Line)

(* The lemmas above, their hypotheses under one name each, which is how    *)
(* the provers find the instance that is meant.                            *)
Ordered(lines, a, b, c) ==
  /\ IsText(lines) /\ a \in Nat /\ b \in Nat /\ c \in Nat
  /\ a <= b /\ b <= c /\ c <= Len(lines)

LEMMA OrderedCutsJoin ==
  ASSUME NEW lines, NEW a, NEW b, NEW c, Ordered(lines, a, b, c)
  PROVE  Cat(Cut(lines, a, b), Cut(lines, b, c)) = Cut(lines, a, c)
<1>1. SubSeq(lines, a + 1, b) \o SubSeq(lines, b + 1, c) = SubSeq(lines, a + 1, c)
  BY CutsJoin DEF Ordered, IsText
<1> QED
  BY <1>1 DEF Cat, Cut

Held(lines, above, base, a, b) ==
  /\ IsText(lines) /\ IsText(base) /\ above \in Nat /\ Holds(lines, above, base)
  /\ a \in Nat /\ b \in Nat /\ a <= b /\ b <= Len(base)

LEMMA HeldCuts ==
  ASSUME NEW lines, NEW above, NEW base, NEW a, NEW b, Held(lines, above, base, a, b)
  PROVE  Cut(base, a, b) = Cut(lines, above + a, above + b)
<1>1. SubSeq(base, a + 1, b) = SubSeq(lines, above + a + 1, above + b)
  BY HeldPieces DEF Held, IsText
<1> QED
  BY <1>1 DEF Cut

Replaced(state, old, new, now) ==
  /\ state \in State /\ Fitting(state) /\ IsText(old) /\ IsText(new) /\ Ahead(state, old)
  /\ now = Consumed(state, Body(old, new))[Len(Body(old, new))]

LEMMA ReplacedBody ==
  ASSUME NEW state, NEW old, NEW new, NEW now, Replaced(state, old, new, now)
  PROVE  /\ now \in State /\ now.lines = state.lines /\ Fitting(now)
         /\ now.cursor = state.cursor + Len(old) /\ now.result = Cat(state.result, new)
<1>1. /\ state \in State /\ Fitting(state) /\ Ahead(state, old)
      /\ now = Consumed(state, Body(old, new))[Len(Body(old, new))]
  BY DEF Replaced
<1>2. old \in Seq(Line) /\ new \in Seq(Line)
  BY DEF Replaced, IsText
<1> QED
  BY <1>1, <1>2, BodyReplaces DEF Cat

AllTexts(a, b, c, d, e) == IsText(a) /\ IsText(b) /\ IsText(c) /\ IsText(d) /\ IsText(e)

LEMMA TextsRegrouped ==
  ASSUME NEW a, NEW b, NEW c, NEW d, NEW e, AllTexts(a, b, c, d, e)
  PROVE  Cat(Cat(Cat(a, Cat(b, c)), d), e) = Cat(Cat(a, b), Cat(Cat(c, d), e))
<1>1. a \in Seq(Line) /\ b \in Seq(Line) /\ c \in Seq(Line) /\ d \in Seq(Line) /\ e \in Seq(Line)
  BY DEF AllTexts, IsText
<1> QED
  BY <1>1, Regrouped

LEMMA HunkReaches ==
  ASSUME NEW state \in State, Fitting(state), NEW base, IsText(base), NEW goal, IsText(goal),
         NEW above \in Nat, state.cursor <= above, Holds(state.lines, above, base),
         NEW hunk \in Hunks(base, goal, above), NEW now, now = ApplyHunk(state, hunk)
  PROVE  /\ now \in State /\ now.lines = state.lines /\ Fitting(now)
         /\ now.cursor <= above + Len(base)
         /\ DownTo(now, above + Len(base)) = Cat(DownTo(state, above), goal)
<1>1. PICK skip \in 0 .. Len(base), rest \in 0 .. Len(base) :
        /\ Same(base, goal, skip, rest)
        /\ hunk = [start |-> above + skip + 1,
                   body |-> Body(SubSeq(base, skip + 1, Len(base) - rest),
                                 SubSeq(goal, skip + 1, Len(goal) - rest))]
  BY DEF Hunks
<1>31. base \in Seq(Line) /\ Len(base) \in Nat
  BY DEF IsText
<1>32. goal \in Seq(Line) /\ Len(goal) \in Nat
  BY DEF IsText
<1> DEFINE lines == state.lines
           last == Len(base) - rest
           final == Len(goal) - rest
           at == above + skip
           stop == above + last
           end == above + Len(base)
           old == Cut(base, skip, last)
           new == Cut(goal, skip, final)
           aligned == Align(state, hunk)
           before == Cut(lines, state.cursor, above)
           common == Cut(lines, above, at)
           after == Cut(lines, stop, end)
<1>2. state.cursor \in Nat
  BY DEF State
<1>33. lines \in Seq(Line) /\ Len(lines) \in Nat
  BY DEF State
<1>34. state.result \in Seq(Line)
  BY DEF State
<1>3. skip + rest < Len(base) /\ skip + rest <= Len(goal)
  BY <1>1 DEF Same
<1>4. end <= Len(lines) /\ Holds(lines, above, base)
  BY DEF Holds
<1> HIDE DEF lines
<1>5. Len(lines) \in Nat /\ Len(base) \in Nat /\ Len(goal) \in Nat /\ skip \in Nat /\ rest \in Nat
  BY <1>31, <1>32, <1>33
<1>6. /\ at \in Nat /\ stop \in Nat /\ end \in Nat /\ state.cursor <= at /\ above <= at
      /\ at <= stop /\ stop <= end /\ at <= Len(lines) /\ stop <= Len(lines)
  BY <1>2, <1>3, <1>4, <1>5
<1>7. /\ last \in Nat /\ skip <= last /\ last <= Len(base)
      /\ skip <= Len(base) /\ final \in Nat /\ skip <= final /\ final <= Len(goal)
  BY <1>3, <1>5
<1>29. Cut(base, 0, skip) = Cut(goal, 0, skip) /\ Cut(base, last, Len(base)) = Cut(goal, final, Len(goal))
  <2>1. /\ SubSeq(base, 1, skip) = SubSeq(goal, 1, skip)
        /\ SubSeq(base, last + 1, Len(base)) = SubSeq(goal, final + 1, Len(goal))
    BY <1>1 DEF Same
  <2>2. 0 + 1 = 1
    OBVIOUS
  <2> HIDE DEF last, final
  <2> QED
    BY <2>1, <2>2 DEF Cut
<1> HIDE DEF last, final
<1>30. ASSUME NEW a \in Nat, NEW b \in Nat, a <= b, b <= Len(base)
       PROVE  Cut(base, a, b) = Cut(lines, above + a, above + b)
  <2>1. Held(lines, above, base, a, b)
    BY <1>4, <1>30, <1>31, <1>33 DEF Held, IsText
  <2> QED
    BY <2>1, HeldCuts
<1>8. old = Cut(lines, at, stop)
  BY <1>5, <1>7, <1>30
<1>9. Cut(base, 0, skip) = common
  <2>1. above + 0 = above /\ 0 <= skip
    BY <1>5
  <2>2. Cut(base, 0, skip) = Cut(lines, above + 0, above + skip)
    BY <1>5, <1>7, <1>30, <2>1
  <2> QED
    BY <2>1, <2>2
<1>10. Cut(base, last, Len(base)) = after
  <2>1. Len(base) <= Len(base)
    BY <1>5
  <2> QED
    BY <1>5, <1>7, <1>30, <2>1
<1>11. goal = Cat(Cat(common, new), after)
  <2>1. common = Cut(goal, 0, skip)
    BY <1>9, <1>29
  <2>2. after = Cut(goal, final, Len(goal))
    BY <1>10, <1>29
  <2> HIDE DEF common, after
  <2>3. Cat(Cut(goal, 0, skip), Cut(goal, skip, final)) = Cut(goal, 0, final)
    <3>1. Ordered(goal, 0, skip, final)
      BY <1>5, <1>7, <1>32 DEF Ordered, IsText
    <3> QED
      BY <3>1, OrderedCutsJoin
  <2>4. Cat(Cut(goal, 0, final), Cut(goal, final, Len(goal))) = Cut(goal, 0, Len(goal))
    <3>1. Ordered(goal, 0, final, Len(goal))
      BY <1>5, <1>7, <1>32 DEF Ordered, IsText
    <3> QED
      BY <3>1, OrderedCutsJoin
  <2>5. Cut(goal, 0, Len(goal)) = goal
    <3>1. SubSeq(goal, 1, Len(goal)) = goal
      BY <1>32, SubSeqFull
    <3>2. 0 + 1 = 1
      OBVIOUS
    <3> QED
      BY <3>1, <3>2 DEF Cut
  <2> QED
    BY <2>1, <2>2, <2>3, <2>4, <2>5
<1>12. Cat(before, common) = Cut(lines, state.cursor, at)
  <2>1. Ordered(lines, state.cursor, above, at)
    BY <1>2, <1>6, <1>33 DEF Ordered, IsText
  <2> QED
    BY <2>1, OrderedCutsJoin
<1>13. /\ before \in Seq(Line) /\ common \in Seq(Line) /\ after \in Seq(Line) /\ new \in Seq(Line)
  <2>1. /\ above \in 0 .. Len(lines) /\ at \in 0 .. Len(lines) /\ end \in 0 .. Len(lines)
        /\ final \in 0 .. Len(goal)
    BY <1>4, <1>5, <1>6, <1>7
  <2> HIDE DEF at, stop, end
  <2>2. before \in Seq(Line)
    BY <1>2, <1>33, <2>1, PieceTypes DEF Cut
  <2>3. common \in Seq(Line)
    BY <1>2, <1>33, <2>1, PieceTypes DEF Cut
  <2>4. after \in Seq(Line)
    BY <1>6, <1>33, <2>1, PieceTypes DEF Cut
  <2>5. new \in Seq(Line)
    BY <1>5, <1>32, <2>1, PieceTypes DEF Cut
  <2> QED
    BY <2>2, <2>3, <2>4, <2>5
<1>14. hunk \in Hunk /\ hunk.start = at + 1 /\ hunk.body = Body(old, new)
  <2>1. hunk \in Hunk
    BY <1>31, <1>32, HunksTypes
  <2>2. hunk.start = above + skip + 1 /\ hunk.body = Body(old, new)
    BY <1>1 DEF last, final, Cut
  <2> QED
    BY <2>1, <2>2
<1>15. hunk.start - 1 = at /\ hunk.start - 1 >= state.cursor /\ hunk.start - 1 <= Len(lines)
  BY <1>2, <1>6, <1>14
<1> HIDE DEF at, stop, end, old, new, before, common, after
<1>16. aligned \in State /\ aligned.lines = lines
  BY <1>14, AlignKeeps DEF lines
<1>17. Fitting(aligned)
  BY <1>14, <1>15, AlignKeeps DEF lines
<1>18. aligned.cursor = at
  BY <1>14, <1>15, <1>17, AlignKeeps
<1>19. aligned.result = Cat(state.result, Cat(before, common))
  <2>1. aligned.result = state.result \o SubSeq(state.lines, state.cursor + 1, hunk.start - 1)
    BY <1>14, <1>17, AlignKeeps
  <2>2. aligned.result = Cat(state.result, Cut(lines, state.cursor, hunk.start - 1))
    BY <2>1 DEF lines, Cat, Cut
  <2> QED
    BY <1>12, <1>15, <2>2
<1>20. now = Consumed(aligned, Body(old, new))[Len(Body(old, new))]
  <2>1. Fitting(aligned) => now = Consumed(aligned, hunk.body)[Len(hunk.body)]
    BY DEF ApplyHunk, Fitting
  <2> QED
    BY <1>14, <1>17, <2>1
<1> HIDE DEF aligned
<1>21. Ahead(aligned, old) /\ old \in Seq(Line) /\ at + Len(old) = stop
  <2>1. old = SubSeq(aligned.lines, aligned.cursor + 1, stop)
    BY <1>8, <1>16, <1>18 DEF Cut
  <2>2. aligned.cursor <= stop /\ stop <= Len(aligned.lines)
    BY <1>6, <1>16, <1>18
  <2>3. Ahead(aligned, old) /\ old \in Seq(Line) /\ aligned.cursor + Len(old) = stop
    BY <1>6, <1>16, <2>1, <2>2, PieceAhead
  <2> QED
    BY <1>18, <2>3
<1>22. /\ now \in State /\ now.lines = aligned.lines /\ Fitting(now)
       /\ now.cursor = aligned.cursor + Len(old) /\ now.result = Cat(aligned.result, new)
  <2>1. new \in Seq(Line) /\ old \in Seq(Line) /\ Ahead(aligned, old)
    BY <1>13, <1>21
  <2>2. Replaced(aligned, old, new, now)
    BY <1>16, <1>17, <1>20, <2>1 DEF Replaced, IsText
  <2> QED
    BY <2>2, ReplacedBody
<1>23. now.lines = lines /\ now.cursor = stop
  BY <1>16, <1>18, <1>21, <1>22
<1> DEFINE kept == state.result
<1>24. now.result = Cat(Cat(kept, Cat(before, common)), new) /\ kept \in Seq(Line)
  BY <1>19, <1>22, <1>34
<1>25. DownTo(now, end) = Cat(Cat(Cat(kept, Cat(before, common)), new), after)
  BY <1>23, <1>24 DEF DownTo, after
<1>26. DownTo(state, above) = Cat(kept, before)
  BY DEF DownTo, before, lines
<1> HIDE DEF kept
<1>27. Cat(Cat(Cat(kept, Cat(before, common)), new), after)
         = Cat(Cat(kept, before), Cat(Cat(common, new), after))
  <2>1. kept \in Seq(Line)
    BY <1>24
  <2>2. AllTexts(kept, before, common, new, after)
    BY <1>13, <2>1 DEF AllTexts, IsText
  <2> QED
    BY <2>2, TextsRegrouped
<1>28. DownTo(now, end) = Cat(DownTo(state, above), goal)
  BY <1>11, <1>25, <1>26, <1>27
<1> QED
  BY <1>6, <1>22, <1>23, <1>28 DEF end, lines

\* A hunk written for base, below the lines above, and what it makes of a file.
Reaching(state, base, goal, above, hunk) ==
  /\ state \in State /\ Fitting(state) /\ IsText(base) /\ IsText(goal) /\ above \in Nat
  /\ state.cursor <= above /\ Holds(state.lines, above, base)
  /\ hunk \in Hunks(base, goal, above)

LEMMA ReachingHunk ==
  ASSUME NEW state, NEW base, NEW goal, NEW above, NEW hunk,
         Reaching(state, base, goal, above, hunk)
  PROVE  /\ ApplyHunk(state, hunk) \in State /\ ApplyHunk(state, hunk).lines = state.lines
         /\ Fitting(ApplyHunk(state, hunk))
         /\ ApplyHunk(state, hunk).cursor <= above + Len(base)
         /\ DownTo(ApplyHunk(state, hunk), above + Len(base)) = Cat(DownTo(state, above), goal)
BY HunkReaches DEF Reaching

LEMMA StartReaches ==
  ASSUME NEW lines, IsText(lines)
  PROVE  /\ Start(lines) \in State /\ Start(lines).lines = lines /\ Fitting(Start(lines))
         /\ Start(lines).cursor = 0 /\ DownTo(Start(lines), 0) = <<>>
<1>1. /\ Start(lines).lines = lines /\ Start(lines).cursor = 0 /\ Start(lines).result = <<>>
      /\ Fitting(Start(lines))
  BY DEF Start, Fitting
<1>2. Start(lines) \in State
  BY DEF Start, State, IsText
<1>3. SubSeq(lines, 0 + 1, 0) = <<>>
  BY SubSeqEmpty
<1>4. <<>> \o <<>> = <<>>
  <2>1. <<>> \in Seq(Line)
    OBVIOUS
  <2> QED
    BY <2>1, ConcatEmptySeq
<1> QED
  BY <1>1, <1>2, <1>3, <1>4 DEF DownTo, Cat, Cut

LEMMA CatEmpty ==
  ASSUME NEW goal, IsText(goal)
  PROVE  Cat(<<>>, goal) = goal
BY ConcatEmptySeq DEF Cat, IsText

(* The hunks of a diff fit the file they were written for, and leave the   *)
(* goal.                                                                   *)
LEMMA DiffReaches ==
  ASSUME NEW lines, IsText(lines), NEW goal, IsText(goal), NEW hunks \in Diffs(lines, goal)
  PROVE  /\ Fitting(Applied(lines, hunks)[Len(hunks)])
         /\ Applied(lines, hunks)[Len(hunks)] \in State
         /\ Applied(lines, hunks)[Len(hunks)].lines = lines
         /\ DownTo(Applied(lines, hunks)[Len(hunks)], Len(lines)) = goal
<1> DEFINE F == Applied(lines, hunks)
<1>1. Len(lines) \in Nat /\ Len(goal) \in Nat
  BY DEF IsText
<1>2. CASE hunks \in {<<hunk>> : hunk \in Hunks(lines, goal, 0)}
  <2>1. PICK hunk \in Hunks(lines, goal, 0) : hunks = <<hunk>>
    BY <1>2
  <2>2. Len(hunks) = 1 /\ hunks[1] = hunk
    BY <2>1
  <2>3. F[1] = ApplyHunk(Start(lines), hunk)
    <3>1. Len(hunks) \in Nat /\ 1 \in 1 .. Len(hunks) /\ 1 - 1 = 0
      BY <2>2
    <3> QED
      BY <2>2, <3>1, AppliedUnrolls
  <2> HIDE DEF F
  <2>4. Reaching(Start(lines), lines, goal, 0, hunk)
    <3>1. Holds(lines, 0, lines)
      <4>1. SubSeq(lines, 1, Len(lines)) = lines
        BY SubSeqFull DEF IsText
      <4>2. 0 + 1 = 1 /\ 0 + Len(lines) = Len(lines) /\ Len(lines) <= Len(lines)
        BY <1>1
      <4> QED
        BY <4>1, <4>2 DEF Holds
    <3> QED
      BY <3>1, StartReaches DEF Reaching
  <2>5. /\ F[1] \in State /\ F[1].lines = lines /\ Fitting(F[1])
        /\ DownTo(F[1], 0 + Len(lines)) = Cat(<<>>, goal)
    BY <2>3, <2>4, ReachingHunk, StartReaches
  <2>6. 0 + Len(lines) = Len(lines)
    BY <1>1
  <2> QED
    BY <2>2, <2>5, <2>6, CatEmpty DEF F
<1>3. CASE \E i \in 1 .. Len(lines), j \in 0 .. Len(goal) :
              hunks \in Hunks(SubSeq(lines, 1, i), SubSeq(goal, 1, j), 0)
                \X Hunks(SubSeq(lines, i + 1, Len(lines)), SubSeq(goal, j + 1, Len(goal)), i)
  <2>1. PICK i \in 1 .. Len(lines), j \in 0 .. Len(goal) :
              hunks \in Hunks(SubSeq(lines, 1, i), SubSeq(goal, 1, j), 0)
                \X Hunks(SubSeq(lines, i + 1, Len(lines)), SubSeq(goal, j + 1, Len(goal)), i)
    BY <1>3
  <2> DEFINE upper == Cut(lines, 0, i)
             lower == Cut(lines, i, Len(lines))
             first == Cut(goal, 0, j)
             second == Cut(goal, j, Len(goal))
  <2>2. hunks \in Hunks(upper, first, 0) \X Hunks(lower, second, i)
    <3>1. 0 + 1 = 1
      OBVIOUS
    <3> QED
      BY <2>1, <3>1 DEF Cut
  <2>3. PICK h1 \in Hunks(upper, first, 0), h2 \in Hunks(lower, second, i) : hunks = <<h1, h2>>
    BY <2>2
  <2>4. Len(hunks) = 2 /\ hunks[1] = h1 /\ hunks[2] = h2
    BY <2>3
  <2>5. F[0] = Start(lines) /\ F[1] = ApplyHunk(F[0], h1) /\ F[2] = ApplyHunk(F[1], h2)
    <3>1. Len(hunks) \in Nat /\ 1 \in 1 .. Len(hunks) /\ 2 \in 1 .. Len(hunks) /\ 1 - 1 = 0
          /\ 2 - 1 = 1
      BY <2>4
    <3>2. /\ F[0] = Start(lines)
          /\ \A n \in 1 .. Len(hunks) : F[n] = ApplyHunk(F[n - 1], hunks[n])
      BY <3>1, AppliedUnrolls
    <3> HIDE DEF F
    <3>3. F[1] = ApplyHunk(F[0], hunks[1])
      BY <3>1, <3>2
    <3>4. F[2] = ApplyHunk(F[1], hunks[2])
      BY <3>1, <3>2
    <3> QED
      BY <2>4, <3>2, <3>3, <3>4
  <2> HIDE DEF F
  <2>6. /\ IsText(upper) /\ Len(upper) = i /\ IsText(lower) /\ Len(lower) = Len(lines) - i
    <3>1. i \in 0 .. Len(lines) /\ Len(lines) \in 0 .. Len(lines) /\ 0 <= i /\ i <= Len(lines)
          /\ i \in Nat /\ i - 0 = i
      BY <1>1
    <3>2. IsText(upper) /\ Len(upper) = i
      BY <3>1, PieceTypes DEF IsText, Cut
    <3>3. IsText(lower) /\ Len(lower) = Len(lines) - i
      BY <3>1, PieceTypes DEF IsText, Cut
    <3> QED
      BY <3>2, <3>3
  <2>7. IsText(first) /\ IsText(second)
    <3>1. j \in 0 .. Len(goal) /\ Len(goal) \in 0 .. Len(goal) /\ j \in Nat
      BY <1>1
    <3> QED
      BY <3>1, PieceTypes DEF IsText, Cut
  <2>8. Holds(lines, 0, upper)
    <3>1. 0 + i = i /\ i <= Len(lines)
      BY <1>1
    <3> QED
      BY <2>6, <3>1 DEF Holds, Cut
  <2>9. Holds(lines, i, lower) /\ i + Len(lower) = Len(lines)
    <3>1. i + Len(lower) = Len(lines)
      BY <1>1, <2>6
    <3>2. Len(lines) <= Len(lines)
      BY <1>1
    <3> QED
      BY <3>1, <3>2 DEF Holds, Cut
  <2> HIDE DEF upper, lower, first, second
  <2>10. Reaching(F[0], upper, first, 0, h1)
    BY <2>5, <2>6, <2>7, <2>8, StartReaches DEF Reaching
  <2>11. 0 + Len(upper) = i
    BY <2>6
  <2>12. /\ F[1] \in State /\ F[1].lines = lines /\ Fitting(F[1]) /\ F[1].cursor <= i
         /\ DownTo(F[1], i) = Cat(<<>>, first)
    BY <2>5, <2>10, <2>11, ReachingHunk, StartReaches
  <2>13. Reaching(F[1], lower, second, i, h2)
    BY <2>6, <2>7, <2>9, <2>12 DEF Reaching
  <2>14. /\ F[2] \in State /\ F[2].lines = lines /\ Fitting(F[2])
         /\ DownTo(F[2], Len(lines)) = Cat(Cat(<<>>, first), second)
    BY <2>5, <2>9, <2>12, <2>13, ReachingHunk
  <2>15. Cat(<<>>, first) = first
    BY <2>7, CatEmpty
  <2>16. Cat(first, second) = goal
    <3>1. Ordered(goal, 0, j, Len(goal))
      <4>1. j \in Nat /\ 0 <= j /\ j <= Len(goal) /\ Len(goal) <= Len(goal)
        BY <1>1
      <4> QED
        BY <1>1, <4>1 DEF Ordered
    <3>2. Cat(first, second) = Cut(goal, 0, Len(goal))
      BY <3>1, OrderedCutsJoin DEF first, second
    <3>3. SubSeq(goal, 1, Len(goal)) = goal /\ 0 + 1 = 1
      BY SubSeqFull DEF IsText
    <3> QED
      BY <3>2, <3>3 DEF Cut
  <2> QED
    BY <2>4, <2>14, <2>15, <2>16 DEF F
<1> QED
  BY <1>2, <1>3 DEF Diffs

-----------------------------------------------------------------------------
(* What a section makes of the file it was written for.                    *)

LEMMA TextsAreTexts ==
  ASSUME NEW text \in Texts
  PROVE  IsText(text)
<1>1. text \in Seq(Line)
  BY TreeAssumption DEF TreeAssumption
<1> QED
  BY <1>1 DEF IsText

\* Lines that a file with, or without, a last newline can say.
Sayable(text, ended) == text # <<>> /\ (ended \/ Last(text) # Blank)

LEMMA JoinedSays ==
  ASSUME NEW text, NEW ended \in BOOLEAN
  PROVE  /\ IsFile(Joined(text, ended))
         /\ Sayable(text, ended) => Joined(text, ended) = File(text, ended)
<1>1. \A lines, last : IsFile(File(lines, last))
  BY DEF File, IsFile
<1>2. CASE ended = TRUE
  <2>1. Joined(text, ended) = File(IF text = <<>> THEN <<Blank>> ELSE text, TRUE)
    BY <1>2 DEF Joined
  <2> QED
    BY <1>1, <1>2, <2>1 DEF Sayable
<1>3. CASE ended = FALSE /\ text # <<>> /\ Last(text) = Blank
  <2>1. Joined(text, ended) = File(Front(text), Front(text) # <<>>)
    BY <1>3 DEF Joined, Written
  <2> QED
    BY <1>1, <1>3, <2>1 DEF Sayable
<1>4. CASE ended = FALSE /\ ~(text # <<>> /\ Last(text) = Blank)
  <2>1. Joined(text, ended) = File(text, FALSE)
    BY <1>4 DEF Joined
  <2> QED
    BY <1>1, <1>4, <2>1
<1> QED
  BY <1>2, <1>3, <1>4

LEMMA ChangeReaches ==
  ASSUME NEW file \in Files, NEW goal \in Texts, NEW hunks \in Diffs(file.lines, goal)
  PROVE  /\ ApplyHunks(file, hunks).fits
         /\ IsFile(ApplyHunks(file, hunks).file)
         /\ Sayable(goal, file.ended) => ApplyHunks(file, hunks).file = File(goal, file.ended)
<1> DEFINE end == Applied(file.lines, hunks)[Len(hunks)]
<1>1. IsText(file.lines) /\ file.ended \in BOOLEAN
  BY DEF Files, IsText
<1>2. IsText(goal)
  BY TextsAreTexts
<1>3. Fitting(end) /\ end.lines = file.lines /\ DownTo(end, Len(file.lines)) = goal
  BY <1>1, <1>2, DiffReaches
<1>4. ApplyHunks(file, hunks).file
        = Joined(end.result \o SubSeq(file.lines, end.cursor + 1, Len(file.lines)), file.ended)
  BY DEF ApplyHunks
<1>8. ApplyHunks(file, hunks).fits
  BY <1>3 DEF ApplyHunks, Fitting
<1> HIDE DEF end
<1>5. end.result \o SubSeq(file.lines, end.cursor + 1, Len(file.lines)) = goal
  BY <1>3 DEF DownTo, Cat, Cut
<1>6. ApplyHunks(file, hunks).file = Joined(goal, file.ended)
  BY <1>4, <1>5
<1>7. /\ IsFile(Joined(goal, file.ended))
      /\ Sayable(goal, file.ended) => Joined(goal, file.ended) = File(goal, file.ended)
  BY <1>1, <1>2, JoinedSays
<1> QED
  BY <1>6, <1>7, <1>8

(* A file created for a goal says it, unless that is one blank line.       *)
LEMMA CreatedSays ==
  ASSUME NEW goal \in Texts
  PROVE  /\ IsFile(Created(<<CreatingHunk(goal)>>))
         /\ goal # <<Blank>> => Created(<<CreatingHunk(goal)>>) = Written(goal)
<1> DEFINE hunk == CreatingHunk(goal)
           body == Body(<<>>, goal)
           m == Len(goal)
           G == Side(body, {"+"})
           A == {n \in Nat : n <= m => G[n] = SubSeq(goal, 1, n)}
<1>1. goal \in Seq(Line) /\ m \in Nat
  BY TextsAreTexts DEF IsText
<1>2. <<>> \in Seq(Line) /\ Len(<<>>) = 0
  OBVIOUS
<1>3. Shared(<<>>, goal) = 0
  <2> DEFINE none == <<>>
  <2>1. none \in Seq(Line) /\ Len(none) = 0
    BY <1>2
  <2> HIDE DEF none
  <2>2. Shared(none, goal) \in Nat /\ Shared(none, goal) <= Len(none)
    BY <1>1, <2>1, SharedBounds
  <2>3. Shared(none, goal) = 0
    BY <2>1, <2>2
  <2> QED
    BY <2>3 DEF none
<1>4. body \in Seq(Entry) /\ Len(body) = m
  <2>1. BodyLength(<<>>, goal) = m
    BY <1>1, <1>2, <1>3 DEF BodyLength
  <2>2. Len(body) = BodyLength(<<>>, goal)
    BY <1>1, <1>2, BodyEntries
  <2> QED
    BY <1>1, <1>2, <2>1, <2>2, BodyTypes
<1>5. ASSUME NEW n \in Nat, n < m
      PROVE  body[n + 1].tag = "+" /\ body[n + 1].text = goal[n + 1]
  <2>1. n < BodyLength(<<>>, goal) /\ Len(<<>>) <= n
    BY <1>1, <1>2, <1>3, <1>5 DEF BodyLength
  <2>2. body[n + 1].tag = "+" /\ body[n + 1].text = goal[(Shared(<<>>, goal) + n - Len(<<>>)) + 1]
    BY <1>1, <1>2, <2>1, BodyEntries
  <2>3. Shared(<<>>, goal) + n - Len(<<>>) = n
    BY <1>2, <1>3
  <2> QED
    BY <2>2, <2>3
<1> HIDE DEF body
<1>6. G[0] = <<>> /\ \A n \in 1 .. m : G[n] = Picked(G[n - 1], body[n], {"+"})
  BY <1>1, <1>4, SideUnrolls
<1> HIDE DEF G, m
<1>7. 0 \in A
  <2>1. SubSeq(goal, 1, 0) = <<>>
    BY SubSeqEmpty
  <2> QED
    BY <1>6, <2>1
<1>8. ASSUME NEW n \in Nat, n \in A
      PROVE  n + 1 \in A
  <2> SUFFICES ASSUME n + 1 <= m
               PROVE  G[n + 1] = SubSeq(goal, 1, n + 1)
    OBVIOUS
  <2>1. n + 1 \in 1 .. m /\ (n + 1) - 1 = n /\ n <= m /\ n < m
    BY <1>1
  <2>2. G[n + 1] = Picked(G[n], body[n + 1], {"+"})
    BY <1>6, <2>1
  <2>3. G[n + 1] = Append(G[n], goal[n + 1])
    BY <1>5, <2>1, <2>2 DEF Picked
  <2>4. G[n] = SubSeq(goal, 1, n)
    BY <1>8, <2>1
  <2>5. Append(SubSeq(goal, 0 + 1, n), goal[n + 1]) = SubSeq(goal, 0 + 1, n + 1)
    BY <1>1, <2>1, PieceGrows DEF m
  <2>6. 0 + 1 = 1
    OBVIOUS
  <2> QED
    BY <2>3, <2>4, <2>5, <2>6
<1>9. Nat \subseteq A
  <2> HIDE DEF A
  <2> QED
    BY <1>7, <1>8, EveryNatural
<1>10. G[m] = goal
  <2>1. G[m] = SubSeq(goal, 1, m)
    BY <1>1, <1>9
  <2>2. SubSeq(goal, 1, m) = goal
    BY <1>1, SubSeqFull DEF m
  <2> QED
    BY <2>1, <2>2
<1>11. Created(<<hunk>>) = Written(IF goal = <<Blank>> THEN <<>> ELSE goal)
  <2>1. Bodies(<<hunk>>) = body
    BY OneBody DEF CreatingHunk, body
  <2>2. Side(Bodies(<<hunk>>), {"+"})[Len(Bodies(<<hunk>>))] = goal
    BY <1>4, <1>10, <2>1 DEF G
  <2> HIDE DEF hunk
  <2> QED
    BY <2>2 DEF Created
<1>12. \A text : IsFile(Written(text))
  BY DEF Written, File, IsFile
<1> QED
  BY <1>11, <1>12

-----------------------------------------------------------------------------
(* A patch whose files are as they were, each in one section.              *)

Current ==
  /\ \A i \in DOMAIN patch : tree[patch[i].path] = patch[i].base
  /\ Distinct(patch)

LEMMA CurrentSections ==
  ASSUME WorktreeInv, Current, NEW i \in 1 .. Len(patch)
  PROVE  /\ patch[i] \in DraftedSections /\ patch[i].path \in Paths
         /\ tree[patch[i].path] = patch[i].base /\ patch[i].base # Dir
         /\ patch[i].kind = "delete" => patch[i].base # Absent
         /\ Plannable(patch[i])
<1> DEFINE section == patch[i]
<1>1. section \in DraftedSections /\ DOMAIN patch = 1 .. Len(patch)
  BY ElementOfSeq, LenProperties DEF WorktreeInv, PatchOK
<1>2. section.path \in Paths /\ Drafted(section) /\ tree[section.path] = section.base
  BY <1>1 DEF DraftedSections, Current
<1>3. section.kind \in Kinds
  BY <1>1 DEF DraftedSections
<1> HIDE DEF section
<1>4. Absent # Dir /\ Absent \notin Files /\ Dir \notin Files
  <2>1. Absent.kind = "absent" /\ Dir.kind = "dir" /\ "absent" # "dir"
    BY DEF Absent, Dir
  <2>2. \A file \in Files : file.kind = "file"
    BY DEF Files
  <2> QED
    BY <2>1, <2>2
<1>5. section.base # Dir /\ (section.kind = "delete" => section.base # Absent)
  BY <1>2, <1>4 DEF Drafted
<1>6. Plannable(section)
  <2>1. CASE section.kind = "delete"
    BY <1>2, <1>5, <2>1 DEF Plannable
  <2>2. CASE section.kind = "create"
    BY <2>2 DEF Plannable
  <2>3. CASE section.kind = "change"
    <3>1. /\ section.base \in Files /\ section.goal \in Texts
          /\ section.hunks \in Diffs(section.base.lines, section.goal)
      BY <1>2, <2>3 DEF Drafted
    <3>2. ApplyHunks(section.base, section.hunks).fits
      BY <3>1, ChangeReaches
    <3>3. IsFile(section.base)
      BY <3>1 DEF Files, IsFile
    <3> QED
      BY <1>2, <2>3, <3>2, <3>3 DEF Plannable
  <2> QED
    BY <1>3, <2>1, <2>2, <2>3 DEF Kinds
<1> QED
  BY <1>1, <1>2, <1>5, <1>6 DEF section

(* Each file is then written once, and none is refused.                    *)
Failing(state) == state.failed

LEMMA CommitWritesAll ==
  ASSUME WorktreeInv, Current
  PROVE  /\ ~Failing(Commit(patch))
         /\ \A i \in 1 .. Len(patch) : Commit(patch).files[patch[i].path] = Planned(patch[i])
         /\ \A path \in Paths : (\A i \in 1 .. Len(patch) : patch[i].path # path) =>
                                   Commit(patch).files[path] = tree[path]
<1> DEFINE F == Committed(patch)
           Wrote(state, n) ==
             /\ ~Failing(state)
             /\ \A i \in 1 .. n : state.files[patch[i].path] = Planned(patch[i])
             /\ \A path \in Paths : (\A i \in 1 .. n : patch[i].path # path) =>
                                       state.files[path] = tree[path]
           A == {n \in Nat : n <= Len(patch) => Wrote(F[n], n)}
<1>1. Len(patch) \in Nat /\ DOMAIN patch = 1 .. Len(patch)
  BY LenProperties DEF WorktreeInv, PatchOK
<1>2. F[0] = AsIs /\ \A n \in 1 .. Len(patch) : F[n] = WriteSection(F[n - 1], patch[n])
  BY <1>1, CommittedUnrolls
<1>3. \A n \in 0 .. Len(patch) :
        /\ F[n].files \in [Paths -> Contents]
        /\ F[n] = [files |-> F[n].files, failed |-> F[n].failed]
  <2>1. \A i \in DOMAIN patch : Plannable(patch[i])
    BY <1>1, CurrentSections
  <2> QED
    BY <2>1, CommittedTypes DEF WorktreeInv
<1>4. \A i, j \in 1 .. Len(patch) : i # j => patch[i].path # patch[j].path
  BY <1>1 DEF Current, Distinct
<1> HIDE DEF F
<1>5. 0 \in A
  <2>1. ~Failing(AsIs) /\ AsIs.files = tree
    BY DEF AsIs, Failing
  <2> QED
    BY <1>2, <2>1
<1>6. ASSUME NEW n \in Nat, n \in A
      PROVE  n + 1 \in A
  <2> SUFFICES ASSUME n + 1 <= Len(patch)
               PROVE  Wrote(F[n + 1], n + 1)
    OBVIOUS
  <2> DEFINE section == patch[n + 1]
             state == F[n]
             path == section.path
  <2>1. /\ n + 1 \in 1 .. Len(patch) /\ (n + 1) - 1 = n /\ n <= Len(patch) /\ n \in 0 .. Len(patch)
        /\ \A i \in 1 .. n : i \in 1 .. Len(patch) /\ i # n + 1
    BY <1>1
  <2>2. F[n + 1] = WriteSection(state, section)
    BY <1>2, <2>1
  <2>3. Wrote(state, n)
    BY <1>6, <2>1
  <2>4. \A i \in 1 .. n : patch[i].path # path
    BY <1>4, <2>1
  <2>5. /\ path \in Paths /\ tree[path] = section.base /\ section.base # Dir
        /\ section.kind = "delete" => section.base # Absent
    BY <2>1, CurrentSections
  <2>6. state.files[path] = section.base
    BY <2>3, <2>4, <2>5
  <2>7. state.files \in [Paths -> Contents] /\ state = [files |-> state.files, failed |-> state.failed]
    BY <1>3, <2>1
  <2> DEFINE written == [state.files EXCEPT ![path] = Planned(section)]
  <2>8. ~Unwritable(state.files, section)
    BY <2>5, <2>6 DEF Unwritable
  <2>9. ~Failing(state)
    BY <2>3
  <2> HIDE DEF section, state
  <2>10. F[n + 1] = [state EXCEPT !.files = written]
    BY <2>2, <2>8, <2>9 DEF WriteSection, Failing
  <2>11. F[n + 1].files = written /\ F[n + 1].failed = state.failed
    <3> HIDE DEF written
    <3>1. [state EXCEPT !.files = written] = [files |-> written, failed |-> state.failed]
      BY <2>7
    <3> QED
      BY <2>10, <3>1
  <2>12. ~Failing(F[n + 1])
    BY <2>9, <2>11 DEF Failing
  <2>13. written[path] = Planned(section)
         /\ \A other \in Paths : other # path => written[other] = state.files[other]
    BY <2>5, <2>7
  <2> HIDE DEF written
  <2>14. \A i \in 1 .. n + 1 : F[n + 1].files[patch[i].path] = Planned(patch[i])
    <3> SUFFICES ASSUME NEW i \in 1 .. n + 1
                 PROVE  written[patch[i].path] = Planned(patch[i])
      BY <2>11
    <3>1. CASE i = n + 1
      BY <2>13, <3>1 DEF section
    <3>2. CASE i \in 1 .. n
      <4>1. patch[i].path # path /\ patch[i].path \in Paths
        BY <2>1, <2>4, <3>2, CurrentSections
      <4>2. state.files[patch[i].path] = Planned(patch[i])
        BY <2>3, <3>2
      <4> QED
        BY <2>13, <4>1, <4>2
    <3> QED
      BY <3>1, <3>2
  <2>15. \A other \in Paths : (\A i \in 1 .. n + 1 : patch[i].path # other) =>
                                F[n + 1].files[other] = tree[other]
    <3> SUFFICES ASSUME NEW other \in Paths, \A i \in 1 .. n + 1 : patch[i].path # other
                 PROVE  written[other] = tree[other]
      BY <2>11
    <3>1. n + 1 \in 1 .. n + 1 /\ \A i \in 1 .. n : i \in 1 .. n + 1
      OBVIOUS
    <3>2. other # path
      BY <3>1 DEF section
    <3>3. \A i \in 1 .. n : patch[i].path # other
      BY <3>1
    <3>4. state.files[other] = tree[other]
      BY <2>3, <3>3
    <3> QED
      BY <2>13, <3>2, <3>4
  <2> QED
    BY <2>12, <2>14, <2>15
<1>7. Nat \subseteq A
  <2> HIDE DEF A
  <2> QED
    BY <1>5, <1>6, EveryNatural
<1>8. Wrote(F[Len(patch)], Len(patch))
  BY <1>1, <1>7
<1> QED
  BY <1>8 DEF F, Commit

\* What a section is for.
SaysGoal(entry, section) ==
  CASE section.kind = "delete" -> entry = Absent
    [] section.kind = "create" -> entry = Written(section.goal)
    [] section.kind = "change" -> entry = File(section.goal, section.base.ended)

(* What is planned for a section is what it was written for.               *)
LEMMA PlannedReaches ==
  ASSUME WorktreeInv, Current, NEW i \in 1 .. Len(patch)
  PROVE  /\ patch[i].kind = "delete" => Planned(patch[i]) = Absent
         /\ patch[i].kind # "delete" => IsFile(Planned(patch[i]))
         /\ ~Unsayable(patch[i]) => SaysGoal(Planned(patch[i]), patch[i])
<1> DEFINE section == patch[i]
<1>1. Drafted(section) /\ section.kind \in Kinds /\ tree[section.path] = section.base
  BY CurrentSections DEF DraftedSections
<1> HIDE DEF section
<1>2. CASE section.kind = "delete"
  BY <1>2 DEF Planned, SaysGoal, section
<1>3. CASE section.kind = "create"
  <2>1. section.hunks = <<CreatingHunk(section.goal)>> /\ section.goal \in Texts
    BY <1>1, <1>3 DEF Drafted
  <2>2. Planned(section) = Created(section.hunks)
    BY <1>3 DEF Planned
  <2>3. /\ IsFile(Planned(section))
        /\ section.goal # <<Blank>> => Planned(section) = Written(section.goal)
    BY <2>1, <2>2, CreatedSays
  <2>4. ~Unsayable(section) => section.goal # <<Blank>>
    BY <1>3 DEF Unsayable
  <2> QED
    BY <1>3, <2>3, <2>4 DEF SaysGoal, section
<1>4. CASE section.kind = "change"
  <2>1. /\ section.base \in Files /\ section.goal \in Texts
        /\ section.hunks \in Diffs(section.base.lines, section.goal)
    BY <1>1, <1>4 DEF Drafted
  <2>2. Planned(section) = ApplyHunks(section.base, section.hunks).file
    BY <1>1, <1>4 DEF Planned
  <2>3. /\ IsFile(Planned(section))
        /\ Sayable(section.goal, section.base.ended) =>
             Planned(section) = File(section.goal, section.base.ended)
    BY <2>1, <2>2, ChangeReaches
  <2>4. ~Unsayable(section) => Sayable(section.goal, section.base.ended)
    BY <1>4 DEF Unsayable, Sayable
  <2> QED
    BY <1>4, <2>3, <2>4 DEF SaysGoal, section
<1> QED
  BY <1>1, <1>2, <1>3, <1>4 DEF Kinds

GoalsReached ==
  LET Reached(section) ==
        CASE section.kind = "delete" -> tree'[section.path] = Absent
          [] section.kind = "create" -> tree'[section.path] = Written(section.goal)
          [] section.kind = "change" ->
                 tree'[section.path] = File(section.goal, section.base.ended)
  IN  Called("apply_patch") /\ Current =>
        /\ report'.how = "ok"
        /\ \A i \in DOMAIN patch :
              IF Unsayable(patch[i]) THEN IsFile(tree'[patch[i].path]) ELSE Reached(patch[i])
        /\ \A path \in Paths :
              (\A i \in DOMAIN patch : patch[i].path # path) => tree'[path] = tree[path]

LEMMA CurrentPatchReaches == WorktreeInv /\ [Next]_vars => GoalsReached
<1> SUFFICES ASSUME WorktreeInv, [Next]_vars, Called("apply_patch"), Current
             PROVE  /\ report'.how = "ok"
                    /\ \A i \in DOMAIN patch :
                          IF Unsayable(patch[i]) THEN IsFile(tree'[patch[i].path])
                          ELSE SaysGoal(tree'[patch[i].path], patch[i])
                    /\ \A path \in Paths :
                          (\A i \in DOMAIN patch : patch[i].path # path) => tree'[path] = tree[path]
  BY DEF GoalsReached, SaysGoal
<1>1. ApplyPatch
  BY PatchCalled
<1>2. DOMAIN patch = 1 .. Len(patch)
  BY LenProperties DEF WorktreeInv, PatchOK
<1>3. \A i \in DOMAIN patch : Plannable(patch[i])
  BY <1>2, CurrentSections
<1>4. tree' = Commit(patch).files
      /\ Ends("apply_patch", IF Commit(patch).failed THEN "escaped" ELSE "ok")
  BY <1>1, <1>3 DEF ApplyPatch
<1>5. ~Commit(patch).failed
  BY CommitWritesAll DEF Failing
<1>6. report'.how = "ok"
  BY <1>4, <1>5 DEF Ends
<1>7. \A i \in 1 .. Len(patch) : tree'[patch[i].path] = Planned(patch[i])
  BY <1>4, CommitWritesAll
<1>8. \A path \in Paths : (\A i \in DOMAIN patch : patch[i].path # path) => tree'[path] = tree[path]
  BY <1>2, <1>4, CommitWritesAll
<1>9. ASSUME NEW i \in DOMAIN patch
      PROVE  IF Unsayable(patch[i]) THEN IsFile(tree'[patch[i].path])
             ELSE SaysGoal(tree'[patch[i].path], patch[i])
  <2>1. tree'[patch[i].path] = Planned(patch[i])
    BY <1>2, <1>7
  <2>2. /\ patch[i].kind # "delete" => IsFile(Planned(patch[i]))
        /\ ~Unsayable(patch[i]) => SaysGoal(Planned(patch[i]), patch[i])
    BY <1>2, PlannedReaches
  <2>3. Unsayable(patch[i]) => patch[i].kind # "delete"
    BY DEF Unsayable
  <2> QED
    BY <2>1, <2>2, <2>3
<1> QED
  BY <1>6, <1>8, <1>9

(* A patch whose files are as they were when it was written, each in one   *)
(* section, is applied, and each file then says what the patch was for,    *)
(* blank lines and the last newline included, where files can say that.    *)
THEOREM PatchesReachTheirGoals == Spec => PatchReachesGoal
<1>1. WorktreeInv /\ [Next]_vars => GoalsReached
  BY CurrentPatchReaches
<1> QED
  BY <1>1, WorktreeTypes, PTL DEF Spec, PatchReachesGoal, GoalsReached, Current

-----------------------------------------------------------------------------
(* A line renamed: from its end to its start, character by character.      *)

PartAt(line, i) ==
  IF Refers(line, i - 1) THEN New
  ELSE IF \E k \in 1 .. Len(Old) - 1 : k < i /\ Refers(line, i - 1 - k) THEN <<>>
  ELSE <<line[i]>>

Ending(line) ==
  CHOOSE g : g = [n \in 0 .. Len(line) |->
                    IF n = 0 THEN <<>> ELSE PartAt(line, Len(line) - n + 1) \o g[n - 1]]

\* The renamed line from a column on.
RenamedFrom(line, column) == Ending(line)[Len(line) - column]

LEMMA EndingUnrolls ==
  ASSUME NEW line, Len(line) \in Nat
  PROVE  /\ Ending(line)[0] = <<>>
         /\ \A n \in 1 .. Len(line) :
              Ending(line)[n] = Cat(PartAt(line, Len(line) - n + 1), Ending(line)[n - 1])
<1> DEFINE Piece(n) == PartAt(line, Len(line) - n + 1)
           Unrolled(g, m) == [n \in 0 .. m |-> IF n = 0 THEN <<>> ELSE Cat(Piece(n), g[n - 1])]
           A == {m \in Nat : \E g : g = Unrolled(g, m)}
<1>4. Ending(line) = CHOOSE g : g = Unrolled(g, Len(line))
  BY DEF Ending, Cat
<1> HIDE DEF Piece
<1>1. 0 \in A
  <2>1. [n \in 0 .. 0 |-> <<>>] = Unrolled([n \in 0 .. 0 |-> <<>>], 0)
    OBVIOUS
  <2> QED
    BY <2>1
<1>2. ASSUME NEW m \in Nat, m \in A
      PROVE  m + 1 \in A
  <2>1. PICK g : g = Unrolled(g, m)
    BY <1>2
  <2> DEFINE h == [n \in 0 .. m + 1 |-> IF n = m + 1 THEN Cat(Piece(m + 1), g[m]) ELSE g[n]]
  <2>2. \A n \in 0 .. m + 1 : n = m + 1 \/ (n # m + 1 /\ n \in 0 .. m)
    OBVIOUS
  <2>3. \A n \in 0 .. m : n # 0 => n - 1 \in 0 .. m
    OBVIOUS
  <2>4. \A n \in 0 .. m : h[n] = g[n]
    OBVIOUS
  <2>5. \A n \in 0 .. m : g[n] = IF n = 0 THEN <<>> ELSE Cat(Piece(n), g[n - 1])
    BY <2>1
  <2>6. h[m + 1] = Cat(Piece(m + 1), h[m])
    OBVIOUS
  <2>7. \A n \in 0 .. m + 1 : h[n] = IF n = 0 THEN <<>> ELSE Cat(Piece(n), h[n - 1])
    <3> HIDE DEF h
    <3>1. m + 1 # 0 /\ (m + 1) - 1 = m
      OBVIOUS
    <3> QED
      BY <2>2, <2>3, <2>4, <2>5, <2>6, <3>1
  <2>8. h = Unrolled(h, m + 1)
    BY <2>7
  <2> HIDE DEF h, Unrolled
  <2> QED
    BY <2>8
<1>3. Nat \subseteq A
  <2> HIDE DEF A
  <2> QED
    BY <1>1, <1>2, EveryNatural
<1> DEFINE F == Ending(line)
<1>5. F = Unrolled(F, Len(line))
  <2>1. \E g : g = Unrolled(g, Len(line))
    BY <1>3
  <2> HIDE DEF F, Unrolled
  <2> QED
    BY <1>4, <2>1 DEF F
<1> HIDE DEF F
<1>6. F[0] = <<>> /\ \A n \in 1 .. Len(line) : F[n] = Cat(Piece(n), F[n - 1])
  BY <1>5
<1> QED
  BY <1>6 DEF F, Piece

LEMMA RenamedIsFromStart ==
  ASSUME NEW line, Len(line) \in Nat
  PROVE  Renamed(line) = RenamedFrom(line, 0)
<1>1. Len(line) - 0 = Len(line)
  OBVIOUS
<1>2. Renamed(line) = Ending(line)[Len(line)]
  BY DEF Renamed, Ending, PartAt
<1> QED
  BY <1>1, <1>2 DEF RenamedFrom

LEMMA LineLength == \A line \in Line : Len(line) \in Nat /\ line \in Seq(Characters)
BY LenProperties DEF Line

(* Sites do not overlap, for no letter is before a site and all of Old are.*)
LEMMA SitesApart ==
  ASSUME NEW line \in Line, NEW c \in Nat, NEW d \in Nat, c < d, Refers(line, c), Refers(line, d)
  PROVE  c + Len(Old) <= d
<1> SUFFICES ASSUME d < c + Len(Old) PROVE FALSE
  BY NamesAreLines
<1>1. Len(Old) \in Nat /\ Old \in Seq(Letters) /\ Len(line) \in Nat /\ line \in Seq(Characters)
  BY NamesAreLines, TreeAssumption, LineLength DEF TreeAssumption
<1>2. c + Len(Old) <= Len(line) /\ SubSeq(line, c + 1, c + Len(Old)) = Old
  BY DEF Refers
<1>3. c + Len(Old) \in 0 .. Len(line) /\ d - c \in 1 .. (c + Len(Old)) - c /\ c + (d - c) = d
      /\ d - c \in 1 .. Len(Old)
  BY <1>1, <1>2
<1>4. SubSeq(line, c + 1, c + Len(Old))[d - c] = line[c + (d - c)]
  BY <1>1, <1>3, PieceTypes
<1>5. line[d] = Old[d - c]
  BY <1>2, <1>3, <1>4
<1>6. Old[d - c] \in Letters
  BY <1>1, <1>3, ElementOfSeq
<1>7. line[d] \notin Letters
  <2>1. d > 0
    OBVIOUS
  <2> QED
    BY <2>1 DEF Refers
<1> QED
  BY <1>5, <1>6, <1>7

\* No site reaches over a column.
Clear(line, column) ==
  \A e \in Nat : Refers(line, e) /\ e < column => e + Len(Old) <= column

\* No site between two columns.
NoneWithin(line, from, to) == \A e \in Nat : from <= e /\ e < to => ~Refers(line, e)

LEMMA PlainParts ==
  ASSUME NEW line \in Line, NEW c \in Nat, NEW d \in Nat, d <= Len(line),
         Clear(line, c), NoneWithin(line, c, d), NEW e \in Nat, c <= e, e < d
  PROVE  PartAt(line, e + 1) = <<line[e + 1]>>
<1>1. Len(Old) \in Nat
  BY NamesAreLines
<1>2. (e + 1) - 1 = e /\ \A k \in Nat : (e + 1) - 1 - k = e - k
  OBVIOUS
<1>3. ~Refers(line, e)
  BY DEF NoneWithin
<1>4. ASSUME NEW k \in 1 .. Len(Old) - 1, k < e + 1
      PROVE  ~Refers(line, e - k)
  <2>1. e - k \in Nat /\ e - k < d /\ k < Len(Old) /\ k \in Nat
    BY <1>1, <1>4
  <2>2. CASE c <= e - k
    BY <2>1, <2>2 DEF NoneWithin
  <2>3. CASE e - k < c
    <3>1. ~((e - k) + Len(Old) <= c)
      BY <1>1, <2>1
    <3> QED
      BY <2>1, <2>3, <3>1 DEF Clear
  <2> QED
    BY <2>1, <2>2, <2>3
<1>5. \A k \in 1 .. Len(Old) - 1 : k < e + 1 => ~Refers(line, (e + 1) - 1 - k)
  <2> TAKE k \in 1 .. Len(Old) - 1
  <2>1. k \in Nat
    OBVIOUS
  <2> QED
    BY <1>2, <1>4, <2>1
<1> QED
  BY <1>2, <1>3, <1>5 DEF PartAt

LEMMA FromUnrolls ==
  ASSUME NEW line \in Line
  PROVE  /\ RenamedFrom(line, Len(line)) = <<>>
         /\ \A e \in Nat : e < Len(line) =>
              RenamedFrom(line, e) = Cat(PartAt(line, e + 1), RenamedFrom(line, e + 1))
<1>1. Len(line) \in Nat
  BY LineLength
<1>2. Len(line) - Len(line) = 0
  BY <1>1
<1>3. ASSUME NEW e \in Nat, e < Len(line)
      PROVE  /\ Len(line) - e \in 1 .. Len(line)
             /\ Len(line) - (Len(line) - e) + 1 = e + 1
             /\ (Len(line) - e) - 1 = Len(line) - (e + 1)
  BY <1>1, <1>3
<1>4. ASSUME NEW e \in Nat, e < Len(line)
      PROVE  RenamedFrom(line, e) = Cat(PartAt(line, e + 1), RenamedFrom(line, e + 1))
  <2> DEFINE n == Len(line) - e
  <2>1. Ending(line)[n] = Cat(PartAt(line, Len(line) - n + 1), Ending(line)[n - 1])
    <3>1. n \in 1 .. Len(line)
      BY <1>3, <1>4
    <3> HIDE DEF n
    <3> QED
      BY <1>1, <3>1, EndingUnrolls
  <2>2. Len(line) - n + 1 = e + 1 /\ n - 1 = Len(line) - (e + 1)
    BY <1>3, <1>4
  <2> HIDE DEF n
  <2>3. Ending(line)[n] = Cat(PartAt(line, e + 1), Ending(line)[Len(line) - (e + 1)])
    BY <2>1, <2>2
  <2> QED
    BY <2>3 DEF RenamedFrom, n
<1>5. RenamedFrom(line, Len(line)) = <<>>
  BY <1>1, <1>2, EndingUnrolls DEF RenamedFrom
<1> QED
  BY <1>4, <1>5

LEMMA FromTypes ==
  ASSUME NEW line \in Line, NEW c \in Nat, c <= Len(line)
  PROVE  RenamedFrom(line, c) \in Line
<1>1. Len(line) \in Nat
  BY LineLength
<1> DEFINE A == {m \in Nat : m <= Len(line) => RenamedFrom(line, Len(line) - m) \in Line}
<1>2. 0 \in A
  <2>1. Len(line) - 0 = Len(line) /\ <<>> \in Line
    BY <1>1 DEF Line
  <2> QED
    BY <2>1, FromUnrolls
<1>3. ASSUME NEW m \in Nat, m \in A PROVE m + 1 \in A
  <2> SUFFICES ASSUME m + 1 <= Len(line) PROVE RenamedFrom(line, Len(line) - (m + 1)) \in Line
    OBVIOUS
  <2> DEFINE e == Len(line) - (m + 1)
  <2>1. e \in Nat /\ e < Len(line) /\ e + 1 = Len(line) - m /\ m <= Len(line) /\ e + 1 \in 1 .. Len(line)
    BY <1>1
  <2> HIDE DEF e
  <2>2. RenamedFrom(line, e + 1) \in Line
    BY <1>3, <2>1
  <2>3. PartAt(line, e + 1) \in Line
    <3>1. line[e + 1] \in Characters
      BY <2>1, LineLength, ElementOfSeq
    <3>2. <<line[e + 1]>> \in Line /\ <<>> \in Line /\ New \in Line
      BY <3>1, NamesAreLines DEF Line
    <3> QED
      BY <3>2 DEF PartAt
  <2>4. RenamedFrom(line, e) = Cat(PartAt(line, e + 1), RenamedFrom(line, e + 1))
    BY <2>1, FromUnrolls
  <2>5. \A x, y \in Line : Cat(x, y) \in Line
    BY ConcatProperties DEF Cat, Line
  <2>6. RenamedFrom(line, e) \in Line
    BY <2>2, <2>3, <2>4, <2>5
  <2> QED
    BY <2>6 DEF e
<1>4. Nat \subseteq A
  <2> HIDE DEF A
  <2> QED
    BY <1>2, <1>3, EveryNatural
<1>5. Len(line) - c \in Nat /\ Len(line) - c <= Len(line) /\ Len(line) - (Len(line) - c) = c
  BY <1>1
<1>6. Len(line) - c \in A
  BY <1>4, <1>5
<1> QED
  BY <1>5, <1>6

LEMMA LinesJoin ==
  /\ \A x, y \in Line : Cat(x, y) \in Line
  /\ \A x, y, z \in Line : Cat(Cat(x, y), z) = Cat(x, Cat(y, z))
  /\ \A x \in Line : Cat(x, <<>>) = x /\ Cat(<<>>, x) = x
<1>1. \A x, y \in Line : Cat(x, y) \in Line
  BY ConcatProperties DEF Cat, Line
<1>2. \A x, y, z \in Line : Cat(Cat(x, y), z) = Cat(x, Cat(y, z))
  BY CatAssociates DEF Line
<1>3. \A x \in Line : Cat(x, <<>>) = x /\ Cat(<<>>, x) = x
  BY ConcatEmptySeq DEF Cat, Line
<1> QED
  BY <1>1, <1>2, <1>3

LEMMA LineCuts ==
  ASSUME NEW line \in Line, NEW a \in Nat, NEW b \in Nat, a <= b, b <= Len(line)
  PROVE  /\ Cut(line, a, b) \in Line
         /\ Cut(line, a, a) = <<>>
         /\ Cut(line, 0, Len(line)) = line
         /\ \A c \in Nat : b <= c /\ c <= Len(line) =>
              Cat(Cut(line, a, b), Cut(line, b, c)) = Cut(line, a, c)
         /\ a < b => Cut(line, a, b) = Cat(<<line[a + 1]>>, Cut(line, a + 1, b))
<1>1. Len(line) \in Nat /\ line \in Seq(Characters)
  BY LineLength
<1>2. Cut(line, a, b) \in Line
  BY <1>1, PieceTypes DEF Cut, Line
<1>3. Cut(line, a, a) = <<>>
  BY SubSeqEmpty DEF Cut
<1>4. Cut(line, 0, Len(line)) = line
  <2>1. 0 + 1 = 1
    OBVIOUS
  <2> QED
    BY <1>1, <2>1, SubSeqFull DEF Cut
<1>5. \A c \in Nat : b <= c /\ c <= Len(line) =>
        Cat(Cut(line, a, b), Cut(line, b, c)) = Cut(line, a, c)
  BY <1>1, CutsJoin DEF Cut, Cat
<1>6. a < b => Cut(line, a, b) = Cat(<<line[a + 1]>>, Cut(line, a + 1, b))
  <2> SUFFICES ASSUME a < b PROVE Cut(line, a, b) = Cat(<<line[a + 1]>>, Cut(line, a + 1, b))
    OBVIOUS
  <2>1. a + 1 \in 1 .. Len(line) /\ b \in (a + 1) .. Len(line)
    BY <1>1
  <2> QED
    BY <1>1, <2>1, SubSeqRecursiveFirst DEF Cut, Cat
<1> QED
  BY <1>2, <1>3, <1>4, <1>5, <1>6

(* Where there is no site, a renamed line is as it was.                    *)
LEMMA PlainStretch ==
  ASSUME NEW line \in Line, NEW c \in Nat, NEW d \in Nat, c <= d, d <= Len(line),
         Clear(line, c), NoneWithin(line, c, d)
  PROVE  RenamedFrom(line, c) = Cat(Cut(line, c, d), RenamedFrom(line, d))
<1>0. Len(line) \in Nat
  BY LineLength
<1> DEFINE Goal(e) == RenamedFrom(line, e) = Cat(Cut(line, e, d), RenamedFrom(line, d))
           A == {m \in Nat : m <= d - c => Goal(d - m)}
<1>1. 0 \in A
  <2>1. d - 0 = d
    OBVIOUS
  <2>2. Cut(line, d, d) = <<>> /\ RenamedFrom(line, d) \in Line
    <3>1. d <= d
      OBVIOUS
    <3> QED
      BY <3>1, LineCuts, FromTypes
  <2>3. Goal(d)
    BY <2>2, LinesJoin
  <2> QED
    BY <2>1, <2>3
<1>2. ASSUME NEW m \in Nat, m \in A PROVE m + 1 \in A
  <2> SUFFICES ASSUME m + 1 <= d - c PROVE Goal(d - (m + 1))
    OBVIOUS
  <2> DEFINE e == d - (m + 1)
  <2>1. e \in Nat /\ c <= e /\ e < d /\ e < Len(line) /\ e + 1 = d - m /\ m <= d - c
        /\ e + 1 <= d /\ e + 1 \in Nat /\ e + 1 \in 1 .. Len(line)
    BY <1>0
  <2> HIDE DEF e
  <2>2. Goal(e + 1)
    BY <1>2, <2>1
  <2>3. RenamedFrom(line, e) = Cat(<<line[e + 1]>>, RenamedFrom(line, e + 1))
    BY <2>1, PlainParts, FromUnrolls
  <2>4. Cut(line, e, d) = Cat(<<line[e + 1]>>, Cut(line, e + 1, d))
    <3>1. e <= d
      BY <2>1
    <3> QED
      BY <2>1, <3>1, LineCuts
  <2>5. Cut(line, e + 1, d) \in Line /\ RenamedFrom(line, d) \in Line
    BY <2>1, LineCuts, FromTypes
  <2>6. <<line[e + 1]>> \in Line
    <3>1. line[e + 1] \in Characters
      BY <2>1, LineLength, ElementOfSeq
    <3> QED
      BY <3>1 DEF Line
  <2>7. Goal(e)
    BY <2>2, <2>3, <2>4, <2>5, <2>6, LinesJoin
  <2> HIDE DEF Goal
  <2> QED
    BY <2>7 DEF e
<1>3. Nat \subseteq A
  <2> HIDE DEF A
  <2> QED
    BY <1>1, <1>2, EveryNatural
<1>4. d - c \in Nat /\ d - c <= d - c /\ d - (d - c) = c
  OBVIOUS
<1>5. d - c \in A
  BY <1>3, <1>4
<1> HIDE DEF Goal
<1>6. Goal(c)
  BY <1>4, <1>5
<1> QED
  BY <1>6 DEF Goal

(* At a site, a renamed line has New in the place of Old.                  *)
LEMMA SiteRenamed ==
  ASSUME NEW line \in Line, NEW d \in Nat, Refers(line, d)
  PROVE  /\ d + Len(Old) <= Len(line)
         /\ RenamedFrom(line, d) = Cat(New, RenamedFrom(line, d + Len(Old)))
<1> DEFINE w == Len(Old)
<1>0. Len(line) \in Nat /\ w \in Nat /\ w >= 1
  BY LineLength, NamesAreLines
<1>1. d + w <= Len(line)
  BY DEF Refers
<1> HIDE DEF w
<1> DEFINE Goal(e) == RenamedFrom(line, e) = RenamedFrom(line, d + w)
           A == {m \in Nat : m < w => Goal((d + w) - m)}
<1>2. 0 \in A
  <2>1. (d + w) - 0 = d + w
    BY <1>0
  <2> QED
    BY <2>1
<1>3. ASSUME NEW m \in Nat, m \in A PROVE m + 1 \in A
  <2> SUFFICES ASSUME m + 1 < w PROVE Goal((d + w) - (m + 1))
    OBVIOUS
  <2> DEFINE e == (d + w) - (m + 1)
  <2>1. e \in Nat /\ d < e /\ e < d + w /\ e < Len(line) /\ e + 1 = (d + w) - m /\ m < w
        /\ e + 1 \in Nat /\ e + 1 <= Len(line)
    BY <1>0, <1>1
  <2>2. e - d \in 1 .. w - 1 /\ e - d < e + 1 /\ (e + 1) - 1 = e /\ (e + 1) - 1 - (e - d) = d
    BY <1>0, <1>1
  <2> HIDE DEF e
  <2>3. Goal(e + 1)
    BY <1>3, <2>1
  <2>4. ~Refers(line, e)
    <3>1. ~(d + w <= e)
      BY <1>0, <2>1
    <3> QED
      BY <2>1, <3>1, SitesApart DEF w
  <2>5. PartAt(line, e + 1) = <<>>
    BY <2>2, <2>4 DEF PartAt, w
  <2>6. RenamedFrom(line, e) = RenamedFrom(line, e + 1)
    <3>1. RenamedFrom(line, e) = Cat(<<>>, RenamedFrom(line, e + 1))
      BY <2>1, <2>5, FromUnrolls
    <3>2. RenamedFrom(line, e + 1) \in Line
      BY <2>1, FromTypes
    <3> QED
      BY <3>1, <3>2, LinesJoin
  <2>7. Goal(e)
    BY <2>3, <2>6
  <2> HIDE DEF Goal
  <2> QED
    BY <2>7 DEF e
<1>4. Nat \subseteq A
  <2> HIDE DEF A
  <2> QED
    BY <1>2, <1>3, EveryNatural
<1>5. w - 1 \in Nat /\ w - 1 < w /\ (d + w) - (w - 1) = d + 1
  BY <1>0
<1>6. RenamedFrom(line, d + 1) = RenamedFrom(line, d + w)
  <2>1. w - 1 \in A
    BY <1>4, <1>5
  <2>2. Goal((d + w) - (w - 1))
    BY <1>5, <2>1
  <2> QED
    BY <1>5, <2>2
<1>7. PartAt(line, d + 1) = New
  <2>1. (d + 1) - 1 = d
    OBVIOUS
  <2> QED
    BY <2>1 DEF PartAt
<1>8. d < Len(line)
  BY <1>0, <1>1
<1>9. RenamedFrom(line, d) = Cat(New, RenamedFrom(line, d + 1))
  BY <1>7, <1>8, FromUnrolls
<1> QED
  BY <1>1, <1>6, <1>9 DEF w

(* A splice at a site of a line whose rest was renamed before.             *)
LEMMA SpliceBefore ==
  ASSUME NEW line \in Line, NEW rest \in Line, NEW d \in Nat, d + Len(Old) <= Len(line)
  PROVE  SpliceAt(Cat(Cut(line, 0, d + Len(Old)), rest), d) = Cat(Cut(line, 0, d), Cat(New, rest))
<1> DEFINE w == Len(Old)
           e == d + w
           head == Cut(line, 0, e)
           x == head \o rest
<1>0. Len(line) \in Nat /\ Len(rest) \in Nat /\ w \in Nat /\ w >= 1
      /\ line \in Seq(Characters) /\ rest \in Seq(Characters)
  BY LineLength, NamesAreLines
<1>1. e \in Nat /\ e \in 0 .. Len(line) /\ d < e /\ d \in 0 .. Len(line)
  BY <1>0
<1> HIDE DEF w, e
<1>2. /\ head \in Seq(Characters) /\ Len(head) = e
      /\ \A i \in 1 .. e : head[i] = line[i]
  <2>1. /\ SubSeq(line, 0 + 1, e) \in Seq(Characters)
        /\ Len(SubSeq(line, 0 + 1, e)) = IF 0 <= e THEN e - 0 ELSE 0
        /\ \A i \in 1 .. e - 0 : SubSeq(line, 0 + 1, e)[i] = line[0 + i]
    BY <1>0, <1>1, PieceTypes
  <2>2. e - 0 = e /\ 0 <= e /\ \A i \in 1 .. e : 0 + i = i
    BY <1>1
  <2> QED
    BY <2>1, <2>2 DEF Cut
<1> HIDE DEF head
<1>3. /\ x \in Seq(Characters) /\ Len(x) = e + Len(rest)
      /\ \A i \in 1 .. e + Len(rest) : x[i] = IF i <= e THEN head[i] ELSE rest[i - e]
  BY <1>0, <1>2, ConcatProperties
<1> HIDE DEF x
<1>4. SubSeq(x, 1, d) = Cut(line, 0, d)
  <2>1. /\ SubSeq(x, 0 + 1, d) \in Seq(Characters) /\ Len(SubSeq(x, 0 + 1, d)) = d
        /\ \A i \in 1 .. d : SubSeq(x, 0 + 1, d)[i] = x[0 + i]
    <3>1. d \in 0 .. Len(x) /\ d - 0 = d /\ 0 <= d
      BY <1>0, <1>1, <1>3
    <3> QED
      BY <1>3, <3>1, PieceTypes
  <2>2. /\ SubSeq(line, 0 + 1, d) \in Seq(Characters) /\ Len(SubSeq(line, 0 + 1, d)) = d
        /\ \A i \in 1 .. d : SubSeq(line, 0 + 1, d)[i] = line[0 + i]
    <3>1. d - 0 = d /\ 0 <= d
      OBVIOUS
    <3> QED
      BY <1>0, <1>1, <3>1, PieceTypes
  <2>3. \A i \in 1 .. d : i \in 1 .. e /\ i \in 1 .. e + Len(rest) /\ i <= e /\ 0 + i = i
    BY <1>0, <1>1
  <2>4. \A i \in 1 .. d : x[i] = line[i]
    BY <1>2, <1>3, <2>3
  <2>5. \A i \in 1 .. d : SubSeq(x, 0 + 1, d)[i] = SubSeq(line, 0 + 1, d)[i]
    BY <2>1, <2>2, <2>3, <2>4
  <2>6. SubSeq(x, 0 + 1, d) = SubSeq(line, 0 + 1, d)
    BY <2>1, <2>2, <2>5, SeqEqual
  <2>7. 0 + 1 = 1
    OBVIOUS
  <2> QED
    BY <2>6, <2>7 DEF Cut
<1>5. SubSeq(x, e + 1, Len(x)) = rest
  <2>1. /\ SubSeq(x, e + 1, Len(x)) \in Seq(Characters) /\ Len(SubSeq(x, e + 1, Len(x))) = Len(rest)
        /\ \A i \in 1 .. Len(rest) : SubSeq(x, e + 1, Len(x))[i] = x[e + i]
    <3>1. Len(x) \in 0 .. Len(x) /\ Len(x) - e = Len(rest) /\ e <= Len(x)
      BY <1>0, <1>1, <1>3
    <3> QED
      BY <1>1, <1>3, <3>1, PieceTypes
  <2>2. \A i \in 1 .. Len(rest) : e + i \in 1 .. e + Len(rest) /\ ~(e + i <= e) /\ (e + i) - e = i
    BY <1>0, <1>1
  <2>3. \A i \in 1 .. Len(rest) : SubSeq(x, e + 1, Len(x))[i] = rest[i]
    BY <1>3, <2>1, <2>2
  <2> QED
    BY <1>0, <2>1, <2>3, SeqEqual
<1>6. d < Len(x)
  BY <1>0, <1>1, <1>3
<1>7. SpliceAt(x, d) = Cat(Cat(Cut(line, 0, d), New), rest)
  BY <1>4, <1>5, <1>6 DEF SpliceAt, Cat, e, w
<1>8. Cut(line, 0, d) \in Line /\ New \in Line
  <2>1. 0 \in Nat /\ 0 <= d /\ d <= Len(line)
    BY <1>0, <1>1
  <2> QED
    BY <2>1, LineCuts, NamesAreLines
<1> QED
  BY <1>7, <1>8, LinesJoin DEF x, head, e, w, Cat

-----------------------------------------------------------------------------
(* All sites of a file spliced, from the last to the first.                *)

LEMMA HeadCuts ==
  ASSUME NEW line \in Line, NEW c \in Nat, c <= Len(line)
  PROVE  \A b \in Nat : c <= b /\ b <= Len(line) =>
           Cat(Cut(line, 0, c), Cut(line, c, b)) = Cut(line, 0, b)
<1>1. 0 \in Nat /\ 0 <= c
  OBVIOUS
<1> QED
  BY <1>1, LineCuts

LEMMA LineSpliced ==
  ASSUME NEW line \in Line, NEW c \in Nat, NEW d \in Nat, c <= d,
         Refers(line, d), Clear(line, c), NoneWithin(line, c, d),
         NEW now, now = Cat(Cut(line, 0, d + Len(Old)), RenamedFrom(line, d + Len(Old)))
  PROVE  SpliceAt(now, d) = Cat(Cut(line, 0, c), RenamedFrom(line, c))
<1> DEFINE e == d + Len(Old)
<1>1. Len(Old) \in Nat /\ Len(line) \in Nat
  BY NamesAreLines, LineLength
<1>2. e <= Len(line) /\ RenamedFrom(line, d) = Cat(New, RenamedFrom(line, e))
  BY SiteRenamed
<1>3. RenamedFrom(line, e) \in Line
  <2>1. e \in Nat
    BY <1>1
  <2> HIDE DEF e
  <2> QED
    BY <1>2, <2>1, FromTypes
<1>4. SpliceAt(now, d) = Cat(Cut(line, 0, d), RenamedFrom(line, d))
  <2>1. SpliceAt(Cat(Cut(line, 0, d + Len(Old)), RenamedFrom(line, e)), d)
          = Cat(Cut(line, 0, d), Cat(New, RenamedFrom(line, e)))
    BY <1>2, <1>3, SpliceBefore
  <2> QED
    BY <1>2, <2>1
<1>5. d <= Len(line) /\ c <= Len(line)
  BY <1>1, <1>2
<1>6. RenamedFrom(line, c) = Cat(Cut(line, c, d), RenamedFrom(line, d))
  BY <1>5, PlainStretch
<1>7. Cat(Cut(line, 0, c), Cut(line, c, d)) = Cut(line, 0, d)
  BY <1>5, HeadCuts
<1>8. Cut(line, 0, c) \in Line /\ Cut(line, c, d) \in Line /\ RenamedFrom(line, d) \in Line
  <2>1. 0 \in Nat /\ 0 <= c
    OBVIOUS
  <2> QED
    BY <1>5, <2>1, LineCuts, FromTypes
<1> HIDE DEF e
<1> QED
  BY <1>4, <1>6, <1>7, <1>8, LinesJoin

LEMMA ClearAfterSite ==
  ASSUME NEW line \in Line, NEW d \in Nat, Refers(line, d)
  PROVE  Clear(line, d + Len(Old))
<1>1. Len(Old) \in Nat
  BY NamesAreLines
<1> SUFFICES ASSUME NEW e \in Nat, Refers(line, e), e < d + Len(Old)
             PROVE  e + Len(Old) <= d + Len(Old)
  BY DEF Clear
<1>2. d < e => d + Len(Old) <= e
  BY SitesApart
<1> QED
  BY <1>1, <1>2

\* Some site of a set is at this place.
Marks(sites, l, column) == \E site \in sites : site.line = l /\ site.column = column

\* The sites are those of the pieces.
AllMarked(pieces, sites) ==
  \A l \in 1 .. Len(pieces) : \A e \in Nat : Refers(pieces[l], e) <=> Marks(sites, l, e)

\* A line is renamed from a column on, and its sites there are in the part.
RenamedDownTo(line, now, l, part) ==
  \A c \in Nat :
    c <= Len(line) /\ Clear(line, c) /\ (\A e \in Nat : Marks(part, l, e) <=> Refers(line, e) /\ c <= e)
      => now = Cat(Cut(line, 0, c), RenamedFrom(line, c))

LEMMA NothingSpliced ==
  ASSUME NEW line \in Line, NEW l
  PROVE  RenamedDownTo(line, line, l, {})
<1>1. Len(line) \in Nat
  BY LineLength
<1> SUFFICES ASSUME NEW c \in Nat, c <= Len(line), Clear(line, c),
                    \A e \in Nat : Marks({}, l, e) <=> Refers(line, e) /\ c <= e
             PROVE  line = Cat(Cut(line, 0, c), RenamedFrom(line, c))
  BY DEF RenamedDownTo
<1>2. NoneWithin(line, c, Len(line))
  BY DEF NoneWithin, Marks
<1>3. RenamedFrom(line, c) = Cat(Cut(line, c, Len(line)), RenamedFrom(line, Len(line)))
  <2>1. Len(line) <= Len(line)
    BY <1>1
  <2> QED
    BY <1>1, <1>2, <2>1, PlainStretch
<1>4. Cut(line, c, Len(line)) \in Line
  <2>1. Len(line) <= Len(line)
    BY <1>1
  <2> QED
    BY <1>1, <2>1, LineCuts
<1>5. RenamedFrom(line, c) = Cut(line, c, Len(line))
  BY <1>3, <1>4, FromUnrolls, LinesJoin
<1>6. Cat(Cut(line, 0, c), Cut(line, c, Len(line))) = line
  <2>1. 0 \in Nat /\ 0 <= c /\ Len(line) <= Len(line)
    BY <1>1
  <2>2. \A e \in Nat : c <= e /\ e <= Len(line) =>
          Cat(Cut(line, 0, c), Cut(line, c, e)) = Cut(line, 0, e)
    BY <2>1, LineCuts
  <2>3. Cut(line, 0, Len(line)) = line
    BY <2>1, LineCuts
  <2> QED
    BY <1>1, <2>1, <2>2, <2>3
<1> QED
  BY <1>5, <1>6

(* One more site spliced: the line it is on, and the others.               *)
LEMMA OneMoreSpliced ==
  ASSUME NEW path, NEW part, part \subseteq SitesIn(path), part # {},
         NEW line \in Line, NEW l, NEW before,
         RenamedDownTo(line, before, l, part \ {SplicedLast(part)})
  PROVE  RenamedDownTo(line,
           IF l = SplicedLast(part).line THEN SpliceAt(before, SplicedLast(part).column) ELSE before,
           l, part)
<1> DEFINE site == SplicedLast(part)
           less == part \ {site}
           d == site.column
           now == IF l = site.line THEN SpliceAt(before, d) ELSE before
<1>1. site \in part /\ \A b \in part : b = site \/ Before(site, b)
  BY FirstSite
<1>2. \A b \in part : b.line \in Nat /\ b.column \in Nat
  BY DEF SitesIn, SiteSet
<1>3. \A b \in part : b.line = site.line /\ b.column = d => b = site
  BY <1>1 DEF SitesIn, SiteSet
<1>4. RenamedDownTo(line, before, l, less)
  OBVIOUS
<1> HIDE DEF site
<1> SUFFICES ASSUME NEW c \in Nat, c <= Len(line), Clear(line, c),
                    \A e \in Nat : Marks(part, l, e) <=> Refers(line, e) /\ c <= e
             PROVE  now = Cat(Cut(line, 0, c), RenamedFrom(line, c))
  BY DEF RenamedDownTo, site
<1>5. CASE l # site.line
  <2>1. \A e \in Nat : Marks(less, l, e) <=> Marks(part, l, e)
    BY <1>5 DEF Marks
  <2>2. before = Cat(Cut(line, 0, c), RenamedFrom(line, c))
    BY <1>4, <2>1 DEF RenamedDownTo
  <2> QED
    BY <1>5, <2>2
<1>6. CASE l = site.line
  <2>0. Len(Old) \in Nat \ {0} /\ Len(line) \in Nat /\ d \in Nat
    BY <1>1, <1>2, NamesAreLines, LineLength
  <2>1. Refers(line, d) /\ c <= d
    <3>1. Marks(part, l, d)
      BY <1>1, <1>6 DEF Marks
    <3> QED
      BY <2>0, <3>1
  <2>2. \A b \in part : b.line = l /\ b # site => d < b.column
    BY <1>1, <1>2, <1>6, <2>0 DEF Before
  <2>3. NoneWithin(line, c, d)
    <3> SUFFICES ASSUME NEW e \in Nat, c <= e, e < d, Refers(line, e) PROVE FALSE
      BY DEF NoneWithin
    <3>1. PICK b \in part : b.line = l /\ b.column = e
      BY DEF Marks
    <3> QED
      BY <2>0, <2>2, <3>1
  <2> DEFINE f == d + Len(Old)
  <2>4. f \in Nat /\ f <= Len(line) /\ Clear(line, f)
    BY <2>0, <2>1, SiteRenamed, ClearAfterSite
  <2>5. ASSUME NEW e \in Nat PROVE Marks(less, l, e) <=> Refers(line, e) /\ f <= e
    <3>1. Marks(less, l, e) => Refers(line, e) /\ d < e
      <4> SUFFICES ASSUME Marks(less, l, e) PROVE Refers(line, e) /\ d < e
        OBVIOUS
      <4>1. PICK b \in less : b.line = l /\ b.column = e
        BY DEF Marks
      <4>2. Marks(part, l, e)
        BY <4>1 DEF Marks
      <4> QED
        BY <2>2, <4>1, <4>2
    <3>2. Refers(line, e) /\ d < e => f <= e
      BY <2>0, <2>1, SitesApart
    <3>3. Refers(line, e) /\ f <= e => Marks(less, l, e)
      <4> SUFFICES ASSUME Refers(line, e), f <= e PROVE Marks(less, l, e)
        OBVIOUS
      <4>1. c <= e /\ e # d
        BY <2>0, <2>1
      <4>2. PICK b \in part : b.line = l /\ b.column = e
        BY <4>1 DEF Marks
      <4> QED
        BY <4>1, <4>2 DEF Marks
    <3> QED
      BY <3>1, <3>2, <3>3
  <2>6. before = Cat(Cut(line, 0, f), RenamedFrom(line, f))
    <3> HIDE DEF f, less
    <3> QED
      BY <1>4, <2>4, <2>5 DEF RenamedDownTo
  <2>7. SpliceAt(before, d) = Cat(Cut(line, 0, c), RenamedFrom(line, c))
    <3> HIDE DEF d
    <3> QED
      BY <2>0, <2>1, <2>3, <2>6, LineSpliced
  <2> QED
    BY <1>6, <2>7
<1> QED
  BY <1>5, <1>6

\* The pieces, renamed.
AllRenamed(lines, pieces) ==
  LinesLike(lines, pieces) /\ \A l \in 1 .. Len(pieces) : lines[l] = Renamed(pieces[l])

LEMMA AllSpliced ==
  ASSUME NEW path, NEW sites, sites \subseteq SitesIn(path), NEW pieces \in Seq(Line),
         \A site \in sites : site.line \in 1 .. Len(pieces), AllMarked(pieces, sites)
  PROVE  AllRenamed(Splice(pieces, sites)[sites], pieces)
<1>0. \A part \in SUBSET sites : LinesLike(Splice(pieces, sites)[part], pieces)
  BY SpliceTypes
<1> DEFINE F == Splice(pieces, sites)
           P == {part \in SUBSET sites :
                   \A l \in 1 .. Len(pieces) : RenamedDownTo(pieces[l], F[part][l], l, part)}
<1>1. /\ F[{}] = pieces
      /\ \A part \in SUBSET sites : part # {} =>
           F[part] = SplicedOnce(F[part \ {SplicedLast(part)}], SplicedLast(part))
  <2> HIDE DEF P
  <2>1. F[{}] = pieces
    BY SpliceUnrolls
  <2>2. ASSUME NEW part \in SUBSET sites, part # {}
        PROVE  F[part] = SplicedOnce(F[part \ {SplicedLast(part)}], SplicedLast(part))
    BY <2>2, SpliceUnrolls
  <2> QED
    BY <2>1, <2>2
<1>2. \A part \in SUBSET sites : F[part] \in Seq(Line) /\ Len(F[part]) = Len(pieces)
  BY <1>0 DEF LinesLike
<1>3. \A l \in 1 .. Len(pieces) : pieces[l] \in Line
  BY ElementOfSeq
<1> HIDE DEF F
<1>4. {} \in P
  BY <1>1, <1>3, NothingSpliced
<1>5. ASSUME NEW part \in SUBSET sites, part # {}, part \ {SplicedLast(part)} \in P
      PROVE  part \in P
  <2> DEFINE site == SplicedLast(part)
             less == part \ {site}
             was == F[less]
  <2> SUFFICES ASSUME NEW l \in 1 .. Len(pieces)
               PROVE  RenamedDownTo(pieces[l], F[part][l], l, part)
    OBVIOUS
  <2>1. RenamedDownTo(pieces[l], was[l], l, less)
    BY <1>5
  <2>2. was \in Seq(Line) /\ Len(was) = Len(pieces)
    BY <1>2
  <2>3. F[part] = SplicedOnce(was, site)
    BY <1>1, <1>5
  <2>4. site \in part
    BY <1>5, FirstSite
  <2>5. site.line \in 1 .. Len(pieces) /\ site.column \in Nat
    BY <2>4 DEF SitesIn, SiteSet
  <2>6. F[part][l] = IF l = site.line THEN SpliceAt(was[l], site.column) ELSE was[l]
    <3> HIDE DEF site, was
    <3>1. SpliceAt(was[site.line], site.column) \in Line
      BY <2>2, <2>5, ElementOfSeq, SpliceAtTypes
    <3> QED
      BY <2>2, <2>3, <2>5, <3>1, ExceptSeq DEF SplicedOnce
  <2>7. part \subseteq SitesIn(path) /\ pieces[l] \in Line
    BY <1>3
  <2> HIDE DEF was
  <2> QED
    BY <1>5, <2>1, <2>6, <2>7, OneMoreSpliced
<1>6. sites \in P
  <2>1. SUBSET sites \subseteq P
    <3> HIDE DEF P
    <3> QED
      BY <1>4, <1>5, EveryPart
  <2> QED
    BY <2>1
<1>7. ASSUME NEW l \in 1 .. Len(pieces) PROVE F[sites][l] = Renamed(pieces[l])
  <2> DEFINE line == pieces[l]
  <2>1. line \in Line /\ Len(line) \in Nat
    BY <1>3, LineLength
  <2>2. RenamedDownTo(line, F[sites][l], l, sites)
    BY <1>6
  <2>3. \A e \in Nat : Marks(sites, l, e) <=> Refers(line, e) /\ 0 <= e
    BY DEF AllMarked
  <2> HIDE DEF line
  <2>4. 0 \in Nat /\ 0 <= Len(line) /\ Clear(line, 0)
    BY <2>1 DEF Clear
  <2>5. F[sites][l] = Cat(Cut(line, 0, 0), RenamedFrom(line, 0))
    BY <2>2, <2>3, <2>4 DEF RenamedDownTo
  <2>6. Cut(line, 0, 0) = <<>> /\ RenamedFrom(line, 0) \in Line
    <3>1. 0 <= 0
      OBVIOUS
    <3> QED
      BY <2>1, <2>4, <3>1, LineCuts, FromTypes
  <2>7. F[sites][l] = Renamed(line)
    BY <2>1, <2>5, <2>6, LinesJoin, RenamedIsFromStart
  <2> QED
    BY <2>7 DEF line
<1>8. sites \in SUBSET sites
  OBVIOUS
<1> QED
  BY <1>0, <1>7, <1>8 DEF F, AllRenamed

-----------------------------------------------------------------------------
(* Whole files renamed.                                                    *)

LEMMA StartRenamed ==
  ASSUME NEW line \in Line
  PROVE  /\ Renamed(line) = RenamedFrom(line, 0)
         /\ Renamed(line) \in Line
         /\ line = Blank <=> Renamed(line) = Blank
<1>1. Len(line) \in Nat /\ line \in Seq(Characters)
  BY LineLength
<1>2. Renamed(line) = RenamedFrom(line, 0) /\ RenamedFrom(line, 0) \in Line
  BY <1>1, RenamedIsFromStart, FromTypes
<1>3. CASE line = Blank
  <2>1. Len(line) = 0
    BY <1>3 DEF Blank
  <2>2. RenamedFrom(line, Len(line)) = <<>>
    BY FromUnrolls
  <2> QED
    BY <1>2, <1>3, <2>1, <2>2 DEF Blank
<1>4. CASE line # Blank
  <2>1. Len(line) \in Nat \ {0}
    BY <1>1, <1>4, EmptySeq DEF Blank
  <2>2. RenamedFrom(line, 0) = Cat(PartAt(line, 1), RenamedFrom(line, 1))
    <3>1. 0 < Len(line) /\ 0 + 1 = 1 /\ 0 \in Nat
      BY <2>1
    <3> QED
      BY <3>1, FromUnrolls
  <2>3. PartAt(line, 1) \in Line /\ PartAt(line, 1) # <<>>
    <3>1. line[1] \in Characters
      BY <1>1, <2>1, ElementOfSeq
    <3>2. <<line[1]>> \in Line /\ <<line[1]>> # <<>> /\ New \in Line /\ New # <<>>
      BY <3>1, NamesAreLines DEF Line
    <3>3. \A k \in 1 .. Len(Old) - 1 : ~(k < 1)
      OBVIOUS
    <3> QED
      BY <3>2, <3>3 DEF PartAt
  <2>4. RenamedFrom(line, 1) \in Line
    BY <2>1, FromTypes
  <2>5. \A x, y \in Line : x # <<>> => Cat(x, y) # <<>>
    BY ConcatEqualIffEmpty DEF Cat, Line
  <2> QED
    BY <1>2, <1>4, <2>2, <2>3, <2>4, <2>5 DEF Blank
<1> QED
  BY <1>2, <1>3, <1>4

LEMMA UnreferredStays ==
  ASSUME NEW line \in Line, \A e \in Nat : ~Refers(line, e)
  PROVE  Renamed(line) = line
<1>1. Len(line) \in Nat
  BY LineLength
<1>2. RenamedDownTo(line, line, 1, {})
  BY NothingSpliced
<1>3. 0 \in Nat /\ 0 <= Len(line) /\ Clear(line, 0)
      /\ \A e \in Nat : Marks({}, 1, e) <=> Refers(line, e) /\ 0 <= e
  BY <1>1 DEF Clear, Marks
<1>4. line = Cat(Cut(line, 0, 0), RenamedFrom(line, 0))
  BY <1>2, <1>3 DEF RenamedDownTo
<1>5. Cut(line, 0, 0) = <<>>
  <2>1. 0 <= 0
    OBVIOUS
  <2> QED
    BY <1>3, <2>1, LineCuts
<1> QED
  BY <1>4, <1>5, StartRenamed, LinesJoin

RenamedLines(lines) == [i \in 1 .. Len(lines) |-> Renamed(lines[i])]
RenamedFile(file) == [file EXCEPT !.lines = [i \in DOMAIN @ |-> Renamed(@[i])]]

\* The sites of a file.
SitesAt(path, lines) ==
  {site \in SitesIn(path) : site.line \in 1 .. Len(lines) /\ Refers(lines[site.line], site.column)}

LEMMA RenamedLinesTypes ==
  ASSUME NEW lines \in Seq(Line)
  PROVE  /\ RenamedLines(lines) \in Seq(Line)
         /\ Len(RenamedLines(lines)) = Len(lines)
         /\ \A i \in 1 .. Len(lines) : RenamedLines(lines)[i] = Renamed(lines[i])
<1>1. Len(lines) \in Nat
  BY LenProperties
<1>2. \A i \in 1 .. Len(lines) : Renamed(lines[i]) \in Line
  BY ElementOfSeq, StartRenamed
<1> QED
  BY <1>1, <1>2, IsASeq DEF RenamedLines

LEMMA RenamedFileIs ==
  ASSUME NEW file \in Files
  PROVE  RenamedFile(file) = File(RenamedLines(file.lines), file.ended)
<1>1. file.lines \in Seq(Line) /\ file.ended \in BOOLEAN
      /\ file = [kind |-> "file", lines |-> file.lines, ended |-> file.ended]
  BY DEF Files
<1>2. DOMAIN file.lines = 1 .. Len(file.lines)
  BY <1>1, LenProperties
<1>3. [i \in DOMAIN file.lines |-> Renamed(file.lines[i])] = RenamedLines(file.lines)
  BY <1>2 DEF RenamedLines
<1> QED
  BY <1>1, <1>3 DEF RenamedFile, File

LEMMA PiecesLines ==
  ASSUME NEW file \in Files
  PROVE  /\ Len(file.lines) \in Nat /\ Len(Pieces(file)) \in Nat
         /\ Pieces(file) \in Seq(Line)
         /\ Len(file.lines) <= Len(Pieces(file)) /\ Len(Pieces(file)) <= Len(file.lines) + 1
         /\ \A l \in 1 .. Len(file.lines) : Pieces(file)[l] = file.lines[l]
         /\ file.ended =>
              Len(Pieces(file)) = Len(file.lines) + 1 /\ Pieces(file)[Len(file.lines) + 1] = Blank
         /\ ~file.ended /\ file.lines # <<>> => Pieces(file) = file.lines
         /\ Len(Pieces(file)) = Len(file.lines) + 1 => Pieces(file)[Len(file.lines) + 1] = Blank
<1>1. file.lines \in Seq(Line) /\ Blank \in Line /\ Len(file.lines) \in Nat
  BY LenProperties DEF Files, Blank, Line
<1>2. /\ Append(file.lines, Blank) \in Seq(Line)
      /\ Len(Append(file.lines, Blank)) = Len(file.lines) + 1
      /\ \A l \in 1 .. Len(file.lines) : Append(file.lines, Blank)[l] = file.lines[l]
      /\ Append(file.lines, Blank)[Len(file.lines) + 1] = Blank
  BY <1>1, AppendProperties
<1>3. CASE file.ended \/ file.lines = <<>>
  <2>1. Pieces(file) = Append(file.lines, Blank)
    BY <1>3 DEF Pieces
  <2> HIDE DEF Pieces
  <2> QED
    BY <1>1, <1>2, <1>3, <2>1
<1>4. CASE ~(file.ended \/ file.lines = <<>>)
  <2>1. Pieces(file) = file.lines
    BY <1>4 DEF Pieces
  <2> QED
    BY <1>1, <1>4, <2>1
<1> QED
  BY <1>3, <1>4

LEMMA FileSites ==
  ASSUME NEW path \in Paths, NEW file \in Files, Short(file.lines)
  PROVE  /\ AllMarked(Pieces(file), SitesAt(path, file.lines))
         /\ SitesAt(path, file.lines) \subseteq SitesIn(path)
         /\ \A site \in SitesAt(path, file.lines) : site.line \in 1 .. Len(Pieces(file))
<1> DEFINE lines == file.lines
           pieces == Pieces(file)
           sites == SitesAt(path, lines)
<1>0. /\ Len(lines) \in Nat /\ Len(pieces) \in Nat
      /\ Len(lines) <= Len(pieces) /\ Len(pieces) <= Len(lines) + 1
      /\ \A l \in 1 .. Len(lines) : pieces[l] = lines[l]
      /\ Len(pieces) = Len(lines) + 1 => pieces[Len(lines) + 1] = Blank
  BY PiecesLines
<1>1. /\ lines \in Seq(Line) /\ Len(lines) <= MaxLines /\ MaxLines \in Nat /\ MaxWidth \in Nat
      /\ \A l \in 1 .. Len(lines) : lines[l] \in Line /\ Len(lines[l]) \in Nat
                                    /\ Len(lines[l]) <= MaxWidth
  <2>1. lines \in Seq(Line)
    BY DEF Files
  <2>2. DOMAIN lines = 1 .. Len(lines)
    BY <2>1, LenProperties
  <2> QED
    BY <2>1, <2>2, ElementOfSeq, LineLength, TreeAssumption DEF Short, TreeAssumption
<1> HIDE DEF lines, pieces
<1>2. ASSUME NEW l \in 1 .. Len(pieces), NEW e \in Nat, Refers(pieces[l], e)
      PROVE  Marks(sites, l, e)
  <2>1. Len(Old) \in Nat \ {0} /\ e + Len(Old) <= Len(pieces[l])
    BY <1>2, NamesAreLines DEF Refers
  <2>2. l \in 1 .. Len(lines)
    <3> SUFFICES ASSUME l = Len(lines) + 1 PROVE FALSE
      BY <1>0
    <3>1. pieces[l] = Blank /\ Len(Blank) = 0
      BY <1>0 DEF Blank
    <3> QED
      BY <2>1, <3>1
  <2>3. pieces[l] = lines[l] /\ Len(lines[l]) \in Nat /\ Len(lines[l]) <= MaxWidth
    BY <1>0, <1>1, <2>2
  <2>4. e \in 0 .. MaxWidth /\ l \in 1 .. MaxLines
    BY <1>0, <1>1, <2>1, <2>2, <2>3
  <2> DEFINE site == [path |-> path, line |-> l, column |-> e]
  <2>5. site \in SitesIn(path) /\ site.line = l /\ site.column = e
    BY <2>4 DEF SitesIn, SiteSet
  <2> HIDE DEF site
  <2>6. site \in sites
    BY <1>2, <2>2, <2>3, <2>5 DEF SitesAt
  <2> QED
    BY <2>5, <2>6 DEF Marks
<1>3. ASSUME NEW site \in sites
      PROVE  site.line \in 1 .. Len(pieces) /\ Refers(pieces[site.line], site.column)
  BY <1>0, <1>3 DEF SitesAt
<1>4. AllMarked(pieces, sites)
  <2> SUFFICES ASSUME NEW l \in 1 .. Len(pieces), NEW e \in Nat, Marks(sites, l, e)
               PROVE  Refers(pieces[l], e)
    BY <1>2 DEF AllMarked
  <2> QED
    BY <1>3 DEF Marks
<1>5. sites \subseteq SitesIn(path)
  BY DEF SitesAt
<1> QED
  BY <1>3, <1>4, <1>5 DEF lines, pieces

LEMMA FileRenamed ==
  ASSUME NEW path \in Paths, NEW file \in Files, Short(file.lines),
         SitesAt(path, file.lines) # {}
  PROVE  Spliced(file, SitesAt(path, file.lines)) = RenamedFile(file)
<1> DEFINE lines == file.lines
           pieces == Pieces(file)
           sites == SitesAt(path, lines)
           end == Splice(pieces, sites)[sites]
           renamed == RenamedLines(lines)
           n == Len(lines)
<1>1. pieces \in Seq(Line) /\ lines \in Seq(Line) /\ n \in Nat /\ n # 0 /\ lines # <<>>
  <2>1. pieces \in Seq(Line) /\ n \in Nat
    BY PiecesLines
  <2>2. PICK site \in sites : TRUE
    OBVIOUS
  <2>3. site.line \in 1 .. Len(lines)
    BY <2>2 DEF SitesAt
  <2>4. lines \in Seq(Line)
    BY DEF Files
  <2>5. n # 0
    BY <2>1, <2>3
  <2>6. lines # <<>>
    BY <2>5
  <2> QED
    BY <2>1, <2>4, <2>5, <2>6
<1>2. end \in Seq(Line) /\ Len(end) = Len(pieces)
      /\ \A l \in 1 .. Len(pieces) : end[l] = Renamed(pieces[l])
  <2>1. AllMarked(pieces, sites) /\ sites \subseteq SitesIn(path)
        /\ \A site \in sites : site.line \in 1 .. Len(pieces)
    BY FileSites
  <2> HIDE DEF pieces, sites
  <2>2. AllRenamed(Splice(pieces, sites)[sites], pieces)
    BY <1>1, <2>1, AllSpliced
  <2> QED
    BY <2>2 DEF AllRenamed, LinesLike
<1>3. /\ renamed \in Seq(Line) /\ Len(renamed) = n
      /\ \A i \in 1 .. n : renamed[i] = Renamed(lines[i])
  BY <1>1, RenamedLinesTypes
<1>4. \A l \in 1 .. n : end[l] = renamed[l] /\ pieces[l] = lines[l]
  <2>1. \A l \in 1 .. n : pieces[l] = lines[l] /\ l \in 1 .. Len(pieces)
    BY <1>1, PiecesLines
  <2> HIDE DEF end, renamed, pieces
  <2> QED
    BY <1>2, <1>3, <2>1
<1>5. Spliced(file, sites) = Joined(end, FALSE)
  BY DEF Spliced
<1>6. RenamedFile(file) = File(renamed, file.ended) /\ file.ended \in BOOLEAN
  BY RenamedFileIs DEF Files
<1>7. Ended(lines, file.ended)
  BY DEF Files
<1>8. /\ file.ended => Len(pieces) = n + 1 /\ pieces[n + 1] = Blank
      /\ ~file.ended => pieces = lines
  BY <1>1, PiecesLines
<1>9. Renamed(Blank) = Blank
  <2>1. Blank \in Line
    BY DEF Blank, Line
  <2> QED
    BY <2>1, StartRenamed
<1> HIDE DEF end, renamed, pieces, sites
<1>10. CASE file.ended
  <2>1. end[n + 1] = Blank /\ Len(end) = n + 1
    BY <1>1, <1>2, <1>8, <1>9, <1>10
  <2>2. Last(end) = Blank
    BY <2>1 DEF Last
  <2>3. Front(end) = renamed
    <3>1. Len(end) - 1 = n /\ n \in 0 .. Len(end) /\ n - 0 = n /\ 0 <= n /\ 0 + 1 = 1
      BY <1>1, <2>1
    <3>2. /\ SubSeq(end, 0 + 1, n) \in Seq(Line) /\ Len(SubSeq(end, 0 + 1, n)) = n
          /\ \A i \in 1 .. n : SubSeq(end, 0 + 1, n)[i] = end[0 + i]
      BY <1>2, <3>1, PieceTypes
    <3>3. \A i \in 1 .. n : SubSeq(end, 0 + 1, n)[i] = renamed[i]
      <4>1. \A i \in 1 .. n : 0 + i = i
        OBVIOUS
      <4> QED
        BY <1>4, <3>2, <4>1
    <3>4. SubSeq(end, 0 + 1, n) = renamed
      BY <1>3, <3>2, <3>3, SeqEqual
    <3> QED
      BY <3>1, <3>4 DEF Front
  <2>4. end # <<>> /\ renamed # <<>>
    BY <1>1, <1>3, <2>1
  <2>5. Joined(end, FALSE) = File(renamed, TRUE)
    <3>1. Joined(end, FALSE) = Written(Front(end))
      BY <2>2, <2>4 DEF Joined
    <3> QED
      BY <2>3, <2>4, <3>1 DEF Written
  <2> QED
    BY <1>5, <1>6, <1>10, <2>5 DEF sites
<1>11. CASE ~file.ended
  <2>1. pieces = lines /\ Len(end) = n
    BY <1>2, <1>8, <1>11
  <2>2. end = renamed
    BY <1>2, <1>3, <1>4, <2>1, SeqEqual
  <2>3. end # <<>> /\ Last(end) # Blank
    <3>1. n \in 1 .. n /\ lines[n] # Blank /\ lines[n] \in Line
      BY <1>1, <1>7, <1>11, ElementOfSeq DEF Ended
    <3>2. end[n] = Renamed(lines[n])
      BY <1>3, <2>2, <3>1
    <3>3. end[n] # Blank
      BY <3>1, <3>2, StartRenamed
    <3> QED
      BY <1>1, <2>1, <3>3 DEF Last
  <2>4. Joined(end, FALSE) = File(end, FALSE)
    BY <2>3 DEF Joined
  <2> QED
    BY <1>5, <1>6, <1>11, <2>2, <2>4 DEF sites
<1> QED
  BY <1>6, <1>10, <1>11

LEMMA RenameCalled == [Next]_vars /\ Called("rename_symbol") => RenameSymbol
<1> SUFFICES ASSUME [Next]_vars, Called("rename_symbol") PROVE RenameSymbol
  OBVIOUS
<1>1. \A tool, how : Ends(tool, how) => report'.tool = tool
  BY DEF Ends
<1>2. report'.tool = "rename_symbol" /\ tools' # tools
  BY DEF Called
<1>3. ~ \E path \in Paths, text \in Texts : WriteFile(path, text)
  BY <1>1, <1>2 DEF WriteFile, Untouched
<1>4. ~ \E path \in Paths : DeletePath(path) \/ Mkdir(path)
  BY <1>1, <1>2 DEF DeletePath, Mkdir, Untouched
<1>5. ~ \E source, destination \in Paths : Move(source, destination)
  BY <1>1, <1>2 DEF Move, Untouched
<1>6. ~Draft /\ ~StartOver /\ ~FindReferences /\ ~UNCHANGED vars
  BY <1>1, <1>2 DEF Draft, StartOver, FindReferences, vars
<1>7. ~ApplyPatch
  BY <1>1, <1>2 DEF ApplyPatch, Untouched
<1> QED
  BY <1>3, <1>4, <1>5, <1>6, <1>7 DEF Next

\* Every file has each reference renamed, and nothing else.
Exact ==
  \A path \in Paths : tree'[path] = IF IsFile(tree[path]) THEN RenamedFile(tree[path]) ELSE tree[path]

LEMMA CurrentSites ==
  ASSUME WorktreeInv, references = Sites(tree), NEW path \in Paths
  PROVE  SitesOf(path) = IF IsFile(tree[path]) THEN SitesAt(path, tree[path].lines) ELSE {}
<1>1. ASSUME NEW p \in Paths, IsFile(tree[p])
      PROVE  DOMAIN tree[p].lines = 1 .. Len(tree[p].lines)
  <2>1. tree[p] \in Contents
    BY DEF WorktreeInv, TreeOK
  <2>2. tree[p].lines \in Seq(Line)
    BY <1>1, <2>1, FileKind
  <2> QED
    BY <2>2, LenProperties
<1>2. \A site \in SitesIn(path) :
        site \in Sites(tree) <=>
          /\ IsFile(tree[path])
          /\ site.line \in DOMAIN tree[path].lines
          /\ Refers(tree[path].lines[site.line], site.column)
  BY DEF Sites, SitesIn, SiteSet
<1>3. SitesOf(path) = {site \in SitesIn(path) : site \in Sites(tree)}
  <2>1. references \subseteq SiteSet
    BY DEF WorktreeInv, ReferencesOK
  <2>2. SitesOf(path) = {site \in SitesIn(path) : site \in references}
    BY <2>1 DEF SitesOf, SitesIn
  <2> QED
    BY <2>2
<1> QED
  BY <1>1, <1>2, <1>3 DEF SitesAt

LEMMA RenamedUnlessListed ==
  ASSUME NEW path \in Paths, NEW file \in Files, Short(file.lines), SitesAt(path, file.lines) = {}
  PROVE  RenamedFile(file) = file
<1>1. /\ file.lines \in Seq(Line) /\ file.ended \in BOOLEAN
      /\ file = [kind |-> "file", lines |-> file.lines, ended |-> file.ended]
  BY DEF Files
<1>2. AllMarked(Pieces(file), {})
  BY FileSites
<1>3. ASSUME NEW l \in 1 .. Len(file.lines)
      PROVE  RenamedLines(file.lines)[l] = file.lines[l]
  <2>1. Pieces(file)[l] = file.lines[l] /\ l \in 1 .. Len(Pieces(file))
    BY PiecesLines
  <2>2. \A e \in Nat : ~Refers(file.lines[l], e)
    BY <1>2, <2>1 DEF AllMarked, Marks
  <2>3. file.lines[l] \in Line
    BY <1>1, ElementOfSeq
  <2> QED
    BY <1>1, <2>2, <2>3, UnreferredStays, RenamedLinesTypes
<1>4. RenamedLines(file.lines) = file.lines
  BY <1>1, <1>3, RenamedLinesTypes, SeqEqual
<1> QED
  BY <1>1, <1>4, RenamedFileIs DEF File

LEMMA CurrentRenames ==
  ASSUME WorktreeInv, RenameSymbol, references = Sites(tree)
  PROVE  Exact
<1> DEFINE renamed == [path \in Paths |-> IF SitesOf(path) = {} THEN tree[path]
                                          ELSE Spliced(tree[path], SitesOf(path))]
           found == \A site \in references :
                       /\ IsFile(tree[site.path])
                       /\ site.line \in DOMAIN Pieces(tree[site.path])
<1>1. ASSUME NEW path \in Paths
      PROVE  /\ IsFile(tree[path]) => tree[path] \in Files /\ Short(tree[path].lines)
             /\ SitesOf(path) = IF IsFile(tree[path]) THEN SitesAt(path, tree[path].lines) ELSE {}
  <2>1. tree[path] \in Contents
    BY DEF WorktreeInv, TreeOK
  <2>2. IsFile(tree[path]) => tree[path] \in Files /\ Short(tree[path].lines)
    BY <2>1, FileKind DEF WorktreeInv, SmallTree, Small
  <2> QED
    BY <2>2, CurrentSites
<1>2. found
  <2> SUFFICES ASSUME NEW site \in references
               PROVE  IsFile(tree[site.path]) /\ site.line \in DOMAIN Pieces(tree[site.path])
    OBVIOUS
  <2>1. site.path \in Paths /\ site \in SitesOf(site.path)
    BY DEF WorktreeInv, ReferencesOK, SiteSet, SitesOf
  <2> DEFINE path == site.path
             file == tree[path]
  <2>2. IsFile(file) /\ site \in SitesAt(path, file.lines)
    BY <1>1, <2>1
  <2>3. file \in Files /\ Short(file.lines)
    BY <1>1, <2>1, <2>2
  <2>4. site.line \in 1 .. Len(Pieces(file))
    <3> HIDE DEF path, file
    <3>1. path \in Paths
      BY <2>1 DEF path
    <3> QED
      BY <2>2, <2>3, <3>1, FileSites
  <2>5. DOMAIN Pieces(file) = 1 .. Len(Pieces(file))
    BY <2>3, PiecesTypes
  <2> QED
    BY <2>2, <2>4, <2>5
<1>3. tree' = renamed
  BY <1>2 DEF RenameSymbol
<1>4. ASSUME NEW path \in Paths
      PROVE  renamed[path] = IF IsFile(tree[path]) THEN RenamedFile(tree[path]) ELSE tree[path]
  <2> DEFINE file == tree[path]
  <2>1. CASE ~IsFile(file)
    BY <1>1, <2>1
  <2>2. CASE IsFile(file) /\ SitesAt(path, file.lines) = {}
    <3>1. renamed[path] = file
      BY <1>1, <2>2
    <3>2. file \in Files /\ Short(file.lines)
      BY <1>1, <2>2
    <3> HIDE DEF file, renamed
    <3>3. RenamedFile(file) = file
      BY <2>2, <3>2, RenamedUnlessListed
    <3> QED
      BY <2>2, <3>1, <3>3 DEF file
  <2>3. CASE IsFile(file) /\ SitesAt(path, file.lines) # {}
    <3>1. renamed[path] = Spliced(file, SitesAt(path, file.lines))
      BY <1>1, <2>3
    <3>2. file \in Files /\ Short(file.lines)
      BY <1>1, <2>3
    <3> HIDE DEF file, renamed
    <3>3. Spliced(file, SitesAt(path, file.lines)) = RenamedFile(file)
      BY <2>3, <3>2, FileRenamed
    <3> QED
      BY <2>3, <3>1, <3>3 DEF file
  <2> QED
    BY <2>1, <2>2, <2>3
<1> HIDE DEF renamed
<1> QED
  BY <1>3, <1>4 DEF Exact

(* A rename by references that list what the tree holds now renames every  *)
(* reference and nothing else, in files of any length, with any number of  *)
(* references on one line, whatever the lengths of the names.              *)
THEOREM RenamesAreExact == Spec => RenameExact
<1>1. WorktreeInv /\ [Next]_vars =>
        (Called("rename_symbol") /\ references = Sites(tree) => Exact)
  BY RenameCalled, CurrentRenames
<1> QED
  BY <1>1, WorktreeTypes, PTL DEF Spec, RenameExact, Exact, RenamedFile
=============================================================================
