--------------------------- MODULE GitRepoProofs ---------------------------
(***************************************************************************)
(* The git tools keep what they know of the repository consistent, and     *)
(* whatever they are asked for, they treat protected branches as           *)
(* BranchPolicy says.                                                      *)
(***************************************************************************)
EXTENDS GitRepo, Induction, SequenceTheorems

CommitRecords == [tree : Trees, parent : 0..MaxCommits, ours : BOOLEAN]

LEMMA NamesApart ==
  /\ Detached \notin Branches /\ HeadRef \notin Branches
  /\ Trunk \in Branches /\ Protected \subseteq Branches
  /\ HeadRef # Detached
BY RepoAssumption

LEMMA TreeTyped ==
  ASSUME GitTypeOK, NEW c \in 0..Len(commits)
  PROVE  TreeOf(c) \in Trees
<1>1. Blank \in Trees
  BY DEF Blank, Trees, Contents
<1>2. ASSUME c # 0 PROVE commits[c] \in CommitRecords
  <2>1. commits \in Seq(CommitRecords)
    BY DEF GitTypeOK, CommitRecords
  <2>2. c \in 1..Len(commits)
    BY <1>2, <2>1
  <2> QED
    BY <2>1, <2>2, ElementOfSeq
<1> QED
  BY <1>1, <1>2 DEF TreeOf, CommitRecords

LEMMA HaveTyped == GitTypeOK => Have \subseteq 1..Len(commits) /\ 0 \notin Have /\ Len(commits) \in Nat
BY DEF GitTypeOK, Have

LEMMA ResolveTyped ==
  ASSUME GitTypeOK, NEW ref PROVE Resolve(ref) \in {0} \cup Have
BY DEF GitTypeOK, Resolve

LEMMA HeadCommit == GitTypeOK => refs[head] \in {0} \cup Have
BY DEF GitTypeOK

(* A set of commits this repository has depends on the commits alone.      *)
LEMMA HaveStays == UNCHANGED commits => Have' = Have
BY DEF Have

LEMMA HaveGrows ==
  ASSUME GitTypeOK, NEW commit \in CommitRecords, commits' = Append(commits, commit)
  PROVE  /\ Have \subseteq Have'
         /\ commit.ours => Len(commits) + 1 \in Have'
         /\ Len(commits') = Len(commits) + 1
<1>1. commits \in Seq(CommitRecords)
  BY DEF GitTypeOK, CommitRecords
<1>2. /\ Len(commits') = Len(commits) + 1
      /\ \A c \in 1..Len(commits) : commits'[c] = commits[c]
      /\ commits'[Len(commits) + 1] = commit
  BY <1>1, AppendProperties
<1> QED
  BY <1>1, <1>2, HaveTyped DEF Have

-----------------------------------------------------------------------------
LEMMA InitTyped == Init => GitTypeOK
<1> SUFFICES ASSUME Init PROVE GitTypeOK
  OBVIOUS
<1>0. PICK n \in 0..MaxHistory : \E trees \in [1..n -> [Files -> Texts \cup {Absent}]] :
        /\ commits = [c \in 1..n |-> [tree |-> trees[c], parent |-> c - 1, ours |-> TRUE]]
        /\ refs = [b \in Branches \cup {Detached} |-> IF b \in {Trunk, head} THEN n ELSE 0]
        /\ remote = [b \in Branches |-> IF b = Trunk THEN n ELSE 0]
        /\ index = IF n = 0 THEN Blank ELSE trees[n]
  BY DEF Init
<1>1. PICK trees \in [1..n -> [Files -> Texts \cup {Absent}]] :
        /\ commits = [c \in 1..n |-> [tree |-> trees[c], parent |-> c - 1, ours |-> TRUE]]
        /\ refs = [b \in Branches \cup {Detached} |-> IF b \in {Trunk, head} THEN n ELSE 0]
        /\ remote = [b \in Branches |-> IF b = Trunk THEN n ELSE 0]
        /\ index = IF n = 0 THEN Blank ELSE trees[n]
  BY <1>0
<1>2. n \in Nat /\ n <= MaxCommits /\ MaxCommits \in Nat
  BY RepoAssumption
<1>3. [Files -> Texts \cup {Absent}] \subseteq Trees
  BY DEF Trees, Contents
<1>4. \A c \in 1..n : [tree |-> trees[c], parent |-> c - 1, ours |-> TRUE] \in CommitRecords
  BY <1>2, <1>3 DEF CommitRecords
<1>5. commits \in Seq(CommitRecords) /\ Len(commits) = n
  BY <1>1, <1>2, <1>4, IsASeq
<1>6. \A c \in 1..n : Parent(c) < c /\ commits[c].ours
  BY <1>1, <1>2 DEF Parent
<1>7. Have = 1..n
  BY <1>5, <1>6 DEF Have
<1>8. index \in Trees /\ tree \in Trees
  <2>1. Blank \in Trees
    BY DEF Blank, Trees, Contents
  <2> QED
    BY <1>1, <1>2, <1>3, <2>1 DEF Init
<1>9. refs \in [Branches \cup {Detached} -> {0} \cup Have] /\ remote \in [Branches -> 0..n]
  BY <1>1, <1>2, <1>7
<1>10. did \in [request : Requests, answer : Answers] /\ steps \in 0..MaxSteps
  BY RepoAssumption DEF Init, Requests, Answers
<1>11. head \in Branches \cup {Detached} /\ unmerged \in SUBSET Files
       /\ stash \in Seq([base : Have, tree : Trees])
  BY NamesApart DEF Init
<1> QED
  BY <1>2, <1>5, <1>6, <1>8, <1>9, <1>10, <1>11 DEF GitTypeOK, CommitRecords
-----------------------------------------------------------------------------
LEMMA AnswerTyped ==
  ASSUME GitTypeOK, NEW request \in Requests, NEW answer \in Answers, Answer(request, answer)
  PROVE  did' \in [request : Requests, answer : Answers] /\ steps' \in 0..MaxSteps
BY RepoAssumption DEF GitTypeOK, Answer

LEMMA ReadKeepsType ==
  ASSUME GitTypeOK, NEW request \in Requests, NEW answer \in Answers,
         Answer(request, answer), UNCHANGED repoVars
  PROVE  GitTypeOK'
BY AnswerTyped, HaveStays DEF GitTypeOK, repoVars, Parent

LEMMA SwitchKeepsType ==
  ASSUME GitTypeOK, NEW request \in Requests, Answer(request, "ok"),
         NEW at \in Branches \cup {Detached}, NEW c \in Have,
         NEW made \in [Branches \cup {Detached} -> {0} \cup Have],
         Switch(at, c, made)
  PROVE  GitTypeOK'
<1>1. did' \in [request : Requests, answer : Answers] /\ steps' \in 0..MaxSteps
  BY AnswerTyped DEF Answers
<1>2. TreeOf(c) \in Trees /\ index \in Trees /\ tree \in Trees
  BY TreeTyped, HaveTyped DEF GitTypeOK
<1>3. index' \in Trees /\ tree' \in Trees
  BY <1>2 DEF Switch, Moved, Trees
<1>4. refs' \in [Branches \cup {Detached} -> {0} \cup Have]
  BY DEF Switch
<1>5. UNCHANGED <<commits, unmerged, stash, remote>> /\ head' = at
  BY DEF Switch
<1> QED
  BY <1>1, <1>3, <1>4, <1>5, HaveStays DEF GitTypeOK, Parent

LEMMA CreateKeepsType ==
  ASSUME GitTypeOK, NEW request \in Requests, NEW name \in Branches, NEW base,
         CreateAndSwitch(request, name, base)
  PROVE  GitTypeOK'
<1> DEFINE c == Resolve(base)
           made == [refs EXCEPT ![name] = c]
<1>1. c \in {0} \cup Have
  BY ResolveTyped
<1>2. made \in [Branches \cup {Detached} -> {0} \cup Have]
  BY <1>1 DEF GitTypeOK
<1>3. CASE ~Creatable(name, base) /\ Answer(request, "not_found") /\ UNCHANGED repoVars
  BY <1>3, ReadKeepsType DEF Answers
<1>4. CASE Creatable(name, base) /\ Switchable(c) /\ Switch(name, c, made) /\ Answer(request, "ok")
  <2>1. c \in Have
    BY <1>1, <1>4 DEF Switchable
  <2> HIDE DEF c, made
  <2> QED
    BY <1>2, <1>4, <2>1, SwitchKeepsType
<1>5. CASE /\ refs' = made /\ Answer(request, "not_found")
           /\ UNCHANGED <<commits, head, index, tree, unmerged, stash, remote>>
  <2>1. did' \in [request : Requests, answer : Answers] /\ steps' \in 0..MaxSteps
    BY <1>5, AnswerTyped DEF Answers
  <2> QED
    BY <1>2, <1>5, <2>1, HaveStays DEF GitTypeOK, Parent
<1> QED
  BY <1>3, <1>4, <1>5 DEF CreateAndSwitch

LEMMA CheckoutKeepsType ==
  ASSUME GitTypeOK, NEW request \in CheckoutRequests, Checkout(request)
  PROVE  GitTypeOK'
<1> DEFINE ref == request.ref
           c == Resolve(ref)
           at == CASE ref \in Branches -> ref [] ref = HeadRef -> head [] OTHER -> Detached
<1>0. request \in Requests /\ (request.create => ref \in Branches)
  BY DEF Requests, CheckoutRequests
<1>1. CASE request.create /\ CreateAndSwitch(request, ref, request.base)
  BY <1>0, <1>1, CreateKeepsType
<1>2. CASE Switchable(c) /\ Switch(at, c, refs) /\ Answer(request, "ok")
  <2>1. c \in Have
    BY <1>2, ResolveTyped DEF Switchable
  <2>2. at \in Branches \cup {Detached} /\ refs \in [Branches \cup {Detached} -> {0} \cup Have]
    BY DEF GitTypeOK
  <2> HIDE DEF c, at
  <2> QED
    BY <1>0, <1>2, <2>1, <2>2, SwitchKeepsType
<1>3. CASE Answer(request, "not_found") /\ UNCHANGED repoVars
  BY <1>0, <1>3, ReadKeepsType DEF Answers
<1> QED
  BY <1>1, <1>2, <1>3 DEF Checkout
LEMMA StageKeepsType ==
  ASSUME GitTypeOK, NEW request \in StageRequests, Stage(request)
  PROVE  GitTypeOK'
<1>0. request \in Requests
  BY DEF Requests
<1>1. CASE Answer(request, "not_found") /\ UNCHANGED repoVars
  BY <1>0, <1>1, ReadKeepsType DEF Answers
<1>2. CASE /\ index' = [f \in Files |-> IF f \in request.paths THEN tree[f] ELSE index[f]]
           /\ unmerged' \in {unmerged, unmerged \ request.paths}
           /\ Answer(request, "ok")
           /\ UNCHANGED <<commits, refs, head, tree, stash, remote>>
  <2>1. did' \in [request : Requests, answer : Answers] /\ steps' \in 0..MaxSteps
    BY <1>0, <1>2, AnswerTyped DEF Answers
  <2>2. index' \in Trees
    BY <1>2 DEF GitTypeOK, Trees
  <2>3. unmerged' \in SUBSET Files
    BY <1>2 DEF GitTypeOK
  <2> QED
    BY <1>2, <2>1, <2>2, <2>3, HaveStays DEF GitTypeOK, Parent
<1> QED
  BY <1>1, <1>2 DEF Stage

(* A commit appended, ours or not, leaves every id meaning what it did.    *)
LEMMA AppendKeepsCommits ==
  ASSUME GitTypeOK, NEW commit \in CommitRecords, commits' = Append(commits, commit),
         commit.parent \in 0..Len(commits), Len(commits) < MaxCommits
  PROVE  /\ commits' \in Seq(CommitRecords)
         /\ Len(commits') = Len(commits) + 1 /\ Len(commits') <= MaxCommits
         /\ \A c \in 1..Len(commits') : commits'[c].parent < c
<1>1. commits \in Seq(CommitRecords) /\ \A c \in 1..Len(commits) : commits[c].parent < c
  BY DEF GitTypeOK, CommitRecords, Parent
<1>2. /\ commits' \in Seq(CommitRecords)
      /\ Len(commits') = Len(commits) + 1
      /\ \A c \in 1..Len(commits) : commits'[c] = commits[c]
      /\ commits'[Len(commits) + 1] = commit
  BY <1>1, AppendProperties
<1> QED
  BY <1>1, <1>2, RepoAssumption

LEMMA StashStaysTyped ==
  ASSUME GitTypeOK, Have \subseteq Have'
  PROVE  stash \in Seq([base : Have', tree : Trees])
<1> DEFINE S == [base : Have, tree : Trees]
           T == [base : Have', tree : Trees]
<1>1. S \subseteq T
  OBVIOUS
<1>2. stash \in Seq(S)
  BY DEF GitTypeOK
<1> HIDE DEF S, T
<1>3. stash \in Seq(T)
  BY <1>1, <1>2, SeqMonotonic
<1> QED
  BY <1>3 DEF T

LEMMA CommitKeepsType ==
  ASSUME GitTypeOK, NEW request \in CommitRequests, Commit(request)
  PROVE  GitTypeOK'
<1>0. request \in Requests
  BY DEF Requests
<1>1. CASE (Answer(request, "malformed") \/ Answer(request, "escaped")) /\ UNCHANGED repoVars
  BY <1>0, <1>1, ReadKeepsType DEF Answers
<1>2. CASE /\ Len(commits) < MaxCommits
           /\ commits' = Append(commits, [tree |-> index, parent |-> refs[head], ours |-> TRUE])
           /\ refs' = [refs EXCEPT ![head] = Len(commits) + 1]
           /\ Answer(request, "ok")
           /\ UNCHANGED <<head, index, tree, unmerged, stash, remote>>
  <2> DEFINE commit == [tree |-> index, parent |-> refs[head], ours |-> TRUE]
  <2>1. refs[head] \in 0..Len(commits) /\ Len(commits) \in Nat
    BY HeadCommit, HaveTyped
  <2>2. commit \in CommitRecords /\ commit.parent \in 0..Len(commits) /\ commit.ours
    BY <1>2, <2>1, RepoAssumption DEF GitTypeOK, CommitRecords
  <2> HIDE DEF commit
  <2>3. Have \subseteq Have' /\ Len(commits) + 1 \in Have' /\ Len(commits') = Len(commits) + 1
    BY <1>2, <2>2, HaveGrows DEF commit
  <2>4. /\ commits' \in Seq(CommitRecords) /\ Len(commits') <= MaxCommits
        /\ \A c \in 1..Len(commits') : commits'[c].parent < c
    BY <1>2, <2>2, AppendKeepsCommits DEF commit
  <2>5. refs' \in [Branches \cup {Detached} -> {0} \cup Have']
    BY <1>2, <2>3 DEF GitTypeOK
  <2>6. remote' \in [Branches -> 0..Len(commits')]
    BY <1>2, <2>1, <2>3 DEF GitTypeOK
  <2>7. stash' \in Seq([base : Have', tree : Trees])
    BY <1>2, <2>3, StashStaysTyped
  <2>8. did' \in [request : Requests, answer : Answers] /\ steps' \in 0..MaxSteps
    BY <1>0, <1>2, AnswerTyped DEF Answers
  <2> QED
    BY <1>2, <2>4, <2>5, <2>6, <2>7, <2>8 DEF GitTypeOK, Parent, CommitRecords
<1> QED
  BY <1>1, <1>2 DEF Commit

LEMMA ResetKeepsType ==
  ASSUME GitTypeOK, NEW request \in ResetRequests, Reset(request)
  PROVE  GitTypeOK'
<1> DEFINE c == Resolve(request.ref)
           tracked == {f \in Files : index[f] # Absent \/ TreeOf(c)[f] # Absent} \cup unmerged
<1>0. request \in Requests
  BY DEF Requests
<1>1. CASE Answer(request, "not_found") /\ UNCHANGED repoVars
  BY <1>0, <1>1, ReadKeepsType DEF Answers
<1>2. CASE /\ c # 0
           /\ refs' = [refs EXCEPT ![head] = c]
           /\ index' = TreeOf(c)
           /\ unmerged' = {}
           /\ tree' = IF request.hard
                        THEN [f \in Files |-> IF f \in tracked THEN TreeOf(c)[f] ELSE tree[f]]
                        ELSE tree
           /\ Answer(request, "ok")
           /\ UNCHANGED <<commits, head, stash, remote>>
  <2>1. c \in Have
    BY <1>2, ResolveTyped
  <2>2. TreeOf(c) \in Trees
    BY <2>1, TreeTyped, HaveTyped
  <2>3. index' \in Trees /\ tree' \in Trees
    BY <1>2, <2>2 DEF GitTypeOK, Trees
  <2>4. refs' \in [Branches \cup {Detached} -> {0} \cup Have]
    BY <1>2, <2>1 DEF GitTypeOK
  <2>5. did' \in [request : Requests, answer : Answers] /\ steps' \in 0..MaxSteps
    BY <1>0, <1>2, AnswerTyped DEF Answers
  <2> HIDE DEF c, tracked
  <2> QED
    BY <1>2, <2>3, <2>4, <2>5, HaveStays DEF GitTypeOK, Parent
<1> QED
  BY <1>1, <1>2 DEF Reset

LEMMA StashPushKeepsType ==
  ASSUME GitTypeOK, NEW request \in Requests, StashPush(request)
  PROVE  GitTypeOK'
<1>1. CASE (Answer(request, "escaped") \/ Answer(request, "ok")) /\ UNCHANGED repoVars
  BY <1>1, ReadKeepsType DEF Answers
<1>2. CASE /\ refs[head] # 0
           /\ stash' = <<[base |-> refs[head], tree |-> [f \in Files |-> Stashed(f)]]>> \o stash
           /\ index' = TreeOf(refs[head])
           /\ tree' = [f \in Files |-> IF Foreign(f) THEN tree[f] ELSE TreeOf(refs[head])[f]]
           /\ Answer(request, "ok")
           /\ UNCHANGED <<commits, refs, head, unmerged, remote>>
  <2>1. refs[head] \in Have
    BY <1>2, HeadCommit
  <2>2. TreeOf(refs[head]) \in Trees /\ index \in Trees /\ tree \in Trees
    BY <2>1, TreeTyped, HaveTyped DEF GitTypeOK
  <2>3. index' \in Trees /\ tree' \in Trees
    BY <1>2, <2>2 DEF Trees
  <2>4. [f \in Files |-> Stashed(f)] \in Trees
    <3>1. \A f \in Files : Stashed(f) \in Contents
      BY <2>2 DEF Trees, Contents, Stashed
    <3> QED
      BY <3>1 DEF Trees
  <2>5. stash' \in Seq([base : Have, tree : Trees])
    <3> DEFINE entry == [base |-> refs[head], tree |-> [f \in Files |-> Stashed(f)]]
               S == [base : Have, tree : Trees]
    <3>1. entry \in S
      BY <2>1, <2>4
    <3>2. stash \in Seq(S) /\ stash' = <<entry>> \o stash
      BY <1>2 DEF GitTypeOK
    <3> HIDE DEF entry, S
    <3>3. <<entry>> \in Seq(S)
      BY <3>1
    <3> QED
      BY <3>2, <3>3, ConcatProperties DEF S
  <2>6. did' \in [request : Requests, answer : Answers] /\ steps' \in 0..MaxSteps
    BY <1>2, AnswerTyped DEF Answers
  <2> QED
    BY <1>2, <2>3, <2>5, <2>6, HaveStays DEF GitTypeOK, Parent
<1> QED
  BY <1>1, <1>2 DEF StashPush

LEMMA StashPopKeepsType ==
  ASSUME GitTypeOK, NEW request \in Requests, StashPop(request)
  PROVE  GitTypeOK'
<1> DEFINE entry == stash[1]
           base(f) == TreeOf(entry.base)[f]
           brings(f) == entry.tree[f] \notin {base(f), index[f]}
           conflicts == {f \in Files : brings(f) /\ index[f] # base(f)}
           deletes(f) == f \in conflicts /\ entry.tree[f] = Absent
           inTheWay(f) == brings(f) /\ ~deletes(f) /\ tree[f] \notin {index[f], Absent}
           kept(f) == ~brings(f) \/ deletes(f)
           marked(f) == f \in conflicts /\ index[f] # Absent
           merged == [f \in Files |->
                        IF ~brings(f) \/ deletes(f) THEN tree[f]
                        ELSE IF f \in conflicts /\ index[f] # Absent THEN Markers
                        ELSE entry.tree[f]]
           S == [base : Have, tree : Trees]
<1>1. CASE Answer(request, "not_found") /\ UNCHANGED repoVars
  BY <1>1, ReadKeepsType DEF Answers
<1>2. ASSUME stash # <<>>
      PROVE  /\ merged \in Trees /\ entry.tree \in Trees
             /\ Tail(stash) \in Seq([base : Have, tree : Trees])
  <2>1. stash \in Seq(S)
    BY DEF GitTypeOK
  <2>2. entry \in S /\ Tail(stash) \in Seq(S)
    <3> HIDE DEF S
    <3> QED
      BY <1>2, <2>1
  <2>3. entry.tree \in Trees /\ tree \in Trees
    BY <2>2 DEF GitTypeOK
  <2>4. Markers \in Contents
    BY DEF Contents
  <2> HIDE DEF entry, brings, deletes, conflicts
  <2>5. \A f \in Files : merged[f] \in Contents
    BY <2>3, <2>4 DEF Trees
  <2>6. merged \in Trees
    BY <2>5 DEF Trees
  <2> QED
    BY <2>2, <2>3, <2>6
<1>3. CASE /\ stash # <<>>
           /\ tree' = merged
           /\ index' = [f \in Files |-> IF brings(f) /\ f \notin conflicts
                                          THEN merged[f] ELSE index[f]]
           /\ unmerged' = conflicts
           /\ Answer(request, "not_found")
           /\ UNCHANGED <<commits, refs, head, stash, remote>>
  <2>1. did' \in [request : Requests, answer : Answers] /\ steps' \in 0..MaxSteps
    BY <1>3, AnswerTyped DEF Answers
  <2>2. unmerged' \in SUBSET Files
    BY <1>3
  <2> HIDE DEF merged, brings, conflicts
  <2>3. index' \in Trees /\ tree' \in Trees
    BY <1>2, <1>3 DEF GitTypeOK, Trees
  <2> QED
    BY <1>3, <2>1, <2>2, <2>3, HaveStays DEF GitTypeOK, Parent
<1>4. CASE /\ stash # <<>>
           /\ tree' = merged
           /\ index' = [f \in Files |-> IF brings(f) /\ index[f] = Absent
                                          THEN entry.tree[f] ELSE index[f]]
           /\ stash' = Tail(stash)
           /\ Answer(request, "ok")
           /\ UNCHANGED <<commits, refs, head, unmerged, remote>>
  <2>1. did' \in [request : Requests, answer : Answers] /\ steps' \in 0..MaxSteps
    BY <1>4, AnswerTyped DEF Answers
  <2> HIDE DEF merged, brings, entry
  <2>2. index' \in Trees /\ tree' \in Trees
    BY <1>2, <1>4 DEF GitTypeOK, Trees
  <2>3. stash' \in Seq([base : Have, tree : Trees])
    BY <1>2, <1>4
  <2> QED
    BY <1>4, <2>1, <2>2, <2>3, HaveStays DEF GitTypeOK, Parent
<1> QED
  BY <1>1, <1>3, <1>4 DEF StashPop

(* What a push takes a branch of the remote to is a commit of this         *)
(* repository, or nothing.                                                 *)
LEMMA SentTyped ==
  ASSUME GitTypeOK, NEW spec, NEW b \in Branches
  PROVE  Sent(spec, b) \in {0} \cup Have
<1>1. refs[b] \in {0} \cup Have
  BY DEF GitTypeOK
<1>2. Resolve(spec.src) \in {0} \cup Have
  BY ResolveTyped
<1> QED
  BY <1>1, <1>2 DEF Sent

LEMMA PushKeepsType ==
  ASSUME GitTypeOK, NEW request \in PushRequests, Push(request)
  PROVE  GitTypeOK'
<1> DEFINE spec == Refspec(request)
<1>0. request \in Requests
  BY DEF Requests
<1>1. CASE (Answer(request, "malformed") \/ Answer(request, "not_found") \/ Answer(request, "ok"))
             /\ UNCHANGED repoVars
  BY <1>0, <1>1, ReadKeepsType DEF Answers
<1>2. ASSUME NEW moved, NEW answer \in Answers,
             remote' = [b \in Branches |-> IF b \in moved THEN Sent(spec, b) ELSE remote[b]],
             Answer(request, answer),
             UNCHANGED <<commits, refs, head, index, tree, unmerged, stash>>
      PROVE  GitTypeOK'
  <2> HIDE DEF spec
  <2>1. \A b \in Branches : Sent(spec, b) \in 0..Len(commits)
    BY SentTyped, HaveTyped
  <2>2. did' \in [request : Requests, answer : Answers] /\ steps' \in 0..MaxSteps
    BY <1>0, <1>2, AnswerTyped
  <2>3. remote' \in [Branches -> 0..Len(commits)]
    BY <1>2, <2>1 DEF GitTypeOK
  <2> QED
    BY <1>2, <2>2, <2>3, HaveStays DEF GitTypeOK, Parent
<1>3. "ok" \in Answers /\ "not_found" \in Answers
  BY DEF Answers
<1> QED
  BY <1>1, <1>2, <1>3 DEF Push

LEMMA ElsewhereTyped ==
  ASSUME GitTypeOK, Elsewhere
  PROVE  did' \in [request : Requests, answer : Answers] /\ steps' \in 0..MaxSteps
<1>1. [tool |-> "none"] \in Requests /\ "ok" \in Answers
  BY DEF Requests, Answers
<1> QED
  BY <1>1, AnswerTyped DEF Elsewhere

LEMMA EditKeepsType ==
  ASSUME GitTypeOK, NEW f \in Files, Edit(f) PROVE GitTypeOK'
<1>1. did' \in [request : Requests, answer : Answers] /\ steps' \in 0..MaxSteps
  BY ElsewhereTyped DEF Edit
<1>2. tree' \in Trees
  BY DEF Edit, GitTypeOK, Trees, Contents
<1> QED
  BY <1>1, <1>2, HaveStays DEF Edit, GitTypeOK, Parent

LEMMA OthersPushKeepsType ==
  ASSUME GitTypeOK, NEW b \in Branches, OthersPush(b) PROVE GitTypeOK'
<1> DEFINE commit == [tree |-> TreeOf(remote[b]), parent |-> remote[b], ours |-> FALSE]
<1>1. remote[b] \in 0..Len(commits) /\ Len(commits) \in Nat /\ Len(commits) < MaxCommits
  BY HaveTyped DEF OthersPush, GitTypeOK
<1>2. commit \in CommitRecords /\ commit.parent \in 0..Len(commits)
  BY <1>1, TreeTyped, RepoAssumption DEF CommitRecords
<1>3. commits' = Append(commits, commit)
  BY DEF OthersPush
<1> HIDE DEF commit
<1>4. Have \subseteq Have' /\ Len(commits') = Len(commits) + 1
  BY <1>2, <1>3, HaveGrows
<1>5. /\ commits' \in Seq(CommitRecords) /\ Len(commits') <= MaxCommits
      /\ \A c \in 1..Len(commits') : commits'[c].parent < c
  BY <1>1, <1>2, <1>3, AppendKeepsCommits
<1>6. refs' \in [Branches \cup {Detached} -> {0} \cup Have']
  BY <1>4 DEF OthersPush, GitTypeOK
<1>7. remote' \in [Branches -> 0..Len(commits')]
  BY <1>1, <1>4 DEF OthersPush, GitTypeOK
<1>8. stash' \in Seq([base : Have', tree : Trees])
  BY <1>4, StashStaysTyped DEF OthersPush
<1>9. did' \in [request : Requests, answer : Answers] /\ steps' \in 0..MaxSteps
  BY ElsewhereTyped DEF OthersPush
<1> QED
  BY <1>5, <1>6, <1>7, <1>8, <1>9 DEF OthersPush, GitTypeOK, Parent, CommitRecords

LEMMA NextKeepsType == GitTypeOK /\ [Next]_vars => GitTypeOK'
<1> SUFFICES ASSUME GitTypeOK, [Next]_vars PROVE GitTypeOK'
  OBVIOUS
<1>1. ASSUME NEW request \in BranchCreateRequests, BranchCreate(request) PROVE GitTypeOK'
  <2>1. request \in Requests /\ request.name \in Branches
    BY DEF Requests, BranchCreateRequests
  <2> QED
    BY <1>1, <2>1, CreateKeepsType DEF BranchCreate
<1>2. ASSUME NEW request \in StashRequests, Stash(request) PROVE GitTypeOK'
  <2>1. request \in Requests
    BY DEF Requests
  <2> QED
    BY <1>2, <2>1, StashPushKeepsType, StashPopKeepsType DEF Stash
<1>3. ASSUME NEW request \in ReadRequests, Read(request) PROVE GitTypeOK'
  <2>1. request \in Requests
    BY DEF Requests
  <2>2. Answer(request, "ok") \/ Answer(request, "not_found")
    BY <1>3 DEF Read
  <2>3. UNCHANGED repoVars
    BY <1>3 DEF Read
  <2> QED
    BY <2>1, <2>2, <2>3, ReadKeepsType DEF Answers
<1>4. CASE UNCHANGED vars
  BY <1>4, HaveStays DEF vars, GitTypeOK, Parent
<1> QED
  BY <1>1, <1>2, <1>3, <1>4, CheckoutKeepsType, StageKeepsType, CommitKeepsType,
     ResetKeepsType, PushKeepsType, EditKeepsType, OthersPushKeepsType DEF Next

(* Refs and stash entries name commits this repository has, and a commit's *)
(* parent is older than it, whatever the tools are asked for.              *)
THEOREM GitTyped == Spec => []GitTypeOK
BY InitTyped, NextKeepsType, PTL DEF Spec
-----------------------------------------------------------------------------
(* The branch policy.                                                      *)

PolicyStep == [Policy!PolicyNext]_(Policy!policyVars)

LEMMA HeadIsNoPattern == GitTypeOK => head \notin {None, Every, HeadRef}
BY RepoAssumption DEF GitTypeOK

LEMMA GuardedTyped ==
  Guarded \subseteq Branches /\ Detached \notin Guarded /\ HeadRef \notin Guarded
BY NamesApart DEF Guarded

LEMMA PolicyInitially == Init => Policy!PolicyInit
<1> SUFFICES ASSUME Init PROVE Policy!PolicyInit
  OBVIOUS
<1>1. GitTypeOK
  BY InitTyped
<1>2. \A b \in Guarded : refs[b] \in 0..Len(commits) /\ remote[b] \in 0..Len(commits)
  BY <1>1, GuardedTyped, HaveTyped DEF GitTypeOK
<1> QED
  BY <1>1, <1>2, HaveTyped DEF Policy!PolicyInit

(* One branch at most is moved here, to a commit there is.                 *)
LEMMA LocalStep ==
  ASSUME GitTypeOK, UNCHANGED <<commits, remote>>, NEW x, NEW c \in Have,
         \A b \in Guarded : refs'[b] = IF b = x THEN c ELSE refs[b]
  PROVE  PolicyStep
<1>1. c \in 1..Len(commits)
  BY HaveTyped
<1>2. CASE x \in Guarded
  <2>1. [b \in Guarded |-> refs'[b]] = [[b \in Guarded |-> refs[b]] EXCEPT ![x] = c]
    BY <1>2
  <2>2. Policy!Retarget(x)
    BY <1>1, <2>1 DEF Policy!Retarget
  <2> QED
    BY <1>2, <2>2 DEF PolicyStep, Policy!PolicyNext
<1>3. CASE x \notin Guarded
  BY <1>3 DEF PolicyStep, Policy!policyVars
<1> QED
  BY <1>2, <1>3

LEMMA LocalStays ==
  ASSUME UNCHANGED <<commits, refs, remote>>
  PROVE  PolicyStep
BY DEF PolicyStep, Policy!policyVars

LEMMA CreateStep ==
  ASSUME GitTypeOK, NEW request, NEW name \in Branches, NEW base,
         CreateAndSwitch(request, name, base)
  PROVE  PolicyStep
<1> DEFINE c == Resolve(base)
<1>1. CASE UNCHANGED repoVars
  BY <1>1, LocalStays DEF repoVars
<1>2. ASSUME Creatable(name, base),
             refs' = [refs EXCEPT ![name] = c]
               \/ \E d : refs' = [[refs EXCEPT ![name] = c] EXCEPT ![Detached] = d],
             UNCHANGED <<commits, remote>>
      PROVE  PolicyStep
  <2>1. c \in Have
    BY <1>2, ResolveTyped DEF Creatable
  <2>2. \A b \in Guarded : refs'[b] = IF b = name THEN c ELSE refs[b]
    BY <1>2, GuardedTyped DEF GitTypeOK
  <2> HIDE DEF c
  <2> QED
    BY <1>2, <2>1, <2>2, LocalStep
<1> QED
  BY <1>1, <1>2 DEF CreateAndSwitch, Switch

LEMMA CheckoutStep ==
  ASSUME GitTypeOK, NEW request \in CheckoutRequests, Checkout(request)
  PROVE  PolicyStep
<1>0. request.create => request.ref \in Branches
  BY DEF CheckoutRequests
<1>1. CASE request.create /\ CreateAndSwitch(request, request.ref, request.base)
  BY <1>0, <1>1, CreateStep
<1>2. CASE UNCHANGED repoVars
  BY <1>2, LocalStays DEF repoVars
<1>3. ASSUME NEW at, Switchable(Resolve(request.ref)), Switch(at, Resolve(request.ref), refs)
      PROVE  PolicyStep
  <2>1. Resolve(request.ref) \in Have
    BY <1>3, ResolveTyped DEF Switchable
  <2>2. \A b \in Guarded : refs'[b] = refs[b]
    BY <1>3, GuardedTyped DEF GitTypeOK, Switch
  <2>3. UNCHANGED <<commits, remote>>
    BY <1>3 DEF Switch
  <2> QED
    BY <2>2, <2>3 DEF PolicyStep, Policy!policyVars
<1> QED
  BY <1>1, <1>2, <1>3 DEF Checkout

LEMMA CommitStep ==
  ASSUME GitTypeOK, NEW request, Commit(request)
  PROVE  PolicyStep
<1>1. CASE UNCHANGED repoVars
  BY <1>1, LocalStays DEF repoVars
<1>2. CASE /\ ~WriteRejected(head)
           /\ commits' = Append(commits, [tree |-> index, parent |-> refs[head], ours |-> TRUE])
           /\ refs' = [refs EXCEPT ![head] = Len(commits) + 1]
           /\ UNCHANGED remote
  <2>1. head \notin Guarded
    BY <1>2 DEF WriteRejected, Guarded
  <2>2. \A b \in Guarded : refs'[b] = refs[b]
    BY <1>2, <2>1, GuardedTyped DEF GitTypeOK
  <2>3. Len(commits') = Len(commits) + 1
    BY <1>2 DEF GitTypeOK
  <2>4. Policy!Commit
    BY <1>2, <2>2, <2>3 DEF Policy!Commit
  <2> QED
    BY <2>4 DEF PolicyStep, Policy!PolicyNext
<1> QED
  BY <1>1, <1>2 DEF Commit

LEMMA ResetStep ==
  ASSUME GitTypeOK, NEW request, Reset(request)
  PROVE  PolicyStep
<1> DEFINE c == Resolve(request.ref)
<1>1. CASE UNCHANGED repoVars
  BY <1>1, LocalStays DEF repoVars
<1>2. ASSUME c # 0, refs' = [refs EXCEPT ![head] = c], UNCHANGED <<commits, remote>>
      PROVE  PolicyStep
  <2>1. c \in Have
    BY <1>2, ResolveTyped
  <2>2. \A b \in Guarded : refs'[b] = IF b = head THEN c ELSE refs[b]
    BY <1>2, GuardedTyped DEF GitTypeOK
  <2> HIDE DEF c
  <2> QED
    BY <1>2, <2>1, <2>2, LocalStep
<1> QED
  BY <1>1, <1>2 DEF Reset

(* A branch that is guarded and is moved by a push the guard lets through  *)
(* is not named plainly.                                                   *)
LEMMA GuardedIsReachedRoundabout ==
  ASSUME GitTypeOK, NEW request \in PushRequests, ~PushRejected(Refspec(request)),
         did'.request = request,
         NEW b \in Guarded, b \in Destinations(Refspec(request))
  PROVE  Roundabout'
<1> DEFINE spec == Refspec(request)
<1>1. ~WritesAllowed /\ b \in Protected /\ b \in Branches
  BY GuardedTyped DEF Guarded
<1>2. \A side \in {"src", "dst"} : spec[side] = b => side \in spec.heads
  BY <1>1 DEF PushRejected
<1>3. spec.src = b => "src" \in spec.heads
  BY <1>2
<1>4. spec.dst = b => "dst" \in spec.heads
  BY <1>2
<1>5. request.branch # None
  <2>1. SUFFICES ASSUME request.branch = None PROVE FALSE
    OBVIOUS
  <2>2. spec.src = head /\ spec.dst = None /\ spec.heads = {}
    BY <2>1 DEF Refspec
  <2>3. head # None /\ head # Every /\ head # HeadRef
    BY HeadIsNoPattern
  <2>4. Destinations(spec) \subseteq {head}
    <3> HIDE DEF spec
    <3> QED
      BY <2>2, <2>3 DEF Destinations, Several, Strays
  <2> QED
    BY <1>3, <2>2, <2>4
<1>6. spec = request.branch
  BY <1>5 DEF Refspec
<1>7. \/ "dst" \in spec.heads
      \/ spec.dst = None /\ (spec.src \in {None, Every, HeadRef} \/ "src" \in spec.heads)
  <2>1. b \in Destinations(spec)
    OBVIOUS
  <2> HIDE DEF spec
  <2>2. CASE Several(spec)
    BY <2>2 DEF Several
  <2>3. CASE ~Several(spec) /\ spec.dst # None
    BY <1>4, <2>1, <2>3 DEF Destinations
  <2>4. CASE ~Several(spec) /\ spec.dst = None
    BY <1>3, <2>1, <2>4 DEF Destinations
  <2> QED
    BY <2>2, <2>3, <2>4
<1>8. request.tool = "push"
  BY DEF PushRequests
<1> QED
  BY <1>5, <1>6, <1>7, <1>8 DEF Roundabout

LEMMA PushStep ==
  ASSUME GitTypeOK, NEW request \in PushRequests, Push(request)
  PROVE  PolicyStep
<1> DEFINE spec == Refspec(request)
<1>1. CASE UNCHANGED repoVars
  BY <1>1, LocalStays DEF repoVars
<1>2. ASSUME NEW moved \in SUBSET Destinations(spec), NEW answer,
             ~PushRejected(spec), Answer(request, answer),
             remote' = [b \in Branches |-> IF b \in moved THEN Sent(spec, b) ELSE remote[b]],
             UNCHANGED <<commits, refs>>
      PROVE  PolicyStep
  <2>1. CASE \E b \in Guarded : b \in moved
    <3>1. Roundabout'
      BY <1>2, <2>1, GuardedIsReachedRoundabout DEF Answer
    <3> HIDE DEF spec
    <3>2. \A b \in Guarded : remote'[b] \in 0..Len(commits)
      <4>1. \A b \in Branches : Sent(spec, b) \in 0..Len(commits)
        BY SentTyped, HaveTyped
      <4>2. \A b \in Branches : remote[b] \in 0..Len(commits)
        BY DEF GitTypeOK
      <4> QED
        BY <1>2, <4>1, <4>2, GuardedTyped
    <3>3. Policy!Slip
      BY <1>2, <3>1, <3>2 DEF Policy!Slip
    <3> QED
      BY <3>3 DEF PolicyStep, Policy!PolicyNext
  <2>2. CASE \A b \in Guarded : b \notin moved
    <3>1. \A b \in Guarded : remote'[b] = remote[b]
      BY <1>2, <2>2, GuardedTyped
    <3> QED
      BY <1>2, <3>1 DEF PolicyStep, Policy!policyVars
  <2> QED
    BY <2>1, <2>2
<1>3. \A moved : moved \in SUBSET {b \in Destinations(spec) : Pushable(spec, request.force, b)}
                    => moved \in SUBSET Destinations(spec)
  OBVIOUS
<1> QED
  BY <1>1, <1>2, <1>3 DEF Push

LEMMA OthersPushStep ==
  ASSUME GitTypeOK, NEW b \in Branches, OthersPush(b)
  PROVE  PolicyStep
<1>1. Len(commits') = Len(commits) + 1
  BY DEF OthersPush, GitTypeOK
<1>2. remote' = [remote EXCEPT ![b] = Len(commits) + 1] /\ UNCHANGED refs
  BY DEF OthersPush
<1>3. CASE b \in Guarded
  <2>1. [d \in Guarded |-> remote'[d]]
          = [[d \in Guarded |-> remote[d]] EXCEPT ![b] = Len(commits) + 1]
    BY <1>2, <1>3, GuardedTyped DEF GitTypeOK
  <2>2. Policy!Receive(b)
    BY <1>1, <1>2, <2>1 DEF Policy!Receive
  <2> QED
    BY <1>3, <2>2 DEF PolicyStep, Policy!PolicyNext
<1>4. CASE b \notin Guarded
  <2>1. \A d \in Guarded : remote'[d] = remote[d]
    BY <1>2, <1>4, GuardedTyped DEF GitTypeOK
  <2>2. Policy!Commit
    BY <1>1, <1>2, <2>1 DEF Policy!Commit
  <2> QED
    BY <2>2 DEF PolicyStep, Policy!PolicyNext
<1> QED
  BY <1>3, <1>4

LEMMA NextImplements == GitTypeOK /\ [Next]_vars => PolicyStep
<1> SUFFICES ASSUME GitTypeOK, [Next]_vars PROVE PolicyStep
  OBVIOUS
<1>1. ASSUME NEW request \in BranchCreateRequests, BranchCreate(request) PROVE PolicyStep
  BY <1>1, CreateStep DEF BranchCreate, BranchCreateRequests
<1>2. ASSUME UNCHANGED <<commits, refs, remote>> PROVE PolicyStep
  BY <1>2, LocalStays
<1>3. ASSUME NEW request \in StageRequests, Stage(request) PROVE PolicyStep
  BY <1>2, <1>3 DEF Stage, repoVars
<1>4. ASSUME NEW request \in StashRequests, Stash(request) PROVE PolicyStep
  <2>1. UNCHANGED <<commits, refs, remote>>
    BY <1>4 DEF Stash, StashPush, StashPop, repoVars
  <2> QED
    BY <1>2, <2>1
<1>5. ASSUME NEW request \in ReadRequests, Read(request) PROVE PolicyStep
  BY <1>2, <1>5 DEF Read, repoVars
<1>6. ASSUME NEW f \in Files, Edit(f) PROVE PolicyStep
  BY <1>2, <1>6 DEF Edit
<1>7. CASE UNCHANGED vars
  BY <1>2, <1>7 DEF vars
<1> QED
  BY <1>1, <1>3, <1>4, <1>5, <1>6, <1>7, CheckoutStep, CommitStep, ResetStep, PushStep,
     OthersPushStep DEF Next

(* Whatever the tools are asked for, a protected branch gets no commit of  *)
(* theirs, and a push that names one plainly, or none, leaves it alone at  *)
(* the remote.                                                             *)
THEOREM PolicyImplemented == Spec => ImplementsPolicy
BY PolicyInitially, InitTyped, NextKeepsType, NextImplements, PTL
   DEF Spec, ImplementsPolicy, Policy!PolicySpec, PolicyStep
-----------------------------------------------------------------------------
(* Unsaved work.                                                           *)

Lost(f) ==
  /\ tree'[f] # tree[f] /\ did'.request.tool # "none" /\ ~HardReset'
  /\ tree[f] \notin Committed(f) \cup {Absent, index'[f]}
  /\ \A e \in 1..Len(stash') : stash'[e].tree[f] # tree[f]
WorkKept == \A f \in Files : ~Lost(f)
EntryKept ==
  Len(stash') < Len(stash) =>
    \A f \in Files : stash[1].tree[f] \in {TreeOf(stash[1].base)[f], index'[f], tree'[f]}

LEMMA KeptWhenStill ==
  ASSUME UNCHANGED <<tree, stash>>, GitTypeOK
  PROVE  WorkKept /\ EntryKept
BY DEF WorkKept, Lost, EntryKept, GitTypeOK

LEMMA HeadIsCommitted ==
  ASSUME NEW f PROVE TreeOf(refs[head])[f] \in Committed(f)
BY DEF Committed

LEMMA SwitchKeepsWork ==
  ASSUME GitTypeOK, NEW c, NEW at, NEW made, Switchable(c), Switch(at, c, made)
  PROVE  WorkKept /\ EntryKept
<1>1. ASSUME NEW f \in Files, tree'[f] # tree[f]
      PROVE  tree[f] \in {TreeOf(refs[head])[f], Absent}
  <2>1. TreeOf(c)[f] \notin {TreeOf(refs[head])[f], index[f]}
    BY <1>1 DEF Switch, Moved
  <2> QED
    BY <2>1 DEF Switchable, Carries
<1>2. stash' = stash
  BY DEF Switch
<1> QED
  BY <1>1, <1>2, HeadIsCommitted DEF WorkKept, Lost, EntryKept, GitTypeOK

LEMMA StashPushKeepsWork ==
  ASSUME GitTypeOK, NEW request, StashPush(request)
  PROVE  WorkKept /\ EntryKept
<1>1. CASE UNCHANGED repoVars
  BY <1>1, KeptWhenStill DEF repoVars
<1>2. CASE /\ stash' = <<[base |-> refs[head], tree |-> [f \in Files |-> Stashed(f)]]>> \o stash
           /\ tree' = [f \in Files |-> IF Foreign(f) THEN tree[f] ELSE TreeOf(refs[head])[f]]
  <2> DEFINE entry == [base |-> refs[head], tree |-> [f \in Files |-> Stashed(f)]]
             S == [base : {0} \cup Have, tree : {entry.tree} \cup Trees]
  <2>1. entry \in S /\ [base : Have, tree : Trees] \subseteq S
    BY HeadCommit
  <2>2. stash \in Seq([base : Have, tree : Trees]) /\ entry.tree = [f \in Files |-> Stashed(f)]
    BY DEF GitTypeOK
  <2> HIDE DEF entry, S
  <2>3. stash \in Seq(S) /\ <<entry>> \in Seq(S)
    <3> DEFINE R == [base : Have, tree : Trees]
    <3>1. stash \in Seq(R) /\ R \subseteq S
      BY <2>1, <2>2
    <3> HIDE DEF R
    <3>2. stash \in Seq(S)
      BY <3>1, SeqMonotonic
    <3> QED
      BY <3>2, <2>1
  <2>4. Len(stash') = Len(stash) + 1 /\ Len(stash) \in Nat /\ stash'[1] = entry
    <3>1. stash' = <<entry>> \o stash
      BY <1>2 DEF entry
    <3> QED
      BY <2>3, <3>1, ConcatProperties
  <2>5. \A f \in Files : tree'[f] # tree[f] => tree[f] = Absent \/ entry.tree[f] = tree[f]
    BY <1>2, <2>2 DEF Stashed
  <2> QED
    BY <2>4, <2>5 DEF WorkKept, Lost, EntryKept
<1> QED
  BY <1>1, <1>2 DEF StashPush

LEMMA StashPopKeepsWork ==
  ASSUME GitTypeOK, NEW request, StashPop(request)
  PROVE  WorkKept /\ EntryKept
<1> DEFINE entry == stash[1]
           base(f) == TreeOf(entry.base)[f]
           brings(f) == entry.tree[f] \notin {base(f), index[f]}
           conflicts == {f \in Files : brings(f) /\ index[f] # base(f)}
           deletes(f) == f \in conflicts /\ entry.tree[f] = Absent
           inTheWay(f) == brings(f) /\ ~deletes(f) /\ tree[f] \notin {index[f], Absent}
           merged == [f \in Files |->
                        IF ~brings(f) \/ deletes(f) THEN tree[f]
                        ELSE IF f \in conflicts /\ index[f] # Absent THEN Markers
                        ELSE entry.tree[f]]
<1>1. CASE UNCHANGED repoVars
  BY <1>1, KeptWhenStill DEF repoVars
<1>2. ASSUME stash # <<>>
      PROVE  /\ Len(stash) \in Nat /\ 1 \in 1..Len(stash)
             /\ \A f \in Files : base(f) \in Committed(f)
  <2>1. Len(stash) \in Nat /\ 1 \in 1..Len(stash)
    BY <1>2 DEF GitTypeOK
  <2> QED
    BY <2>1 DEF Committed
<1>5. \A f \in Files : ~brings(f) \/ deletes(f) => merged[f] = tree[f]
  <2> HIDE DEF brings, deletes, conflicts
  <2> QED
    OBVIOUS
<1>3. CASE /\ stash # <<>>
           /\ \A f \in Files : ~inTheWay(f)
           /\ tree' = merged
           /\ index' = [f \in Files |-> IF brings(f) /\ f \notin conflicts
                                          THEN merged[f] ELSE index[f]]
           /\ UNCHANGED stash
  <2>1. ASSUME NEW f \in Files, tree'[f] # tree[f]
        PROVE  tree[f] \in {Absent, base(f), index'[f]}
    <3>1. brings(f) /\ ~deletes(f)
      BY <1>3, <1>5, <2>1
    <3>2. tree[f] \in {index[f], Absent}
      BY <1>3, <3>1
    <3>3. index[f] = base(f) \/ f \in conflicts
      BY <3>1
    <3>4. f \in conflicts => index'[f] = index[f]
      BY <1>3
    <3> QED
      BY <3>2, <3>3, <3>4
  <2> HIDE DEF base, merged, brings, conflicts, inTheWay
  <2> QED
    BY <1>2, <1>3, <2>1 DEF WorkKept, Lost, EntryKept
<1>4. CASE /\ stash # <<>>
           /\ \A f \in Files : ~inTheWay(f)
           /\ conflicts = {}
           /\ tree' = merged
           /\ index' = [f \in Files |-> IF brings(f) /\ index[f] = Absent
                                          THEN entry.tree[f] ELSE index[f]]
  <2>1. ASSUME NEW f \in Files, tree'[f] # tree[f]
        PROVE  tree[f] \in {Absent, base(f), index'[f]}
    BY <1>4, <2>1
  <2>2. \A f \in Files : entry.tree[f] \in {base(f), index'[f], tree'[f]}
    BY <1>4
  <2>3. EntryKept
    BY <2>2 DEF EntryKept
  <2> HIDE DEF base, merged, brings, conflicts, inTheWay
  <2> QED
    <3>1. \A f \in Files : tree'[f] # tree[f] => tree[f] \in Committed(f) \cup {Absent, index'[f]}
      BY <1>2, <1>4, <2>1
    <3> QED
      BY <2>3, <3>1 DEF WorkKept, Lost
<1> QED
  BY <1>1, <1>3, <1>4 DEF StashPop

LEMMA ResetKeepsWork ==
  ASSUME GitTypeOK, NEW request \in ResetRequests, Reset(request)
  PROVE  WorkKept /\ EntryKept
<1>1. CASE UNCHANGED repoVars
  BY <1>1, KeptWhenStill DEF repoVars
<1>2. CASE request.hard /\ did'.request = request /\ UNCHANGED stash
  <2>1. HardReset'
    BY <1>2 DEF HardReset, ResetRequests
  <2> QED
    BY <1>2, <2>1 DEF WorkKept, Lost, EntryKept, GitTypeOK
<1>3. CASE ~request.hard /\ UNCHANGED <<tree, stash>>
  BY <1>3, KeptWhenStill
<1> QED
  BY <1>1, <1>2, <1>3 DEF Reset, Answer

LEMMA CreateKeepsWork ==
  ASSUME GitTypeOK, NEW request, NEW name, NEW base, CreateAndSwitch(request, name, base)
  PROVE  WorkKept /\ EntryKept
<1>1. CASE UNCHANGED <<tree, stash>>
  BY <1>1, KeptWhenStill
<1>2. ASSUME NEW c, NEW made, Switchable(c), Switch(name, c, made)
      PROVE  WorkKept /\ EntryKept
  BY <1>2, SwitchKeepsWork
<1> QED
  BY <1>1, <1>2 DEF CreateAndSwitch, repoVars

LEMMA NextKeepsWork == GitTypeOK /\ [Next]_vars => WorkKept /\ EntryKept
<1> SUFFICES ASSUME GitTypeOK, [Next]_vars PROVE WorkKept /\ EntryKept
  OBVIOUS
<1>1. ASSUME NEW request, BranchCreate(request) PROVE WorkKept /\ EntryKept
  BY <1>1, CreateKeepsWork DEF BranchCreate
<1>2. ASSUME NEW request, Checkout(request) PROVE WorkKept /\ EntryKept
  <2>1. CASE UNCHANGED repoVars
    BY <2>1, KeptWhenStill DEF repoVars
  <2>2. CASE CreateAndSwitch(request, request.ref, request.base)
    BY <2>2, CreateKeepsWork
  <2>3. ASSUME NEW at, NEW c, Switchable(c), Switch(at, c, refs) PROVE WorkKept /\ EntryKept
    BY <2>3, SwitchKeepsWork
  <2> QED
    BY <1>2, <2>1, <2>2, <2>3 DEF Checkout
<1>3. ASSUME NEW request, Stash(request) PROVE WorkKept /\ EntryKept
  BY <1>3, StashPushKeepsWork, StashPopKeepsWork DEF Stash
<1>4. ASSUME NEW f \in Files, Edit(f) PROVE WorkKept /\ EntryKept
  <2>1. did'.request.tool = "none" /\ UNCHANGED stash
    BY <1>4 DEF Edit, Elsewhere, Answer
  <2> QED
    BY <2>1 DEF WorkKept, Lost, EntryKept, GitTypeOK
<1>5. ASSUME NEW request, Stage(request) \/ Commit(request) \/ Push(request) \/ Read(request)
      PROVE  WorkKept /\ EntryKept
  <2>1. UNCHANGED <<tree, stash>>
    BY <1>5 DEF Stage, Commit, Push, Read, repoVars
  <2> QED
    BY <2>1, KeptWhenStill
<1>6. ASSUME NEW b, OthersPush(b) PROVE WorkKept /\ EntryKept
  BY <1>6, KeptWhenStill DEF OthersPush
<1>7. CASE UNCHANGED vars
  BY <1>7, KeptWhenStill DEF vars
<1> QED
  BY <1>1, <1>2, <1>3, <1>4, <1>5, <1>6, <1>7, ResetKeepsWork DEF Next

(* No tool but a hard reset loses what is written and not committed.       *)
THEOREM WorkSurvives == Spec => UnsavedWorkKept
<1>1. WorkKept /\ EntryKept =>
        /\ \A f \in Files :
             tree'[f] # tree[f] /\ did'.request.tool # "none" /\ ~HardReset' =>
               \/ tree[f] \in Committed(f) \cup {Absent, index'[f]}
               \/ \E e \in 1..Len(stash') : stash'[e].tree[f] = tree[f]
        /\ Len(stash') < Len(stash) =>
             \A f \in Files :
               stash[1].tree[f] \in {TreeOf(stash[1].base)[f], index'[f], tree'[f]}
  BY DEF WorkKept, Lost, EntryKept
<1> QED
  BY <1>1, InitTyped, NextKeepsType, NextKeepsWork, PTL DEF Spec, UnsavedWorkKept
-----------------------------------------------------------------------------
(* Calls that are refused.                                                 *)

RefusalKept ==
  did'.answer # "ok" /\ steps' # steps =>
    /\ UNCHANGED <<commits, head, stash>>
    /\ remote' # remote =>
         /\ did'.request.tool = "push" /\ did'.request.branch # None
         /\ Several(did'.request.branch)
         /\ \E b \in Branches : refs[b] # 0 /\ remote'[b] = remote[b]
    /\ \A b \in DOMAIN refs : refs'[b] # refs[b] =>
         /\ refs[b] = 0 /\ UNCHANGED <<index, tree, unmerged>>
         /\ did'.request.tool \in {"branch_create", "checkout"}
    /\ <<index, tree>>' # <<index, tree>> =>
         /\ did'.request = [tool |-> "stash", pop |-> TRUE]
         /\ unmerged = {} /\ unmerged' # {}

LEMMA StillOrOk ==
  ASSUME UNCHANGED repoVars \/ did'.answer = "ok" \/ UNCHANGED steps
  PROVE  RefusalKept
BY DEF RefusalKept, repoVars

LEMMA CreateRefused ==
  ASSUME GitTypeOK, NEW request, request.tool \in {"branch_create", "checkout"},
         NEW name, NEW base, CreateAndSwitch(request, name, base)
  PROVE  RefusalKept
<1>1. CASE UNCHANGED repoVars
  BY <1>1, StillOrOk
<1>2. CASE Answer(request, "ok")
  BY <1>2, StillOrOk DEF Answer
<1>3. CASE /\ Creatable(name, base)
           /\ refs' = [refs EXCEPT ![name] = Resolve(base)]
           /\ Answer(request, "not_found")
           /\ UNCHANGED <<commits, head, index, tree, unmerged, stash, remote>>
  <2>1. \A b \in DOMAIN refs : refs'[b] # refs[b] => b = name /\ refs[b] = 0
    BY <1>3 DEF Creatable
  <2>2. did'.request = request
    BY <1>3 DEF Answer
  <2> QED
    BY <1>3, <2>1, <2>2 DEF RefusalKept
<1> QED
  BY <1>1, <1>2, <1>3 DEF CreateAndSwitch

LEMMA StashRefused ==
  ASSUME NEW request \in StashRequests, Stash(request)
  PROVE  RefusalKept
<1>1. CASE UNCHANGED repoVars \/ Answer(request, "ok")
  BY <1>1, StillOrOk DEF Answer
<1>2. ASSUME NEW conflicts, request.pop, unmerged = {}, conflicts # {}, unmerged' = conflicts,
             Answer(request, "not_found"), UNCHANGED <<commits, refs, head, stash, remote>>
      PROVE  RefusalKept
  <2>1. did'.request = [tool |-> "stash", pop |-> TRUE]
    BY <1>2 DEF Answer, StashRequests
  <2> QED
    BY <1>2, <2>1 DEF RefusalKept
<1>3. CASE ~request.pop
  BY <1>1, <1>3 DEF Stash, StashPush
<1>4. CASE request.pop
  BY <1>1, <1>2, <1>4 DEF Stash, StashPop
<1> QED
  BY <1>3, <1>4 DEF StashRequests

(* Only a push of several branches is refused with some of it done.        *)
LEMMA PushRefused ==
  ASSUME GitTypeOK, NEW request \in PushRequests, Push(request)
  PROVE  RefusalKept
<1> DEFINE spec == Refspec(request)
<1>1. CASE UNCHANGED repoVars
  BY <1>1, StillOrOk
<1>2. ASSUME NEW moved \in SUBSET Destinations(spec),
             remote' = [b \in Branches |-> IF b \in moved THEN Sent(spec, b) ELSE remote[b]],
             Answer(request, IF moved # {} /\ moved = Destinations(spec) THEN "ok" ELSE "not_found"),
             UNCHANGED <<commits, refs, head, index, tree, unmerged, stash>>
      PROVE  RefusalKept
  <2>1. CASE moved = {}
    <3>1. remote' = remote
      BY <1>2, <2>1 DEF GitTypeOK
    <3> QED
      BY <1>2, <3>1, StillOrOk DEF repoVars
  <2>2. CASE moved = Destinations(spec)
    BY <1>2, <2>1, <2>2, StillOrOk DEF Answer
  <2>3. CASE moved # {} /\ moved # Destinations(spec)
    <3>1. Several(spec)
      <4> HIDE DEF spec
      <4>1. SUFFICES ASSUME ~Several(spec) PROVE \E d : Destinations(spec) \subseteq {d}
        BY <2>3
      <4> QED
        BY <4>1 DEF Destinations
    <3>2. request.branch # None /\ spec = request.branch
      <4>1. SUFFICES ASSUME request.branch = None PROVE FALSE
        BY DEF Refspec
      <4>2. spec.src = head
        BY <4>1 DEF Refspec
      <4> QED
        BY <3>1, <4>2, HeadIsNoPattern DEF Several
    <3>3. did'.request = request /\ request.tool = "push"
      BY <1>2 DEF Answer, PushRequests
    <3> HIDE DEF spec
    <3>4. PICK b \in Destinations(spec) : b \notin moved
      BY <2>3
    <3>5. b \in Branches /\ refs[b] # 0 /\ remote'[b] = remote[b]
      BY <1>2, <3>1, <3>4 DEF Destinations
    <3> QED
      BY <1>2, <3>1, <3>2, <3>3, <3>5 DEF RefusalKept
  <2> QED
    BY <2>1, <2>2, <2>3
<1>3. \A moved : moved \in SUBSET {b \in Destinations(spec) : Pushable(spec, request.force, b)}
                    => moved \in SUBSET Destinations(spec)
  OBVIOUS
<1> HIDE DEF spec
<1> QED
  BY <1>1, <1>2, <1>3 DEF Push, spec

LEMMA NextRefuses == GitTypeOK /\ [Next]_vars => RefusalKept
<1> SUFFICES ASSUME GitTypeOK, [Next]_vars PROVE RefusalKept
  OBVIOUS
<1>1. ASSUME NEW request \in BranchCreateRequests, BranchCreate(request) PROVE RefusalKept
  BY <1>1, CreateRefused DEF BranchCreate, BranchCreateRequests
<1>2. ASSUME NEW request \in CheckoutRequests, Checkout(request) PROVE RefusalKept
  <2>1. request.tool = "checkout"
    BY DEF CheckoutRequests
  <2>2. CASE UNCHANGED repoVars \/ Answer(request, "ok")
    BY <2>2, StillOrOk DEF Answer
  <2> QED
    BY <1>2, <2>1, <2>2, CreateRefused DEF Checkout
<1>3. ASSUME NEW request, Stage(request) \/ Commit(request) \/ Reset(request) \/ Read(request)
      PROVE  RefusalKept
  <2>1. UNCHANGED repoVars \/ Answer(request, "ok")
    BY <1>3 DEF Stage, Commit, Reset, Read
  <2> QED
    BY <2>1, StillOrOk DEF Answer
<1>4. ASSUME NEW f, NEW b, Edit(f) \/ OthersPush(b) PROVE RefusalKept
  BY <1>4, StillOrOk DEF Edit, OthersPush, Elsewhere, Answer
<1>5. CASE UNCHANGED vars
  BY <1>5, StillOrOk DEF vars
<1> QED
  BY <1>1, <1>2, <1>3, <1>4, <1>5, StashRefused, PushRefused DEF Next

(* A refused call changes nothing, but for a branch made before the switch *)
(* failed, the markers of a stash that conflicts, and what of a push of    *)
(* several branches went through.                                          *)
THEOREM RefusalsKeep == Spec => RefusalLeavesRepository
<1>1. RefusalKept <=>
        (did'.answer # "ok" /\ steps' # steps =>
           /\ UNCHANGED <<commits, head, stash>>
           /\ remote' # remote =>
                /\ did'.request.tool = "push" /\ did'.request.branch # None
                /\ Several(did'.request.branch)
                /\ \E b \in Branches : refs[b] # 0 /\ remote'[b] = remote[b]
           /\ \A b \in DOMAIN refs : refs'[b] # refs[b] =>
                /\ refs[b] = 0 /\ UNCHANGED <<index, tree, unmerged>>
                /\ did'.request.tool \in {"branch_create", "checkout"}
           /\ <<index, tree>>' # <<index, tree>> =>
                /\ did'.request = [tool |-> "stash", pop |-> TRUE]
                /\ unmerged = {} /\ unmerged' # {})
  BY DEF RefusalKept
<1> QED
  BY <1>1, InitTyped, NextKeepsType, NextRefuses, PTL DEF Spec, RefusalLeavesRepository
-----------------------------------------------------------------------------
(* The commits an id reaches.                                              *)

\* A history, each commit of which points back, and its ancestry.
Backward(cs) ==
  /\ Len(cs) \in Nat
  /\ \A n \in 1..Len(cs) : cs[n].parent \in Nat /\ cs[n].parent < n
Ancestry(cs) ==
  CHOOSE r : r = [n \in 0..Len(cs) |-> IF n = 0 THEN {} ELSE {n} \cup r[cs[n].parent]]
Rooted(r, cs, m) ==
  /\ r[0] = {}
  /\ \A n \in 1..m : r[n] = {n} \cup r[cs[n].parent]

(* A history has an ancestry, whatever its length.                         *)
LEMMA AncestryExists ==
  ASSUME NEW cs, Backward(cs), NEW m \in Nat, m <= Len(cs)
  PROVE  \E r : r = [n \in 0..m |-> IF n = 0 THEN {} ELSE {n} \cup r[cs[n].parent]]
<1> DEFINE Full(r, k) == r = [n \in 0..k |-> IF n = 0 THEN {} ELSE {n} \cup r[cs[n].parent]]
           A == {k \in Nat : k <= Len(cs) => \E r : Full(r, k)}
<1>1. 0 \in A
  <2>1. Full([n \in 0..0 |-> {}], 0)
    OBVIOUS
  <2> QED
    BY <2>1
<1>2. ASSUME NEW k \in Nat, k \in A PROVE k + 1 \in A
  <2> SUFFICES ASSUME k + 1 <= Len(cs) PROVE \E r : Full(r, k + 1)
    OBVIOUS
  <2>1. Len(cs) \in Nat /\ \A n \in 1..Len(cs) : cs[n].parent \in Nat /\ cs[n].parent < n
    BY DEF Backward
  <2>2. k <= Len(cs)
    BY <2>1
  <2>3. PICK r : Full(r, k)
    BY <1>2, <2>2
  <2> DEFINE s == [n \in 0..k + 1 |-> IF n = k + 1 THEN {n} \cup r[cs[n].parent] ELSE r[n]]
  <2>4. \A n \in 0..k : s[n] = r[n]
    OBVIOUS
  <2>5. \A n \in 0..k + 1 : n # 0 => cs[n].parent \in 0..k /\ (n # k + 1 => n \in 0..k)
    BY <2>1
  <2>6. \A n \in 0..k + 1 : s[n] = IF n = 0 THEN {} ELSE {n} \cup s[cs[n].parent]
    <3> TAKE n \in 0..k + 1
    <3>1. CASE n = k + 1
      BY <3>1, <2>4, <2>5
    <3>2. CASE n # k + 1
      <4>1. n \in 0..k /\ s[n] = r[n]
        BY <3>2, <2>4
      <4>2. r[n] = IF n = 0 THEN {} ELSE {n} \cup r[cs[n].parent]
        BY <2>3, <4>1
      <4> QED
        BY <4>1, <4>2, <2>4, <2>5
    <3> QED
      BY <3>1, <3>2
  <2>7. s = [n \in 0..k + 1 |-> s[n]]
    OBVIOUS
  <2> HIDE DEF s
  <2>8. Full(s, k + 1)
    BY <2>6, <2>7
  <2> QED
    BY <2>8
<1>3. Nat \subseteq A
  <2> HIDE DEF A
  <2> QED
    BY <1>1, <1>2, EveryNatural
<1> QED
  BY <1>3

LEMMA AncestryRooted ==
  ASSUME NEW cs, Backward(cs)
  PROVE  Rooted(Ancestry(cs), cs, Len(cs))
<1> DEFINE r == Ancestry(cs)
<1>1. Len(cs) \in Nat
  BY DEF Backward
<1>2. r = [n \in 0..Len(cs) |-> IF n = 0 THEN {} ELSE {n} \cup r[cs[n].parent]]
  <2> DEFINE m == Len(cs)
             Full(q) == q = [n \in 0..m |-> IF n = 0 THEN {} ELSE {n} \cup q[cs[n].parent]]
  <2>1. \E q : Full(q)
    <3>1. m \in Nat /\ m <= Len(cs)
      BY <1>1
    <3> HIDE DEF m
    <3> QED
      BY <3>1, AncestryExists
  <2>2. r = CHOOSE q : Full(q)
    BY DEF Ancestry
  <2> HIDE DEF Full, r
  <2>3. Full(r)
    BY <2>1, <2>2
  <2> QED
    BY <2>3 DEF Full
<1> HIDE DEF r
<1>3. r[0] = {}
  BY <1>1, <1>2
<1>4. \A n \in 1..Len(cs) : r[n] = {n} \cup r[cs[n].parent]
  <2> TAKE n \in 1..Len(cs)
  <2>1. n \in 0..Len(cs) /\ n # 0
    BY <1>1
  <2> QED
    BY <1>2, <2>1
<1> QED
  BY <1>3, <1>4 DEF Rooted, r

(* What is appended to a history changes nobody's ancestry, and a commit   *)
(* reaches none that is newer.                                             *)
LEMMA AncestryStays ==
  ASSUME NEW cs, NEW ds, Backward(cs), Backward(ds), Len(cs) <= Len(ds),
         \A n \in 1..Len(cs) : ds[n].parent = cs[n].parent
  PROVE  \A n \in 0..Len(cs) : Ancestry(ds)[n] = Ancestry(cs)[n]
<1> DEFINE r == Ancestry(cs)
           s == Ancestry(ds)
           A == {m \in Nat : \A n \in 0..m : n <= Len(cs) => s[n] = r[n]}
<1>1. /\ Len(cs) \in Nat /\ Len(ds) \in Nat
      /\ \A n \in 1..Len(cs) : cs[n].parent \in Nat /\ cs[n].parent < n
  BY DEF Backward
<1>2. Rooted(r, cs, Len(cs)) /\ Rooted(s, ds, Len(ds))
  BY AncestryRooted
<1> HIDE DEF r, s
<1>3. 0 \in A
  <2>1. s[0] = r[0]
    BY <1>2 DEF Rooted
  <2>2. \A n \in 0..0 : n = 0
    OBVIOUS
  <2> QED
    BY <2>1, <2>2
<1>4. ASSUME NEW m \in Nat, m \in A PROVE m + 1 \in A
  <2> SUFFICES ASSUME m + 1 <= Len(cs) PROVE s[m + 1] = r[m + 1]
    <3>1. \A n \in 0..m + 1 : n = m + 1 \/ n \in 0..m
      OBVIOUS
    <3> QED
      BY <1>4, <3>1
  <2> DEFINE n == m + 1
  <2>1. n \in 1..Len(cs) /\ n \in 1..Len(ds)
    BY <1>1
  <2>2. cs[n].parent \in 0..m /\ cs[n].parent <= Len(cs)
    BY <1>1, <2>1
  <2> HIDE DEF n
  <2>3. s[cs[n].parent] = r[cs[n].parent]
    BY <1>4, <2>2
  <2> QED
    BY <1>2, <2>1, <2>3 DEF Rooted, n
<1>5. Nat \subseteq A
  <2> HIDE DEF A
  <2> QED
    BY <1>3, <1>4, EveryNatural
<1>6. \A n \in 0..Len(cs) : n \in Nat /\ n \in 0..n /\ n <= Len(cs)
  BY <1>1
<1> QED
  BY <1>5, <1>6 DEF r, s

LEMMA AncestryOlder ==
  ASSUME NEW cs, Backward(cs)
  PROVE  \A n \in 0..Len(cs) : Ancestry(cs)[n] \subseteq 1..n
<1> DEFINE r == Ancestry(cs)
           A == {m \in Nat : \A n \in 0..m : n <= Len(cs) => r[n] \subseteq 1..n}
<1>1. /\ Len(cs) \in Nat
      /\ \A n \in 1..Len(cs) : cs[n].parent \in Nat /\ cs[n].parent < n
  BY DEF Backward
<1>2. Rooted(r, cs, Len(cs))
  BY AncestryRooted
<1> HIDE DEF r
<1>3. 0 \in A
  BY <1>2 DEF Rooted
<1>4. ASSUME NEW m \in Nat, m \in A PROVE m + 1 \in A
  <2> SUFFICES ASSUME m + 1 <= Len(cs) PROVE r[m + 1] \subseteq 1..m + 1
    <3>1. \A n \in 0..m + 1 : n = m + 1 \/ n \in 0..m
      OBVIOUS
    <3> QED
      BY <1>4, <3>1
  <2>1. m + 1 \in 1..Len(cs)
    BY <1>1
  <2> DEFINE p == cs[m + 1].parent
  <2>2. p \in 0..m /\ p <= Len(cs) /\ p <= m
    BY <1>1, <2>1
  <2>3. r[m + 1] = {m + 1} \cup r[p]
    BY <1>2, <2>1 DEF Rooted
  <2> HIDE DEF p
  <2>4. r[p] \subseteq 1..p
    BY <1>4, <2>2
  <2> QED
    BY <2>2, <2>3, <2>4
<1>5. Nat \subseteq A
  <2> HIDE DEF A
  <2> QED
    BY <1>3, <1>4, EveryNatural
<1>6. \A n \in 0..Len(cs) : n \in Nat /\ n \in 0..n /\ n <= Len(cs)
  BY <1>1
<1> QED
  BY <1>5, <1>6 DEF r

LEMMA ReachesIsAncestry ==
  ASSUME NEW c
  PROVE  Reaches(c) = Ancestry(commits)[c] /\ Reaches(c)' = Ancestry(commits')[c]
BY DEF Reaches, Ancestry, Parent

LEMMA CommitsPointBack == GitTypeOK => Backward(commits)
<1> SUFFICES ASSUME GitTypeOK PROVE Backward(commits)
  OBVIOUS
<1>1. commits \in Seq(CommitRecords) /\ \A c \in 1..Len(commits) : commits[c].parent < c
  BY DEF GitTypeOK, CommitRecords, Parent
<1>2. \A c \in 1..Len(commits) : commits[c] \in CommitRecords
  BY <1>1, ElementOfSeq
<1>3. \A record \in CommitRecords : record.parent \in Nat
  BY RepoAssumption DEF CommitRecords
<1>4. Len(commits) \in Nat
  BY <1>1
<1> QED
  BY <1>1, <1>2, <1>3, <1>4 DEF Backward

(* What the commits in Next append to a history.                           *)
LEMMA HistoryGrows ==
  ASSUME GitTypeOK, GitTypeOK', NEW commit \in CommitRecords,
         commits' = Append(commits, commit)
  PROVE  /\ Len(commits') = Len(commits) + 1 /\ Len(commits) \in Nat
         /\ commits'[Len(commits) + 1] = commit
         /\ \A c \in 1..Len(commits) : commits'[c] = commits[c]
         /\ Backward(commits) /\ Backward(commits')
         /\ \A c \in 0..Len(commits) : Ancestry(commits')[c] = Ancestry(commits)[c]
         /\ Ancestry(commits')[Len(commits) + 1] =
              {Len(commits) + 1} \cup Ancestry(commits)[commit.parent]
<1>1. commits \in Seq(CommitRecords)
  BY DEF GitTypeOK, CommitRecords
<1>2. /\ Len(commits') = Len(commits) + 1 /\ Len(commits) \in Nat
      /\ commits'[Len(commits) + 1] = commit
      /\ \A c \in 1..Len(commits) : commits'[c] = commits[c]
  BY <1>1, AppendProperties
<1>3. Backward(commits)
  BY CommitsPointBack
<1>4. Backward(commits')
  <2>1. (GitTypeOK => Backward(commits))'
    BY CommitsPointBack, PTL
  <2> QED
    BY <2>1
<1>5. \A c \in 0..Len(commits) : Ancestry(commits')[c] = Ancestry(commits)[c]
  <2>1. Len(commits) <= Len(commits')
    BY <1>2
  <2> QED
    BY <1>2, <1>3, <1>4, <2>1, AncestryStays
<1>6. Rooted(Ancestry(commits'), commits', Len(commits'))
  BY <1>4, AncestryRooted
<1>7. Len(commits) + 1 \in 1..Len(commits') /\ commit.parent \in 0..Len(commits)
  BY <1>2, <1>4 DEF Backward
<1> QED
  BY <1>2, <1>3, <1>4, <1>5, <1>6, <1>7 DEF Rooted
-----------------------------------------------------------------------------
(* What others pushed.                                                     *)

OthersKept ==
  \A b \in Branches :
    remote[b] # 0 /\ remote'[b] # remote[b] /\ ~Forced' /\ ~Deleted(b)' =>
      remote'[b] \in Ids /\ remote[b] \in Ancestry(commits')[remote'[b]]

LEMMA RemoteStays == UNCHANGED remote => OthersKept
BY DEF OthersKept

LEMMA PushKeepsOthers ==
  ASSUME GitTypeOK, NEW request \in PushRequests, Push(request)
  PROVE  OthersKept
<1> DEFINE spec == Refspec(request)
<1>1. CASE UNCHANGED remote
  BY <1>1, RemoteStays
<1>2. ASSUME NEW moved \in SUBSET {b \in Destinations(spec) : Pushable(spec, request.force, b)},
             remote' = [b \in Branches |-> IF b \in moved THEN Sent(spec, b) ELSE remote[b]],
             did'.request = request, UNCHANGED commits
      PROVE  OthersKept
  <2>1. request.tool = "push"
    BY DEF PushRequests
  <2>2. SUFFICES ASSUME NEW b \in Branches, remote[b] # 0, remote'[b] # remote[b], ~request.force, ~Deleted(b)'
                 PROVE  remote'[b] \in Ids /\ remote[b] \in Ancestry(commits')[remote'[b]]
    BY <1>2, <2>1 DEF OthersKept, Forced
  <2>3. /\ b \in Destinations(spec) /\ Pushable(spec, request.force, b)
        /\ remote'[b] = Sent(spec, b)
    <3> HIDE DEF spec
    <3> QED
      BY <1>2, <2>2
  <2>4. ~Deletes(spec)
    <3>1. SUFFICES ASSUME Deletes(spec) PROVE FALSE
      OBVIOUS
    <3>2. request.branch # None /\ spec = request.branch
      BY <3>1 DEF Deletes, Refspec
    <3>3. spec.dst = b
      <4> HIDE DEF spec
      <4> QED
        BY <2>3, <3>1 DEF Deletes, Destinations, Several
    <3> QED
      BY <1>2, <2>1, <2>2, <3>1, <3>2, <3>3 DEF Deleted
  <2> HIDE DEF spec
  <2>5. Sent(spec, b) # 0 /\ remote[b] \in Reaches(Sent(spec, b))
    BY <2>2, <2>3, <2>4 DEF Pushable
  <2>6. Sent(spec, b) \in Ids
    <3>1. Sent(spec, b) \in {0} \cup Have
      BY SentTyped
    <3>2. Have \subseteq 1..Len(commits) /\ Len(commits) <= MaxCommits /\ Len(commits) \in Nat
      BY HaveTyped DEF GitTypeOK
    <3>3. Sent(spec, b) \in 1..Len(commits)
      BY <2>5, <3>1, <3>2
    <3> QED
      BY <3>2, <3>3, RepoAssumption DEF Ids
  <2>7. remote[b] \in Ancestry(commits)[Sent(spec, b)]
    BY <2>5, ReachesIsAncestry
  <2> QED
    BY <1>2, <2>3, <2>6, <2>7
<1> HIDE DEF spec
<1> QED
  BY <1>1, <1>2 DEF Push, Answer, repoVars, spec

LEMMA OthersPushKeepsOthers ==
  ASSUME GitTypeOK, GitTypeOK', NEW b \in Branches, OthersPush(b)
  PROVE  OthersKept
<1> DEFINE commit == [tree |-> TreeOf(remote[b]), parent |-> remote[b], ours |-> FALSE]
           n == Len(commits) + 1
<1>1. /\ remote[b] # 0 /\ Len(commits) < MaxCommits
      /\ commits' = Append(commits, commit)
      /\ remote' = [remote EXCEPT ![b] = n]
  BY DEF OthersPush
<1>2. remote[b] \in 1..Len(commits) /\ Len(commits) \in Nat
  BY <1>1 DEF GitTypeOK
<1>3. commit \in CommitRecords
  <2>1. TreeOf(remote[b]) \in Trees
    BY <1>2, TreeTyped
  <2> QED
    BY <1>1, <1>2, <2>1, RepoAssumption DEF CommitRecords
<1>4. commit.parent = remote[b]
  OBVIOUS
<1> HIDE DEF commit
<1>5. Ancestry(commits')[n] = {n} \cup Ancestry(commits)[remote[b]]
  BY <1>1, <1>3, <1>4, HistoryGrows
<1>6. remote[b] \in Ancestry(commits)[remote[b]]
  <2>1. Rooted(Ancestry(commits), commits, Len(commits))
    BY AncestryRooted, CommitsPointBack
  <2> QED
    BY <1>2, <2>1 DEF Rooted
<1>7. n \in Ids /\ \A a \in Branches : remote'[a] # remote[a] => a = b /\ remote'[a] = n
  BY <1>1, <1>2, RepoAssumption DEF Ids, GitTypeOK
<1> HIDE DEF n
<1> QED
  BY <1>5, <1>6, <1>7 DEF OthersKept

LEMMA NextKeepsOthers == GitTypeOK /\ GitTypeOK' /\ [Next]_vars => OthersKept
<1> SUFFICES ASSUME GitTypeOK, GitTypeOK', [Next]_vars PROVE OthersKept
  OBVIOUS
<1>1. ASSUME NEW request,
             \/ BranchCreate(request) \/ Checkout(request) \/ Stage(request) \/ Commit(request)
             \/ Reset(request) \/ Stash(request) \/ Read(request)
      PROVE  UNCHANGED remote
  BY <1>1 DEF BranchCreate, Checkout, CreateAndSwitch, Switch, Stage, Commit, Reset, Stash,
              StashPush, StashPop, Read, repoVars
<1>2. ASSUME NEW f, Edit(f) PROVE UNCHANGED remote
  BY <1>2 DEF Edit
<1>3. CASE UNCHANGED vars
  BY <1>3, RemoteStays DEF vars
<1> QED
  BY <1>1, <1>2, <1>3, RemoteStays, PushKeepsOthers, OthersPushKeepsOthers DEF Next

(* What somebody else pushed is not lost to a push, unless it is forced or *)
(* deletes the branch.                                                     *)
THEOREM OthersWorkSurvives == Spec => OthersWorkKept
<1>1. OthersKept =>
        \A b \in Branches :
          remote[b] # 0 /\ remote'[b] # remote[b] /\ ~Forced' /\ ~Deleted(b)' =>
            \E c \in Ids : remote'[b] = c /\ remote[b] \in Reaches(c)'
  BY DEF OthersKept, Reaches, Ancestry, Parent
<1> QED
  BY <1>1, InitTyped, NextKeepsType, NextKeepsOthers, PTL DEF Spec, OthersWorkKept
-----------------------------------------------------------------------------
(* What a commit records.                                                  *)

CommitShown ==
  did'.request.tool = "commit" /\ did'.answer = "ok" =>
    /\ Touched(Len(commits))' = Status.staged
    /\ Status'.staged = {}
    /\ Newest(Log(None))' = Len(commits')
    /\ \A f \in Status.staged : index[f] # Absent => Blame(f)' = Len(commits')

LEMMA NewestIs ==
  ASSUME NEW n \in Nat, NEW cs, cs \subseteq 1..n, n \in cs
  PROVE  Newest(cs) = n
<1>1. \A d \in cs : d <= n
  OBVIOUS
<1>2. \E c \in cs : \A d \in cs : d <= c
  BY <1>1
<1>3. Newest(cs) \in cs /\ \A d \in cs : d <= Newest(cs)
  BY <1>2 DEF Newest
<1>4. PICK m : m = Newest(cs)
  OBVIOUS
<1>5. m \in 1..n /\ m <= n /\ n <= m
  BY <1>1, <1>3, <1>4
<1> QED
  BY <1>4, <1>5

(* The head of the log and what blame names, once the index is committed.  *)
LEMMA CommitRecordsIndex ==
  ASSUME GitTypeOK, GitTypeOK', unmerged = {},
         commits' = Append(commits, [tree |-> index, parent |-> refs[head], ours |-> TRUE]),
         refs' = [refs EXCEPT ![head] = Len(commits) + 1],
         UNCHANGED <<head, index, tree, unmerged, stash, remote>>
  PROVE  /\ Touched(Len(commits))' = Status.staged
         /\ Status'.staged = {}
         /\ Newest(Log(None))' = Len(commits')
         /\ \A f \in Status.staged : Blame(f)' = Len(commits')
<1> DEFINE commit == [tree |-> index, parent |-> refs[head], ours |-> TRUE]
<1>1. refs[head] \in 0..Len(commits) /\ Len(commits) \in Nat
  BY HeadCommit, HaveTyped
<1>2. commit \in CommitRecords
  <2>1. Len(commits) <= MaxCommits
    BY DEF GitTypeOK
  <2> QED
    BY <1>1, <2>1, RepoAssumption DEF GitTypeOK, CommitRecords
<1>3. commit.tree = index /\ commit.parent = refs[head]
  OBVIOUS
<1>4. commits' = Append(commits, commit)
  OBVIOUS
<1> HIDE DEF commit
<1>5. PICK n : n = Len(commits) + 1
  OBVIOUS
<1>6. n \in Nat /\ n # 0 /\ n = Len(commits')
  BY <1>1, <1>2, <1>4, <1>5, HistoryGrows
<1>7. PICK p : p = refs[head]
  OBVIOUS
<1>8. /\ commits'[n] = commit
      /\ p # 0 => commits'[p] = commits[p]
      /\ Ancestry(commits')[n] = {n} \cup Ancestry(commits)[p]
      /\ Ancestry(commits)[p] \subseteq 1..p
  <2>1. /\ commits'[n] = commit
        /\ \A c \in 1..Len(commits) : commits'[c] = commits[c]
        /\ Ancestry(commits')[n] = {n} \cup Ancestry(commits)[p]
    BY <1>2, <1>3, <1>4, <1>5, <1>7, HistoryGrows
  <2>2. p # 0 => p \in 1..Len(commits)
    BY <1>1, <1>7
  <2>3. Ancestry(commits)[p] \subseteq 1..p
    BY <1>1, <1>7, AncestryOlder, CommitsPointBack
  <2> QED
    BY <2>1, <2>2, <2>3
<1>9. refs'[head'] = n
  BY <1>5 DEF GitTypeOK
<1>10. TreeOf(n)' = index /\ TreeOf(p)' = TreeOf(p) /\ Parent(n)' = p
  BY <1>3, <1>6, <1>7, <1>8 DEF TreeOf, Parent, Blank
<1> DEFINE Changed == {f \in Files : index[f] # TreeOf(p)[f]}
<1>11. Status.staged = Changed
  BY <1>7 DEF Status, StagedPaths
<1>12. Touched(n)' = Changed
  BY <1>6, <1>10 DEF Touched
<1>13. Touched(Len(commits))' = Touched(n)'
  BY <1>6 DEF Touched
<1>14. Status'.staged = {}
  <2>1. TreeOf(refs[head])' = index
    BY <1>9, <1>10 DEF TreeOf
  <2> QED
    BY <2>1 DEF Status, StagedPaths
<1>15. Reaches(refs[head])' = {n} \cup Ancestry(commits)[p]
  <2>1. Reaches(refs[head])' = Reaches(n)'
    BY <1>9 DEF Reaches
  <2> QED
    BY <1>8, <2>1, ReachesIsAncestry
<1>16. Ancestry(commits)[p] \subseteq 1..n
  BY <1>1, <1>5, <1>7, <1>8
<1>17. Newest(Log(None))' = n
  <2>1. Log(None)' = {n} \cup Ancestry(commits)[p]
    BY <1>15 DEF Log
  <2> QED
    BY <1>6, <1>16, <2>1, NewestIs DEF Newest
<1>18. ASSUME NEW f \in Changed PROVE Blame(f)' = n
  <2>1. Log(f)' \subseteq {n} \cup Ancestry(commits)[p]
    BY <1>15 DEF Log
  <2>2. n \in Log(f)'
    BY <1>12, <1>15 DEF Log
  <2> QED
    BY <1>6, <1>16, <2>1, <2>2, NewestIs DEF Newest, Blame
<1> QED
  BY <1>6, <1>11, <1>12, <1>13, <1>14, <1>17, <1>18

LEMMA NextShowsCommit == GitTypeOK /\ GitTypeOK' /\ [Next]_vars => CommitShown \/ UNCHANGED vars
<1> SUFFICES ASSUME GitTypeOK, GitTypeOK', Next,
                    did'.request.tool = "commit", did'.answer = "ok"
             PROVE  CommitShown
  BY DEF CommitShown
<1>1. ASSUME NEW request \in CommitRequests, Commit(request) PROVE CommitShown
  <2>1. /\ unmerged = {}
        /\ commits' = Append(commits, [tree |-> index, parent |-> refs[head], ours |-> TRUE])
        /\ refs' = [refs EXCEPT ![head] = Len(commits) + 1]
        /\ UNCHANGED <<head, index, tree, unmerged, stash, remote>>
    BY <1>1 DEF Commit, Answer
  <2> QED
    BY <2>1, CommitRecordsIndex DEF CommitShown
<1>2. ASSUME NEW request, request.tool # "commit",
             \/ BranchCreate(request) \/ Checkout(request) \/ Stage(request) \/ Reset(request)
             \/ Stash(request) \/ Push(request) \/ Read(request)
      PROVE  FALSE
  <2>1. \A name, base : CreateAndSwitch(request, name, base) => \E answer : Answer(request, answer)
    BY DEF CreateAndSwitch
  <2>2. BranchCreate(request) \/ Checkout(request) => \E answer : Answer(request, answer)
    BY <2>1 DEF BranchCreate, Checkout
  <2>3. Stage(request) \/ Reset(request) => \E answer : Answer(request, answer)
    BY DEF Stage, Reset
  <2>4. Stash(request) => \E answer : Answer(request, answer)
    BY DEF Stash, StashPush, StashPop
  <2>5. Push(request) \/ Read(request) => \E answer : Answer(request, answer)
    BY DEF Push, Read
  <2>6. PICK answer : Answer(request, answer)
    BY <1>2, <2>2, <2>3, <2>4, <2>5
  <2> QED
    BY <1>2, <2>6 DEF Answer
<1>3. /\ \A request \in BranchCreateRequests : request.tool = "branch_create"
      /\ \A request \in CheckoutRequests : request.tool = "checkout"
      /\ \A request \in StageRequests : request.tool = "stage"
      /\ \A request \in ResetRequests : request.tool = "reset"
      /\ \A request \in StashRequests : request.tool = "stash"
      /\ \A request \in PushRequests : request.tool = "push"
      /\ \A request \in ReadRequests : request.tool # "commit"
  BY DEF BranchCreateRequests, CheckoutRequests, StageRequests, ResetRequests, StashRequests,
         PushRequests, ReadRequests
<1>4. ASSUME NEW f, NEW b, Edit(f) \/ OthersPush(b) PROVE FALSE
  BY <1>4 DEF Edit, OthersPush, Elsewhere, Answer
<1> QED
  BY <1>1, <1>2, <1>3, <1>4 DEF Next

(* A commit records what status listed as staged, and then log and blame   *)
(* name it, for histories of any length.                                   *)
THEOREM CommitsShow == Spec => CommitIsWhatReadersShow
<1>1. CommitShown =>
        (did'.request.tool = "commit" /\ did'.answer = "ok" =>
           /\ Touched(Len(commits))' = Status.staged
           /\ Status'.staged = {}
           /\ Newest(Log(None))' = Len(commits')
           /\ \A f \in Status.staged : index[f] # Absent => Blame(f)' = Len(commits'))
  BY DEF CommitShown
<1> QED
  BY <1>1, InitTyped, NextKeepsType, NextShowsCommit, PTL DEF Spec, CommitIsWhatReadersShow
=============================================================================
