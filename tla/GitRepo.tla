------------------------------- MODULE GitRepo -------------------------------
(***************************************************************************)
(* The repository as the tools of tools/git_tools.py change it: branches,  *)
(* HEAD, the index, the working tree, the stash and a remote.  What git    *)
(* itself does (merging a stash, refusing a checkout) is modelled from its *)
(* behaviour; which git commands a tool issues, in which order, behind     *)
(* which guards, and what becomes of their failures is the code's.         *)
(***************************************************************************)
EXTENDS Naturals, Sequences, FiniteSets

CONSTANTS
  Branches,       \* branch names the agent may use
  Protected,      \* _protected_branches()
  Trunk,          \* the branch the remote begins with
  Files, Texts,   \* paths, and what they may hold
  Absent,         \* no such file
  Markers,        \* a file left with conflict markers
  Detached,       \* what HEAD names when it names no branch
  HeadRef, None,     \* the ref HEAD, and a ref not given
  Every,          \* the pattern `refs/heads/*'
  WritesAllowed,  \* _protected_writes_allowed()
  MaxHistory, MaxCommits, MaxStash, MaxSteps  \* bounds of a run

ASSUME RepoAssumption ==
  /\ Trunk \in Branches /\ Protected \subseteq Branches
  /\ {Detached, HeadRef, None} \cap Branches = {} /\ Detached # None
  /\ (Branches \cup {Detached, HeadRef, None, Every}) \cap Nat = {}
  /\ HeadRef \notin {None, Detached}
  /\ Every \notin Branches \cup {Detached, HeadRef, None}
  /\ Absent \notin Texts \cup {Markers}
  /\ WritesAllowed \in BOOLEAN
  /\ MaxHistory \in Nat /\ MaxCommits \in Nat /\ MaxStash \in Nat
  /\ MaxHistory <= MaxCommits /\ MaxSteps \in Nat

VARIABLES
  commits,   \* every commit made, oldest first: its tree, its parent and whose it is
  refs,      \* the commit of each branch, and of a detached HEAD; 0 for none
  head,      \* the branch checked out, or Detached
  index,     \* what the next commit would hold
  tree,      \* the working tree
  unmerged,  \* files a conflict left unmerged in the index
  stash,     \* stashed trees with the commit they were taken from, newest first
  remote,    \* the commit each branch is at on the remote; 0 for none
  did,       \* the latest call and how it was answered
  steps      \* calls made so far, and what happened in between

repoVars == <<commits, refs, head, index, tree, unmerged, stash, remote>>
vars == <<commits, refs, head, index, tree, unmerged, stash, remote, did, steps>>
-----------------------------------------------------------------------------
(* Requests and answers                                                      *)

Contents == Texts \cup {Absent, Markers}
Trees == [Files -> Contents]
Ids == 1..MaxCommits
Refs == Branches \cup {HeadRef} \cup Ids

BranchCreateRequests == [tool : {"branch_create"}, name : Branches, base : Refs]
CheckoutRequests ==
  [tool : {"checkout"}, ref : Refs, create : {FALSE}]
    \cup [tool : {"checkout"}, ref : Branches, create : {TRUE}, base : Refs]
StageRequests == [tool : {"stage"}, paths : SUBSET Files \ {{}}]
CommitRequests == [tool : {"commit"}]
ResetRequests == [tool : {"reset"}, ref : Refs, hard : BOOLEAN]
StashRequests == [tool : {"stash"}, pop : BOOLEAN]

\* The two sides of a refspec.  A branch is written `b' or `refs/heads/b', or
\* `heads/b' on the sides in heads, which git takes for the same branch.  The
\* source may be Every, with no destination to it; without a source, `:b'
\* deletes b and `:' names the branches both repositories have.
Refspecs ==
  {spec \in [src : Refs \cup {None, Every}, dst : Branches \cup {None},
            heads : SUBSET {"src", "dst"}] :
     /\ \A side \in spec.heads : spec[side] \in Branches
     /\ spec.src = Every => spec.dst = None}

\* What to push, the current branch when that is not said.  It is forced by the
\* flag, or by a `+' before the refspec.
PushRequests == [tool : {"push"}, force : BOOLEAN, branch : {None} \cup Refspecs]
ReadRequests ==
  [tool : {"status", "branch_list", "log"}] \cup [tool : {"show", "diff"}, ref : Refs]
    \cup [tool : {"blame"}, file : Files]

Requests ==
  BranchCreateRequests \cup CheckoutRequests \cup StageRequests \cup CommitRequests
    \cup ResetRequests \cup StashRequests \cup PushRequests \cup ReadRequests
    \cup [tool : {"none"}]

\* Two errors the loop folds, and an exception of git's that no tool catches.
Answers == {"ok", "not_found", "malformed", "escaped"}

Answer(request, answer) ==
  /\ steps < MaxSteps /\ steps' = steps + 1
  /\ did' = [request |-> request, answer |-> answer]

\* Something other than a git tool.
Elsewhere == Answer([tool |-> "none"], "ok")
-----------------------------------------------------------------------------
(* Reading the repository                                                    *)

Blank == [f \in Files |-> Absent]
TreeOf(c) == IF c = 0 THEN Blank ELSE commits[c].tree

Parent(c) == commits[c].parent

\* The commits an id reaches, itself included.
Reaches(c) ==
  LET reached[n \in 0..Len(commits)] ==
        IF n = 0 THEN {} ELSE {n} \cup reached[Parent(n)]
  IN  reached[c]

\* What a commit changed.
Touched(c) == {f \in Files : TreeOf(c)[f] # TreeOf(Parent(c))[f]}

\* Commits this repository has; there is no tool that fetches others'.
Have == {c \in 1..Len(commits) : commits[c].ours}

\* The commit a ref names, 0 when it names none.
Resolve(ref) ==
  CASE ref \in Branches -> refs[ref]
    [] ref = HeadRef       -> refs[head]
    [] OTHER            -> IF ref \in Have THEN ref ELSE 0

\* Faulty variant: the index against the working tree.
StagedPathsAgainstTree == {f \in Files : index[f] # Absent /\ index[f] # tree[f]}

StagedPaths == {f \in Files : index[f] # TreeOf(refs[head])[f]} \cup unmerged

\* Tracked files that differ from the index; the rest of what is there.
Unstaged == {f \in Files : index[f] # Absent /\ tree[f] # index[f]} \cup unmerged
Untracked == {f \in Files : index[f] = Absent /\ tree[f] # Absent} \ unmerged

Status ==
  [branch |-> head, staged |-> StagedPaths, unstaged |-> Unstaged,
   untracked |-> Untracked, clean |-> StagedPaths \cup Unstaged \cup Untracked = {}]

\* The newest of the commits HEAD reaches comes first, since a commit is
\* numbered after its parent.
Log(file) == {c \in Reaches(refs[head]) : file = None \/ file \in Touched(c)}
Newest(cs) == CHOOSE c \in cs : \A d \in cs : d <= c
Blame(file) == Newest(Log(file))

\* A tool that only reads; what it names may not be there.
Read(request) ==
  LET found == CASE request.tool = "log" -> refs[head] # 0
                 [] request.tool \in {"show", "diff"} -> Resolve(request.ref) # 0
                 [] request.tool = "blame" -> TreeOf(refs[head])[request.file] # Absent
                 [] OTHER -> TRUE
  IN  /\ Answer(request, IF found THEN "ok" ELSE "not_found")
      /\ UNCHANGED repoVars
-----------------------------------------------------------------------------
(* Branches and HEAD                                                         *)

\* create_head: an existing branch is refused unless it is where it would be.
Creatable(name, base) == Resolve(base) # 0 /\ refs[name] \in {0, Resolve(base)}

\* git refuses to switch over changes to a file the two commits differ in.
Carries(f, c) ==
  LET was == TreeOf(refs[head])[f]
      target == TreeOf(c)[f]
  IN  \/ target = was
      \/ target = index[f] /\ (target = Absent => tree[f] = Absent)
      \/ index[f] = was /\ tree[f] \in {was, Absent}
SwitchableForced(c) == c # 0 /\ unmerged = {}  \* faulty variant: checkout -f
Switchable(c) == c # 0 /\ unmerged = {} /\ \A f \in Files : Carries(f, c)

\* The files of the commit switched to, where they differ and are not staged.
Moved(old, c) ==
  [f \in Files |-> IF TreeOf(c)[f] \in {TreeOf(refs[head])[f], index[f]}
                     THEN old[f] ELSE TreeOf(c)[f]]

\* git checkout of what `at' names, once the branches are `made'.
Switch(at, c, made) ==
  /\ head' = at
  /\ refs' = [made EXCEPT ![Detached] = IF at = Detached THEN c ELSE 0]
  /\ index' = Moved(index, c)
  /\ tree' = Moved(tree, c)
  /\ UNCHANGED <<commits, unmerged, stash, remote>>

CreateAndSwitch(request, name, base) ==
  LET c == Resolve(base)
      made == [refs EXCEPT ![name] = c]
  IN  \/ /\ ~Creatable(name, base)
         /\ Answer(request, "not_found")
         /\ UNCHANGED repoVars
      \/ /\ Creatable(name, base) /\ Switchable(c)
         /\ Switch(name, c, made)
         /\ Answer(request, "ok")
      \/ /\ Creatable(name, base) /\ ~Switchable(c)
         /\ refs' = made
         /\ Answer(request, "not_found")
         /\ UNCHANGED <<commits, head, index, tree, unmerged, stash, remote>>

BranchCreate(request) == CreateAndSwitch(request, request.name, request.base)

Checkout(request) ==
  LET ref == request.ref
      c == Resolve(ref)
      at == CASE ref \in Branches -> ref [] ref = HeadRef -> head [] OTHER -> Detached
  IN  \/ request.create /\ CreateAndSwitch(request, ref, request.base)
      \/ /\ ~request.create /\ Switchable(c)
         /\ Switch(at, c, refs)
         /\ Answer(request, "ok")
      \/ /\ ~request.create /\ ~Switchable(c)
         /\ Answer(request, "not_found")
         /\ UNCHANGED repoVars
-----------------------------------------------------------------------------
(* The index, commits and the stash                                          *)

\* Faulty variant: the paths before the missing one are in the index.
StagePathByPath(request) ==
  /\ index' = [f \in Files |-> IF f \in request.paths /\ tree[f] # Absent
                                 THEN tree[f] ELSE index[f]]
  /\ Answer(request, IF \E f \in request.paths : tree[f] = Absent THEN "not_found" ELSE "ok")
  /\ UNCHANGED <<commits, refs, head, tree, unmerged, stash, remote>>

\* All of the paths or none.  Whether adding a file settles its conflict is up
\* to git's index.
Stage(request) ==
  \/ /\ \E f \in request.paths : tree[f] = Absent
     /\ Answer(request, "not_found")
     /\ UNCHANGED repoVars
  \/ /\ \A f \in request.paths : tree[f] # Absent
     /\ index' = [f \in Files |-> IF f \in request.paths THEN tree[f] ELSE index[f]]
     /\ unmerged' \in {unmerged, unmerged \ request.paths}
     /\ Answer(request, "ok")
     /\ UNCHANGED <<commits, refs, head, tree, stash, remote>>

\* _reject_protected_write
WriteRejected(branch) == ~WritesAllowed /\ branch \in Protected

Commit(request) ==
  \/ /\ StagedPaths = {} \/ WriteRejected(head)
     /\ Answer(request, "malformed")
     /\ UNCHANGED repoVars
  \/ /\ StagedPaths # {} /\ ~WriteRejected(head)
     /\ unmerged # {}
     /\ Answer(request, "escaped")
     /\ UNCHANGED repoVars
  \/ /\ StagedPaths # {} /\ ~WriteRejected(head)
     /\ unmerged = {} /\ Len(commits) < MaxCommits
     /\ commits' = Append(commits, [tree |-> index, parent |-> refs[head], ours |-> TRUE])
     /\ refs' = [refs EXCEPT ![head] = Len(commits) + 1]
     /\ Answer(request, "ok")
     /\ UNCHANGED <<head, index, tree, unmerged, stash, remote>>

\* The branch checked out moves, whichever it is; a hard reset takes every
\* tracked file with it.
Reset(request) ==
  LET c == Resolve(request.ref)
      tracked == {f \in Files : index[f] # Absent \/ TreeOf(c)[f] # Absent} \cup unmerged
  IN  \/ /\ c = 0
         /\ Answer(request, "not_found")
         /\ UNCHANGED repoVars
      \/ /\ c # 0
         /\ refs' = [refs EXCEPT ![head] = c]
         /\ index' = TreeOf(c)
         /\ unmerged' = {}
         /\ tree' = IF request.hard
                      THEN [f \in Files |-> IF f \in tracked THEN TreeOf(c)[f] ELSE tree[f]]
                      ELSE tree
         /\ Answer(request, "ok")
         /\ UNCHANGED <<commits, head, stash, remote>>

Untouched(f) == index[f] = TreeOf(refs[head])[f] /\ (index[f] = Absent \/ tree[f] = index[f])

\* git leaves a file alone that neither the index nor HEAD has.
Foreign(f) == index[f] = Absent /\ TreeOf(refs[head])[f] = Absent
Stashed(f) ==
  CASE Foreign(f) -> Absent
    [] TreeOf(refs[head])[f] = Absent /\ tree[f] = Absent -> index[f]
    [] OTHER -> tree[f]

\* No handler translates a failure here.
StashPush(request) ==
  \/ /\ refs[head] = 0 \/ unmerged # {}
     /\ Answer(request, "escaped")
     /\ UNCHANGED repoVars
  \/ /\ refs[head] # 0 /\ unmerged = {}
     /\ \A f \in Files : Untouched(f)
     /\ Answer(request, "ok")
     /\ UNCHANGED repoVars
  \/ /\ refs[head] # 0 /\ unmerged = {} /\ Len(stash) < MaxStash
     /\ \E f \in Files : ~Untouched(f)
     /\ stash' = <<[base |-> refs[head], tree |-> [f \in Files |-> Stashed(f)]]>> \o stash
     /\ index' = TreeOf(refs[head])
     /\ tree' = [f \in Files |-> IF Foreign(f) THEN tree[f] ELSE TreeOf(refs[head])[f]]
     /\ Answer(request, "ok")
     /\ UNCHANGED <<commits, refs, head, unmerged, remote>>

\* The latest entry is merged into the index and the tree.  It is dropped if
\* that went well; if not, the tree is left as the merge left it.
StashPop(request) ==
  LET entry == stash[1]
      base(f) == TreeOf(entry.base)[f]
      brings(f) == entry.tree[f] \notin {base(f), index[f]}
      conflicts == {f \in Files : brings(f) /\ index[f] # base(f)}
      deletes(f) == f \in conflicts /\ entry.tree[f] = Absent
      inTheWay(f) == brings(f) /\ ~deletes(f) /\ tree[f] \notin {index[f], Absent}
      merged == [f \in Files |->
                   IF ~brings(f) \/ deletes(f) THEN tree[f]
                   ELSE IF f \in conflicts /\ index[f] # Absent THEN Markers
                   ELSE entry.tree[f]]
  IN  \/ /\ stash = <<>> \/ unmerged # {}
         /\ Answer(request, "not_found")
         /\ UNCHANGED repoVars
      \/ /\ stash # <<>> /\ unmerged = {}
         /\ \E f \in Files : inTheWay(f)
         /\ Answer(request, "not_found")
         /\ UNCHANGED repoVars
      \/ /\ stash # <<>> /\ unmerged = {}
         /\ \A f \in Files : ~inTheWay(f)
         /\ conflicts # {}
         /\ tree' = merged
         /\ index' = [f \in Files |-> IF brings(f) /\ f \notin conflicts
                                        THEN merged[f] ELSE index[f]]
         /\ unmerged' = conflicts
         /\ Answer(request, "not_found")
         /\ UNCHANGED <<commits, refs, head, stash, remote>>
      \/ /\ stash # <<>> /\ unmerged = {}
         /\ \A f \in Files : ~inTheWay(f)
         /\ conflicts = {}
         /\ tree' = merged
         /\ index' = [f \in Files |-> IF brings(f) /\ index[f] = Absent
                                        THEN entry.tree[f] ELSE index[f]]
         /\ stash' = Tail(stash)
         /\ Answer(request, "ok")
         /\ UNCHANGED <<commits, refs, head, unmerged, remote>>

Stash(request) == IF request.pop THEN StashPop(request) ELSE StashPush(request)
-----------------------------------------------------------------------------
(* The remote                                                                *)

\* The refspec handed to git push; when none is given, the current branch.
Refspec(request) ==
  IF request.branch = None THEN [src |-> head, dst |-> None, heads |-> {}] ELSE request.branch

PushRejectedBySource(spec) == WriteRejected(spec.src)  \* faulty variant: no refspecs

\* _reject_protected_push_ref compares the two names as they are written, less
\* a `+' and `refs/heads/'; `heads/b' equals no name.
PushRejected(spec) ==
  /\ ~WritesAllowed
  /\ \E side \in {"src", "dst"} \ spec.heads : spec[side] \in Protected

Several(spec) == spec.dst = None /\ spec.src \in {None, Every}
Deletes(spec) == spec.dst # None /\ spec.src = None

\* `heads/b' where the remote has no b: git makes a branch called heads/b.
Strays(spec) == "dst" \in spec.heads /\ remote[spec.dst] = 0

\* The branches of the remote a refspec is about.
Destinations(spec) ==
  IF Several(spec)
    THEN {b \in Branches : refs[b] # 0 /\ (spec.src = Every \/ remote[b] # 0)}
  ELSE IF Strays(spec) THEN {}
  ELSE IF spec.dst # None THEN {spec.dst}
  ELSE {IF spec.src = HeadRef THEN head ELSE spec.src} \cap Branches

\* Where it takes them.
Sent(spec, b) ==
  IF Deletes(spec) THEN 0 ELSE IF Several(spec) THEN refs[b] ELSE Resolve(spec.src)

\* Faulty variant: every push is forced.
PushableForced(spec, force, b) == IF Deletes(spec) THEN remote[b] # 0 ELSE Sent(spec, b) # 0

\* git pushes what exists, and forward unless forced.
Pushable(spec, force, b) ==
  IF Deletes(spec)
    THEN remote[b] # 0
    ELSE /\ Sent(spec, b) # 0
         /\ force \/ remote[b] \in Reaches(Sent(spec, b)) \cup {0}

\* The remote may refuse anything.  Of several branches those that can be
\* moved are, and the call fails if one could not.
Push(request) ==
  LET spec == Refspec(request) IN
  \/ /\ PushRejected(spec)
     /\ Answer(request, "malformed")
     /\ UNCHANGED repoVars
  \/ /\ ~PushRejected(spec)
     /\ \E moved \in SUBSET {b \in Destinations(spec) : Pushable(spec, request.force, b)} :
          /\ remote' = [b \in Branches |-> IF b \in moved THEN Sent(spec, b) ELSE remote[b]]
          /\ Answer(request, IF moved # {} /\ moved = Destinations(spec) THEN "ok" ELSE "not_found")
     /\ UNCHANGED <<commits, refs, head, index, tree, unmerged, stash>>
  \/ /\ ~PushRejected(spec) /\ Strays(spec) /\ spec.src # None /\ Resolve(spec.src) # 0
     /\ Answer(request, "ok")
     /\ UNCHANGED repoVars
-----------------------------------------------------------------------------
(* What else happens, and the specification                                  *)

\* The other tools write files.
Edit(f) ==
  /\ \E text \in Texts \ {tree[f]} : tree' = [tree EXCEPT ![f] = text]
  /\ Elsewhere
  /\ UNCHANGED <<commits, refs, head, index, unmerged, stash, remote>>

\* Somebody else pushes a commit of theirs, which nothing fetches.
OthersPush(b) ==
  /\ remote[b] # 0 /\ Len(commits) < MaxCommits
  /\ commits' = Append(commits, [tree |-> TreeOf(remote[b]), parent |-> remote[b], ours |-> FALSE])
  /\ remote' = [remote EXCEPT ![b] = Len(commits) + 1]
  /\ Elsewhere
  /\ UNCHANGED <<refs, head, index, tree, unmerged, stash>>

\* A new repository with files in it, or a clone of the trunk, left on any branch.
Init ==
  /\ head \in Branches
  /\ \E n \in 0..MaxHistory : \E trees \in [1..n -> [Files -> Texts \cup {Absent}]] :
       /\ commits = [c \in 1..n |-> [tree |-> trees[c], parent |-> c - 1, ours |-> TRUE]]
       /\ refs = [b \in Branches \cup {Detached} |-> IF b \in {Trunk, head} THEN n ELSE 0]
       /\ remote = [b \in Branches |-> IF b = Trunk THEN n ELSE 0]
       /\ index = IF n = 0 THEN Blank ELSE trees[n]
  /\ tree = index
  /\ unmerged = {}
  /\ stash = <<>>
  /\ did = [request |-> [tool |-> "none"], answer |-> "ok"]
  /\ steps = 0

Next ==
  \/ \E request \in BranchCreateRequests : BranchCreate(request)
  \/ \E request \in CheckoutRequests : Checkout(request)
  \/ \E request \in StageRequests : Stage(request)
  \/ \E request \in CommitRequests : Commit(request)
  \/ \E request \in ResetRequests : Reset(request)
  \/ \E request \in StashRequests : Stash(request)
  \/ \E request \in PushRequests : Push(request)
  \/ \E request \in ReadRequests : Read(request)
  \/ \E f \in Files : Edit(f)
  \/ \E b \in Branches : OthersPush(b)

Spec == Init /\ [][Next]_vars
-----------------------------------------------------------------------------
(* Properties                                                                *)

\* Commits point back, and refs and stash entries at commits this repository
\* has.
GitTypeOK ==
  /\ commits \in Seq([tree : Trees, parent : 0..MaxCommits, ours : BOOLEAN])
  /\ Len(commits) <= MaxCommits
  /\ \A c \in 1..Len(commits) : Parent(c) < c
  /\ refs \in [Branches \cup {Detached} -> {0} \cup Have]
  /\ remote \in [Branches -> 0..Len(commits)]
  /\ head \in Branches \cup {Detached}
  /\ index \in Trees /\ tree \in Trees
  /\ unmerged \in SUBSET Files
  /\ stash \in Seq([base : Have, tree : Trees])
  /\ did \in [request : Requests, answer : Answers]
  /\ steps \in 0..MaxSteps

Guarded == IF WritesAllowed THEN {} ELSE Protected

\* The latest call pushes, to a destination the guard of push does not see:
\* it is left to HEAD, to a pattern or to `:', or written `heads/b'.
Roundabout ==
  /\ did.request.tool = "push" /\ did.request.branch # None
  /\ LET spec == did.request.branch IN
       \/ "dst" \in spec.heads
       \/ spec.dst = None /\ (spec.src \in {None, Every, HeadRef} \/ "src" \in spec.heads)

Policy == INSTANCE BranchPolicy WITH
  made <- Len(commits),
  local <- [b \in Guarded |-> refs[b]],
  published <- [b \in Guarded |-> remote[b]],
  roundabout <- Roundabout

\* No sequence of tools makes a commit on a protected branch.  A push moves or
\* deletes one at the remote only where its refspec leaves the destination to
\* HEAD, to a pattern or to `:', or writes it `heads/b': a branch named as it
\* is, deleted or pushed by default does not get round the guards of commit and
\* push.  (ProtectedNotPushed is about those that do.)
ImplementsPolicy == Policy!PolicySpec

Forced == did.request.tool = "push" /\ did.request.force
HardReset == did.request.tool = "reset" /\ did.request.hard
Deleted(b) ==
  /\ did.request.tool = "push" /\ did.request.branch # None
  /\ Deletes(did.request.branch) /\ did.request.branch.dst = b

\* What the commits at hand hold of a file: HEAD's, and those stashes are of.
Committed(f) ==
  {TreeOf(c)[f] : c \in {refs[head]} \cup {stash[e].base : e \in 1..Len(stash)}}

\* What is written and not committed is never lost to a tool, a hard reset
\* aside: where a tool takes it out of the tree, a commit, the index or the
\* stash holds it, and an entry leaves the stash only when the tree or the
\* index holds what it brought.
UnsavedWorkKept ==
  [][/\ \A f \in Files :
          tree'[f] # tree[f] /\ did'.request.tool # "none" /\ ~HardReset' =>
            \/ tree[f] \in Committed(f) \cup {Absent, index'[f]}
            \/ \E e \in 1..Len(stash') : stash'[e].tree[f] = tree[f]
     /\ Len(stash') < Len(stash) =>
          \A f \in Files :
            stash[1].tree[f] \in {TreeOf(stash[1].base)[f], index'[f], tree'[f]}]_vars

\* A call that is refused, or that raises, leaves everything as it was but for
\* the part of it that went well: the branch it made before it could not
\* switch, the markers of a stash that conflicts, whose entry is kept, and the
\* branches a push of several could move where it could not move one.
RefusalLeavesRepository ==
  [][did'.answer # "ok" /\ steps' # steps =>
       /\ UNCHANGED <<commits, head, stash>>
       /\ remote' # remote =>
            /\ did'.request.tool = "push" /\ did'.request.branch # None
            /\ Several(did'.request.branch)
            /\ \E b \in Branches : refs[b] # 0 /\ remote'[b] = remote[b]
       /\ \A b \in DOMAIN refs : refs'[b] # refs[b] =>
            /\ refs[b] = 0 /\ UNCHANGED <<index, tree, unmerged>>
            /\ did'.request.tool \in {"branch_create", "checkout"}
       /\ <<index, tree>>' # <<index, tree>> =>
            /\ did'.request = [tool |-> "stash", pop |-> TRUE]
            /\ unmerged = {} /\ unmerged' # {}]_vars

\* What others pushed stays reachable at the remote, unless a push is forced
\* or deletes the branch.
OthersWorkKept ==
  [][\A b \in Branches :
       remote[b] # 0 /\ remote'[b] # remote[b] /\ ~Forced' /\ ~Deleted(b)' =>
         \E c \in Ids : remote'[b] = c /\ remote[b] \in Reaches(c)']_vars

\* A commit records the paths status listed as staged, and nothing else; then
\* nothing is listed, and the commit is the newest of the log and the one
\* blamed for each of them.
CommitIsWhatReadersShow ==
  [][did'.request.tool = "commit" /\ did'.answer = "ok" =>
       /\ Touched(Len(commits))' = Status.staged
       /\ Status'.staged = {}
       /\ Newest(Log(None))' = Len(commits')
       /\ \A f \in Status.staged : index[f] # Absent => Blame(f)' = Len(commits')]_vars

\* git_tools.py:132: "Stop protected branch pushes named as branches or
\* refspecs."  Names are compared as they are written, before git resolves them.
ProtectedNotPushed ==
  [][\A b \in Guarded : did'.request.tool = "push" => remote'[b] = remote[b]]_vars
=============================================================================
