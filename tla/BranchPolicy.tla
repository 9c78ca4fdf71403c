---------------------------- MODULE BranchPolicy ----------------------------
(***************************************************************************)
(* What tools/git_tools.py does for protected branches, and no more:       *)
(* commits are made elsewhere, a protected branch only ever moves to a     *)
(* commit that exists, and at the remote only someone else moves it, or a  *)
(* push that goes round the guard.  GitRepo implements it.                 *)
(***************************************************************************)
EXTENDS Naturals

CONSTANT Guarded  \* the branches no tool is to write

VARIABLES
  made,       \* how many commits there are; they are numbered from 1
  local,      \* the commit each guarded branch is at here, 0 for none
  published,  \* the commit each guarded branch is at on the remote, 0 for none
  roundabout  \* whether the latest call pushes to a destination it does not name plainly

policyVars == <<made, local, published>>

PolicyInit ==
  /\ made \in Nat
  /\ local \in [Guarded -> 0..made]
  /\ published \in [Guarded -> 0..made]

\* A commit, which no guarded branch here moves to.
Commit ==
  /\ made' = made + 1
  /\ UNCHANGED <<local, published>>

\* A guarded branch is set to a commit made before.
Retarget(b) ==
  /\ \E c \in 1..made : local' = [local EXCEPT ![b] = c]
  /\ UNCHANGED <<made, published>>

\* What is pushed without being named plainly may be a guarded branch, and it
\* may be deleted.
Slip ==
  /\ roundabout'
  /\ published' \in [Guarded -> 0..made]
  /\ UNCHANGED <<made, local>>

\* Someone else publishes a commit of theirs on a guarded branch.
Receive(b) ==
  /\ made' = made + 1
  /\ published' = [published EXCEPT ![b] = made + 1]
  /\ UNCHANGED local

PolicyNext ==
  \/ Commit \/ Slip
  \/ \E b \in Guarded : Retarget(b) \/ Receive(b)

PolicySpec == PolicyInit /\ [][PolicyNext]_policyVars
=============================================================================
