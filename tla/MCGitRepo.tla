------------------------------ MODULE MCGitRepo ------------------------------
(***************************************************************************)
(* GitRepo with a protected trunk and one feature branch.                  *)
(***************************************************************************)
EXTENDS GitRepo, TLC

CONSTANTS main, feature, a, b

MCBranches == {main, feature}
MCTexts == {a, b}

\* The texts are interchangeable.
TextSymmetry == Permutations({a, b})

\* How the latest call ended is read by no action.
RepoView == <<repoVars, steps>>


\* What is reached with the last call is checked and goes no further.
CallsLeft == steps < MaxSteps
=============================================================================
