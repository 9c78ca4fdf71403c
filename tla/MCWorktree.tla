----------------------------- MODULE MCWorktree -----------------------------
(***************************************************************************)
(* Small instances of Worktree: two files of up to three lines, one line   *)
(* of which refers to a symbol twice and names an attribute like it.       *)
(***************************************************************************)
EXTENDS Worktree

OldName == <<"f", "n">>
NewName == <<"g">>
SomeLetters == {"f", "n", "g", "x"}
SomeCharacters == SomeLetters \cup {"(", ")", "."}

PlainLine == <<"x">>
CallLine == <<"f", "n", "(", "f", "n", ")", ".", "f", "n">>
SomeTexts == {<<Blank>>, <<Blank, CallLine>>, <<CallLine, Blank, Blank>>}

(* A text of two lines, and what it says when either is edited.            *)
EditTexts ==
    {<<PlainLine, PlainLine>>, <<CallLine, PlainLine>>, <<PlainLine, NewName>>}

Swaps == Permutations(Paths)

(* How the latest tool ended has no effect on what comes after it.         *)
Stored == <<tree, references, patch, tools>>
=============================================================================
