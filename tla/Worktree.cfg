CONSTANTS
 Paths = {p, q}
 p = p
 q = q
 Texts <- SomeTexts
 Characters <- SomeCharacters
 Letters <- SomeLetters
 Old <- OldName
 New <- NewName
 MaxHunks = 3
 MaxLines = 4
 MaxTools = 3
 MaxWidth = 9
SPECIFICATION Spec
PROPERTIES PatchReachesGoal AppliedWhereItStands RefusalChangesNothing RenameExact
SYMMETRY Swaps
VIEW Stored
CHECK_DEADLOCK FALSE
