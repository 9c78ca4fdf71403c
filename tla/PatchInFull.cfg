CONSTANTS
 Paths = {p, q}
 p = p
 q = q
 Texts <- EditTexts
 Characters <- SomeCharacters
 Letters <- SomeLetters
 Old <- OldName
 New <- NewName
 MaxHunks = 4
 MaxLines = 4
 MaxTools = 1
 MaxWidth = 9
SPECIFICATION Spec
PROPERTY AppliedInFull
SYMMETRY Swaps
VIEW Stored
CHECK_DEADLOCK FALSE
