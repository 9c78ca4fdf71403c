SPECIFICATION Spec
CONSTANTS
  main = main
  feature = feature
  a = a
  b = b
  Branches <- MCBranches
  Protected = {main}
  Trunk = main
  Files = {"f", "g"}
  Texts <- MCTexts
  Absent = Absent
  Markers = Markers
  Detached = Detached
  HeadRef = HEAD
  None = None
  Every = Every
  WritesAllowed = FALSE
  MaxHistory = 1
  MaxCommits = 3
  MaxStash = 1
  MaxSteps = 7
SYMMETRY TextSymmetry
VIEW RepoView
CHECK_DEADLOCK FALSE
CONSTRAINT CallsLeft
PROPERTIES
  UnsavedWorkKept
  RefusalLeavesRepository
  OthersWorkKept
  CommitIsWhatReadersShow
  ImplementsPolicy
