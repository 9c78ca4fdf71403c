SPECIFICATION SessionsSpec
CONSTANTS
  Ceiling = 3
  MaxBatch = 2
  Tools = {"fs_grep", "fs_write_file"}
  UnknownTool = "no_such_tool"
  Scope = {"fs_grep"}
  Suite <- MCSuite
  Repeats = 2
  None = None
CHECK_DEADLOCK FALSE
INVARIANT SynthesisEscalates
