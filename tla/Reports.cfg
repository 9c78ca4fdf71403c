SPECIFICATION ReportsSpec
CONSTANTS
  Modules = {1, 2, 3, 4}
  f = f
  g = g
  h = h
  Names = {f, g, h}
  Outside = Outside
  None = None
  ImportGraphs <- MCImportGraphs
  Programs <- MCPrograms
  Paths = {{1, 2, 3, 4}, {1, 2, 3}, {1}}
  MaxDepth = 3
  t1 = t1
  t2 = t2
  source1 = source1
  Tests = {t1, t2}
  Sources = {source1}
\* Two keys, a short and a long result, a summary whose length is between
\* the two; three payloads are enough for a payload to be evicted, spared
\* and pinned side by side.
  Keys = {k1, k2}
  Goals = {g1, g2}
  Facts = {f1}
  Sizes = {8, 80}
  SummarySizes = {24}
  Threshold = 10
  TaskChars = 10
  GoalChars = 6
  FactChars = 6
  MaxPayloads = 3
CHECK_DEADLOCK FALSE
INVARIANTS
  CyclesExact
  EdgesExact
  GreenMeansNothingFails
  NoVerdictWithoutProgram
  RereadTagExact
PROPERTIES
  EveryRequestAnswered
  DurableStateSurvives
  PayloadLogPreserved
  CompactionReachesFloor
