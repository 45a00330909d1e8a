SPECIFICATION Spec
CONSTANTS
  a = a
  b = b
  x = x
  s1 = s1
  s2 = s2
  c1 = c1
  NoFile = NoFile
  Paths <- MCPaths
  Folders <- MCFolders
  KeyOrder <- MCKeyOrder
  Tasks = {s1, s2}
  Callers = {c1}
  SAVE_THRESHOLD = 2
  MaxRun = 2
  MaxEdits = 3
  MaxCalls = 1
  MaxFaults = 1
SYMMETRY Symmetric
INVARIANTS TypeOK OnlyBatchedUnsaved
PROPERTIES EditsNeverUndone FlushReachesAll AtomicUnlessInterfered
CHECK_DEADLOCK FALSE
