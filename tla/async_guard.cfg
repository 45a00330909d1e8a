SPECIFICATION Spec
CONSTANTS
  r = r
  a = a
  b = b
  x = x
  engine = engine
  Guard = Guard
  Gone = Gone
  NoFile = NoFile
  Paths <- MCPaths
  Folders <- MCFolders
  KeyOrder <- MCKeyOrder
  InitialStore <- MCStore
  Modules <- MCModules
  Callers = {engine}
  SAVE_THRESHOLD = 2
  MaxRun = 2
  MaxEdits = 2
  MaxMishaps = 1
  MaxFaults = 1
INVARIANTS TypeOK BufferRunsAhead
PROPERTIES ImplementsSession OperationsActOnSession SnapshotPersists
