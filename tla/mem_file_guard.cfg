SPECIFICATION Spec
CONSTANTS
  a = a
  b = b
  x = x
  NoFile = NoFile
  Paths <- MCPaths
  Folders <- MCFolders
  InitialStore <- MCStore
  Blob <- MCBlob
  SAVE_THRESHOLD = 2
  MaxRun = 2
  MaxEdits = 3
  MaxFaults = 2
INVARIANT BufferRunsAhead
PROPERTIES ImplementsSession CallsActOnSession
