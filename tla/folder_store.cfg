SPECIFICATION Spec
CONSTANTS
  a = a
  b = b
  x = x
  text = text
  NoFile = NoFile
  Paths <- MCPaths
  Folders <- MCFolders
  KeyOrder <- MCKeyOrder
  Contents = {text}
  Engines = {"mem", "kv", "disk"}
  c1 = c1
  c2 = c2
  Callers = {c1, c2}
  Torn = Torn
  Idle = Idle
  MaxCalls = 2
  Overlapping = FALSE
SYMMETRY MCSymmetry
CHECK_DEADLOCK FALSE
PROPERTY WholeFolder
