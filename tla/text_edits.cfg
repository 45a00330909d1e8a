SPECIFICATION Spec
CONSTANTS
  a = a
  umlaut = umlaut
  newline = newline
  Characters = {a, umlaut, newline}
  Newline = newline
  Width <- MCWidth
  MaxBytes = 6
  MaxRun = 2
INVARIANTS EditsByCharacter
