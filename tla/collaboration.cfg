SPECIFICATION Spec
CONSTANTS
  c = c
  d = d
  Calls = {c, d}
  None = None
  MaxItems = 2
  MaxOwn = 2
  MaxChanges = 2
  MaxMail = 1
SYMMETRY CallSymmetry
INVARIANTS Converges AlwaysReturned
CHECK_DEADLOCK FALSE
