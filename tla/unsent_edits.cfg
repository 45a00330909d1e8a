SPECIFICATION Spec
CONSTANTS
  c = c
  d = d
  Calls = {c, d}
  None = None
  MaxItems = 2
  MaxOwn = 0
  MaxChanges = 2
  MaxMail = 1
INVARIANT UpdatesSuffice
CHECK_DEADLOCK FALSE
