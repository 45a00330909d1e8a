SPECIFICATION Spec
CONSTANTS
  s1 = s1
  r1 = r1
  r2 = r2
  r3 = r3
  Sessions = {s1}
  Requests = {r1, r2, r3}
  GRACE = 1
  ROTATE = 2
  IDLE = 3
  EXPIRE = 3
  PingTime = 1
  MaxTime = 6
  MaxLost = 1
SYMMETRY RequestSymmetry
INVARIANTS TypeOK StaysSignedIn GraceKept
PROPERTIES EvictedWhenIdle RotationsSpaced
