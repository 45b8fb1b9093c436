SPECIFICATION Spec
CONSTANTS
  BASE = 4
  MaxRankLen = 2
  Issue = {i1, i2}
  Status = {todo, done}
  Req = {r1}
  None = None
INVARIANT RanksDistinct
CHECK_DEADLOCK FALSE
