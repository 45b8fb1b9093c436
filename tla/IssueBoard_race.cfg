SPECIFICATION Spec
CONSTRAINT Bounds
CONSTANTS
  BASE = 2
  MaxRankLen = 2
  Issue = {i1, i2, i3}
  Status = {todo, done}
  Req = {r1, r2}
  None = None
SYMMETRY Symmetric
INVARIANTS TypeOK NumbersAreASequence CreatesInOrder RanksUsable
PROPERTY DropsLandBetween
CHECK_DEADLOCK FALSE
