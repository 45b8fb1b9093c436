SPECIFICATION BoardSpec
CONSTANTS
  BASE = 4
  MaxDigits = 2
  Card = {c1, c2}
  Column = {todo, done}
INVARIANT IgnoredInPlace
CHECK_DEADLOCK FALSE
