SPECIFICATION MCSpec
CONSTRAINT Bounds
SYMMETRY Symmetric
CONSTANTS
  i1 = i1
  i2 = i2
  p1 = p1
  text1 = text1
  Project = {p1, p2}
  Issue = {i1, i2}
  ProjectOf <- MCProjectOf
  Place <- MCPlace
  Text = {text1, text2}
  Mutation = {m1, m2}
  Limit = 1
  MaxWrites = 2
  MaxTroubles = 2
INVARIANTS TypeOK OneCardPerIssue NoLastingGuesses InSyncWithoutRaces
CHECK_DEADLOCK FALSE
