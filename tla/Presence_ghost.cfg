SPECIFICATION Spec
CONSTANTS
  s1 = s1
  s2 = s2
  s3 = s3
  u1 = u1
  u2 = u2
  p1 = p1
  Socket = {s1, s2}
  User = {u1, u2}
  Project = {p1}
  UserOf <- MCUserOf
  Member <- MCMember
  MaxJoins = 2
CHECK_DEADLOCK FALSE
INVARIANT OnlyConnectedArePresent
