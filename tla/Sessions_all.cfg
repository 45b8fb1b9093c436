SPECIFICATION MCSpec
CONSTRAINT Bounds
CONSTANTS
  t1 = t1
  f1 = f1
  f2 = f2
  u1 = u1
  r1 = r1
  t2 = t2
  t3 = t3
  Token = {t1, t2, t3}
  Family = {f1, f2}
  User = {u1, u2}
  Req = {r1, r2}
  None = None
  Tab = {b1, b2}
  Call = {c1}
  MaxTroubles = 2
INVARIANTS FamilyHasOneUser OneSuccessorPerHandler ClientTypeOK SessionWithoutRaces
PROPERTIES ImplementsCredentialLife CallsSettle
