SPECIFICATION Spec
CONSTRAINT Bounds
CONSTANTS
  Org = {o1, o2}
  Bob = Bob
  bob = bob
  amy = amy
  Email <- MCEverybody
  Lower <- MCLowerEverybody
  GrantRole = {"ADMIN", "GUEST"}
  InviteToken = {i1, i2}
  Req = {r1, r2}
  None = None
  MaxRejoin = 1
SYMMETRY Symmetric
INVARIANTS TypeOK OwnerCheckNeverStale OnlyFoundersOwn AdmittedOnlyByGrant
PROPERTY InviteImplementsCredentialLife
CHECK_DEADLOCK FALSE
