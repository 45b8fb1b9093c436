SPECIFICATION Spec
CONSTANTS
  Org = {o1}
  Bob = Bob
  bob = bob
  amy = amy
  Email <- MCPeople
  Lower <- MCLowerPeople
  GrantRole = {"ADMIN", "GUEST"}
  InviteToken = {i1}
  Req = {r1, r2}
  None = None
  MaxRejoin = 1
INVARIANT InviteSingleUse
CHECK_DEADLOCK FALSE
