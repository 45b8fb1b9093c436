SPECIFICATION Spec
CONSTANTS
  Org = {o1}
  Bob = Bob
  bob = bob
  amy = amy
  Email <- MCPeople
  Lower <- MCLowerPeople
  GrantRole = {"ADMIN"}
  InviteToken = {i1}
  Req = {r1}
  None = None
  MaxRejoin = 1
INVARIANT OwnerKeepsOrg
CHECK_DEADLOCK FALSE
