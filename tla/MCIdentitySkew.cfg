\* Two requests that each end one of an owner's two memberships; nothing is moved.
SPECIFICATION Spec
CONSTANTS
  Users = {"ana", "bo"}
  Orgs = {"o1", "o2"}
  MemberIds = {1, 2, 3, 4}
  RoleParty <- ThreeRoles
  TokenIds = {1}
  GrantIds = {1}
  None = None
  TokenTTL = 1
  MaxTime = 0
  GrantEnds = {1}
  Sessions = {s1, s2}
  Founded <- TwoShops
  Touches = {TRUE}
  BackOffice = {"initial_invite"}
  Movable = {}
  MaxRequests = 2
INVARIANT
  GroupsAreDeserved
CHECK_DEADLOCK FALSE
