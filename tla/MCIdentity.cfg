\* Two sessions, three requests, from an owner of two organizations.
SPECIFICATION Spec
CONSTANTS
  Users = {"ana", "bo"}
  Orgs = {"o1", "o2"}
  MemberIds = {1, 2, 3, 4}
  RoleParty <- ThreeRoles
  TokenIds = {1, 2}
  GrantIds = {1}
  None = None
  TokenTTL = 1
  MaxTime = 1
  GrantEnds = {1, 2}
  Sessions = {s1, s2}
  Founded <- TwoShops
  Touches = {TRUE, FALSE}
  BackOffice = {"initial_invite", "email_verification"}
  Movable = {"ana", "bo"}
  MaxRequests = 3
INVARIANTS
  TypeOK
  SingleAuthority
  ActiveHasGroup
  GroupsFollowMemberships
  OneOpenToken
  RevokedStaysClosed
PROPERTIES
  EnabledByAToken
  EnabledIsMember
  SuspensionEndsContexts
SYMMETRY Alike
CHECK_DEADLOCK FALSE
