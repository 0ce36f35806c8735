SPECIFICATION Spec
CONSTANTS
  k1 = k1
  k2 = k2
  mem1 = mem1
  mem2 = mem2
  ann = ann
  bob = bob
  web = web
  o1 = o1
  o2 = o2
  o3 = o3
  o4 = o4
  Members = {mem1, mem2, ann, bob, web}
  WebIds = {web}
  OrderIds = {o1, o2, o3, o4}
  SeedMembers <- DemoMembers
  SeedOrders <- DemoOrders
  Joins <- JoinRequests
  Clients = {k1, k2}
  BaseFee = 35
  StartDistance = 2
  Proximity = 1
  RedisMayFail = TRUE
  MaxJoins = 3
SYMMETRY RequestSymmetry
INVARIANTS
  TypeOK
  MembersDistinct
  FeeMatchesTier
PROPERTIES
  OnlyOverlookedMembersAreLost
CHECK_DEADLOCK FALSE
