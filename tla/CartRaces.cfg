SPECIFICATION Spec
CONSTANTS
  m1 = m1
  m2 = m2
  demo = demo
  i1 = i1
  i2 = i2
  i3 = i3
  d1 = d1
  c1 = c1
  c2 = c2
  n1 = n1
  n2 = n2
  NoCart = NoCart
  NoTarget = NoTarget
  NameOf <- OneName
  Members <- MCMembers
  Clients = {m1, m2}
  Carts = {c1}
  Items = {i1, i3, d1}
  Price <- MCPrice
  AddedBy <- ByDemo
  SeedsOf <- DemoSeeds
  Threshold = 2
  Ttl = 1
  Operations = {"create", "join", "add", "remove", "reap"}
  RequestsMayFail = TRUE
  MaxAdds = 1
  MaxTime = 3
SYMMETRY MemberSymmetry
INVARIANTS
  TypeOK
  StoredCartConsistent
  FinalizedOnlyAfterExpiry
  UnlocksAnnounced
PROPERTIES
  LosesOnlyUnread
CHECK_DEADLOCK FALSE
