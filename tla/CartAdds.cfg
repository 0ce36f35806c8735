SPECIFICATION Spec
CONSTANTS
  m1 = m1
  m2 = m2
  demo = demo
  i1 = i1
  i2 = i2
  i3 = i3
  d1 = d1
  c1 = c1
  c2 = c2
  n1 = n1
  n2 = n2
  NoCart = NoCart
  NoTarget = NoTarget
  NameOf <- MCNameOf
  Members <- MCMembers
  Clients = {m1, m2}
  Carts = {c1, c2}
  Items = {i1, i2, i3}
  Price <- MCPrice
  AddedBy <- MCAddedBy
  SeedsOf <- NoSeeds
  Threshold = 1
  Ttl = 1
  Operations = {"create", "add"}
  RequestsMayFail = TRUE
  MaxAdds = 3
  MaxTime = 3
INVARIANTS
  StoredCartConsistent
  AddedItemsKept
  UnlockedOnce
CHECK_DEADLOCK FALSE
