SPECIFICATION Spec
CONSTANTS
  o1 = o1
  o2 = o2
  o3 = o3
  p1 = p1
  p2 = p2
  NumStores = 2
  Orders <- SurgeOrders
  NoOrder = NoOrder
  Pickers = {p1, p2}
  StoreOf <- MCStoreOf
  Schedule <- SurgeSchedule
  Perishable <- SurgePerishable
  Carted <- SurgeCarted
  Capacity = 2
  Distance <- MCDistance
  MaxDist = 1
  BaseFee = 0
  PerDistRate = 1
  AcceptableDelay = 0
  PenaltyRate = 1
  Mode = "naive"
  CooldownNs = 2
  NudgeGraceNs = 2
  InitStock = 2
  CheckEveryTick = TRUE
  TickSteps <- OneTick
  MaxSimTime = 2
PROPERTY
  RunTerminates
