SPECIFICATION Spec
CONSTANTS
  Members = {1, 2}
  Conns = {1, 2}
  SendCap = 1
  ChannelCap = 1
  MaxInputs = 4
INVARIANTS
  TypeOK
  RegisteredOpen
  OneLiveSubscription
  FramesInPublishOrder
PROPERTIES
  ArrivedReachesViewers
  CancelledSubscriptionsEnd
CHECK_DEADLOCK FALSE
