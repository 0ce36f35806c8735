SPECIFICATION Spec
CONSTANTS
  Members = {1, 2}
  Conns = {1, 2, 3}
  SendCap = 1
  ChannelCap = 1
  MaxInputs = 3
INVARIANT ReconnectedResumes
CHECK_DEADLOCK FALSE
