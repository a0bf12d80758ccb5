SPECIFICATION Spec
CONSTANTS
  Clients = {"r1", "r2"}
  Cancelling = {"r2"}
  Forks = {1, 2}
  SendTries = 2
  ValidTries = 1
  ErrTries = 1
  ChannelCap = 1
  SendMayDrop = TRUE
  SendMayFail = TRUE
INVARIANTS
  SessionTypeOK
  ServedByOpener
  ForkPerRequest
  OneRequestOneChild
PROPERTY
  ImplementsDispatch
