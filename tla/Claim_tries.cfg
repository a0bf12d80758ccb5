SPECIFICATION Spec
CONSTANTS
  Clients = {"r1"}
  Cancelling = {}
  Forks = {1}
  SendTries = 2
  ValidTries = 2
  ErrTries = 2
  ChannelCap = 2
  SendMayDrop = TRUE
  SendMayFail = TRUE
INVARIANT
  TriesEnd
