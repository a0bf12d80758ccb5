SPECIFICATION Spec
CONSTANTS
  WindowSize = 2
  BufferSize = 4
  FileSize = 14
  SeqMod = 64
  MemFlags = {0}
  MemNumbers = {0}
  FirstNumbers = {0}
  ChannelCap = 3
  SendMayDrop = TRUE
  SendMayFail = FALSE
  RrRetries = 2
  SrejRetries = 2
PROPERTY SrejResendsMissing
