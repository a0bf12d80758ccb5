SPECIFICATION FairSpec
CONSTANTS
  WindowSize = 2
  BufferSize = 4
  FileSize = 11
  SeqMod = 64
  MemFlags = {0, 6}
  MemNumbers = {0}
  ChannelCap = 2
  SendMayDrop = FALSE
  SendMayFail = TRUE
  RrRetries = 2
  SrejRetries = 2
  LastSeq = 2
  LateFlags = {33}
INVARIANTS OutputOrdered SrejBudget
PROPERTIES ImplementsOrderedCopy EofEnds
