SPECIFICATION FairSpec
CONSTANTS
  WindowSize = 2
  BufferSize = 4
  FileSize = 14
  SeqMod = 64
  MemFlags = {5, 6, 16}
  MemNumbers = {0}
  FirstNumbers = {0, 2}
  ChannelCap = 3
  SendMayDrop = TRUE
  SendMayFail = TRUE
  RrRetries = 2
  SrejRetries = 3
INVARIANTS
  TypeOK
  OutputOrdered
  PacketsGenuine
  ExpectedWithinSent
  HeldIsUnacked
  SrejBudget
  AckedWasDecided
PROPERTIES
  NeverBack
  ImplementsOrderedCopy
  EndsOrHangs
