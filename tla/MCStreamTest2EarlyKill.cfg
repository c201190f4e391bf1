SPECIFICATION TestSpec
CONSTANTS
  StreamCount = 2
  RGens = {0, 1}
  WGens = {0}
  WarmUp = 1
  Timed = 2
  Settled = TRUE
  EarlyKill = TRUE
  NoWriter = NoWriter
  NoSlot = NoSlot
  Slots <- Streams
  Servers <- RCalls
  Clients <- WCalls
  ServerSlots <- ROwnSlot
  ClientSlots <- WOwnSlot
  Garbage <- Streams
INVARIANTS
  WriteOnlyToAWriter
