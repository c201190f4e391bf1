SPECIFICATION TestSpec
CONSTANTS
  StreamCount = 1
  RGens = {0, 1}
  WGens = {0, 1}
  WarmUp = 1
  Timed = 1
  Settled = FALSE
  EarlyKill = TRUE
  NoWriter = NoWriter
  NoSlot = NoSlot
  Slots <- Streams
  Servers <- RCalls
  Clients <- WCalls
  ServerSlots <- ROwnSlot
  ClientSlots <- WOwnSlot
  Garbage <- Streams
INVARIANTS
  ReportIsComplete
