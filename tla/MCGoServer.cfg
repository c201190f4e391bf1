SPECIFICATION Spec
CONSTANTS
  z = z
  a = a
  s1 = s1
  s2 = s2
  c1 = c1
  c2 = c2
  tcp = tcp
  uds = uds
  NoStream = NoStream
  NoSlot = NoSlot
  ZeroSlot = z
  Slots <- MCSlots
  Servers <- MCServers
  Clients <- MCClients
  ServerSlots <- MCServerSlots
  ClientSlots <- MCClientSlots
  Listeners <- MCListeners
INVARIANTS
  MapIsLive
  ReplyStaysOnSlot
  ExitIsClean
PROPERTIES
  RemovalHasACause
  ShutdownEnds
CHECK_DEADLOCK FALSE
