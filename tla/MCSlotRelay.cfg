SPECIFICATION Spec
CONSTANTS
  a = a
  b = b
  d = d
  s1 = s1
  s2 = s2
  s3 = s3
  c1 = c1
  c2 = c2
  NoWriter = NoWriter
  NoSlot = NoSlot
  Slots <- MCSlots
  Servers <- MCServers
  Clients <- MCClients
  ServerSlots <- MCServerSlots
  ClientSlots <- MCClientSlots
  Garbage <- MCGarbage
INVARIANTS
  RegisteredIsLive
  OwnerNeverWritesNull
  ExclusiveSlotIsSafe
PROPERTIES
  LostIsFinal
  ClientEndReleasesServer
