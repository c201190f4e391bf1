SPECIFICATION Spec
CONSTANTS
  r1 = r1
  r2 = r2
  r3 = r3
  NoObject = NoObject
  NoAnswer = NoAnswer
  Rpcs <- MCRpcs
  Want <- MCWant
  Objects <- MCObjects
INVARIANTS
  TagsPartitionLive
  AlwaysListening
  AcceptedIsHeld
  PostedGrows
PROPERTIES
  ImplementsService
CHECK_DEADLOCK FALSE
