SPECIFICATION Spec
CONSTANTS
  WarmUp = 3
  Timed = 4
  Handler = "collecting"
PROPERTIES
  TestEnds
