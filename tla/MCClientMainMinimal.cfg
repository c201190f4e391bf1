SPECIFICATION Spec
CONSTANTS
  Files <- MCMinimalFiles
  Commands = 3
  Repeats = 2
INVARIANT MinimalRunsTwoTests
CHECK_DEADLOCK FALSE
