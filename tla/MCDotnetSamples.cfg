SPECIFICATION ParallelSpec
CONSTANTS
  Clients = 2
  Window = 1
  Iterations = 2
  TenThousand = 1
  Sizes = {2}
INVARIANT MessagesAreWhole
CHECK_DEADLOCK FALSE
