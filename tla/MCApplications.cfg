SPECIFICATION AppSpec
CONSTANTS
  Files <- MCFiles
  Commands = 3
  Repeats = 2
INVARIANTS
  FallbackIsDefault
  RunsWhatTheFileEnables
  ResultsOutliveCalls
  TestsMeetAServer
