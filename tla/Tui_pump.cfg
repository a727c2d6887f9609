\* One turn and one queued message.
CONSTANTS
  Cap = 2
  Prompts = 1
  Emissions = 2
  Entries = 1
SPECIFICATION TuiFairSpec
PROPERTY ChunksShown
CHECK_DEADLOCK FALSE
