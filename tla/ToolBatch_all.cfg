\* Every batch of up to four calls, shell commands included; a terminal with a small
\* channel, two prompts and a queued message; two changes to a file that two agents
\* share and read in pages of two lines; two shell commands.
CONSTANTS
  Kinds <- AnyKind
  MaxCalls = 4
  Cap = 2
  Prompts = 2
  Emissions = 3
  Entries = 1
  Agents = {k, s}
  Original <- ThreeLines
  EditLists <- SomeEdits
  Contents <- SomeFiles
  LongLine = "long"
  WideLine = "wide"
  Limit = 2
  Room = 2
  MaxChanges = 2
  Commands = 2
SPECIFICATION MCSpec
INVARIANTS BatchReported ShownInOrder EditsCompose PagesCover
PROPERTIES ImplementsAtomicBatch BatchesReturn TurnReturns CommandsReturn
CHECK_DEADLOCK FALSE
