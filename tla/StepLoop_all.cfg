\* Two chats: every guard, interrupts, compaction, failures and a spend limit.
CONSTANTS
  Chats = 2
  MaxIter = 3
  MaxRepeatCalls = 2
  InspectionLimit = 2
  ValidationLimit = 2
  TurnMax = {2}
  Prices = {0, 1}
  MayCompact = TRUE
  MayQueue = TRUE
  Results = {r1}
SPECIFICATION FairSpec
INVARIANTS TurnsBracketed LoopGuardExact ToolCallsAnswered
PROPERTIES CompletionGuardExact ChatEnds
CHECK_DEADLOCK FALSE
