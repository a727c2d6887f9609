\* Both limits, subagents side by side and in the background, steps that fail.
CONSTANTS
  Root = root
  Wake = wake
  Children = {a1, a2}
  Chats = 2
  Steps = 2
  Prices = {1, 2}
  TranscriptMax = 3
  TurnMax = {2}
  Parallel = 2
  Background = TRUE
  MayFail = TRUE
SYMMETRY Symmetry
SPECIFICATION Spec
INVARIANTS HonestTotal LedgerComplete OverrunBounded
PROPERTY LimitsFinal
CHECK_DEADLOCK FALSE
