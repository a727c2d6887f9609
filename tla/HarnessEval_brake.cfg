\* One run may break the claim already.
CONSTANTS
  Budget = 4
  ReplyPrices = {2}
  Grain = 1
  Replies = 3
  Runs = 1
  MaxSuffix = 1
  Mishaps = 0
  Repairs = 0
SPECIFICATION SuiteSpec
INVARIANT BrakeHoldsForAll
CHECK_DEADLOCK FALSE
