\* Two processes one after the other, and everything that can go wrong.  A trace with
\* one subagent and two turns, a page that is read or a deletion.  Two runs of
\* the suite, a crash and a repair.
CONSTANTS
  MaxMsgs = 4
  MaxSeq = 7
  Lives = 2
  Happens <- Anything
  TurnPrice = 2
  RootTurns = 2
  Unnamed = {2}
  Chores = 1
  Visits = 1
  Budget = 8
  ReplyPrices = {3}
  Grain = 5
  Replies = 2
  Runs = 2
  MaxSuffix = 2
  Mishaps = 1
  Repairs = 1
SPECIFICATION MCSpec
INVARIANTS CrashLosesOneTurn RebuiltCallsAnswered PageTells GhostsHaveAuthors
  BrakeHolds LedgerHonest CreditIsOwn
CHECK_DEADLOCK FALSE
