\* Two Stream calls open at once, a background agent started at any time.
CONSTANTS
  Callers = {c1, c2}
  Tasks = {t1}
  HostMsgs = {}
  MaxStreams = 2
  MaxIter = 1
  HostSpawns = TRUE
  StepsFail = TRUE
  NoProc = NoProc
  Turn = Turn
  Summary = Summary
SPECIFICATION FairSpec
INVARIANTS DeliveredOnce IdleMeansIdle
PROPERTY LoopTakesTurns
CHECK_DEADLOCK FALSE
