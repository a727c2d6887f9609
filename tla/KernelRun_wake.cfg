\* A woken turn should end with MasterIdle.
CONSTANTS
  Callers = {c1}
  Tasks = {t1}
  HostMsgs = {}
  MaxStreams = 1
  MaxIter = 1
  HostSpawns = FALSE
  StepsFail = FALSE
  NoProc = NoProc
  Turn = Turn
  Summary = Summary
SPECIFICATION FairSpec
PROPERTY WokenTurnGoesIdle
CHECK_DEADLOCK FALSE
