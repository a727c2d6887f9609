\* One Stream call after the other, and a background agent.
CONSTANTS
  Callers = {c1, c2}
  Tasks = {t1}
  HostMsgs = {}
  MaxStreams = 1
  MaxIter = 2
  HostSpawns = FALSE
  StepsFail = FALSE
  NoProc = NoProc
  Turn = Turn
  Summary = Summary
SPECIFICATION Spec
INVARIANT HistoryOneWriter
CHECK_DEADLOCK FALSE
