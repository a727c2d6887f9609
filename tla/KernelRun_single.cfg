\* One Stream call; background agents come from its own turns.
CONSTANTS
  Callers = {c1}
  Tasks = {t1, t2}
  HostMsgs = {h1}
  MaxStreams = 1
  MaxIter = 3
  HostSpawns = FALSE
  StepsFail = TRUE
  NoProc = NoProc
  Turn = Turn
  Summary = Summary
SPECIFICATION Spec
INVARIANTS LoopSerialized NoWakeGap
PROPERTY ImplementsMailbox
CHECK_DEADLOCK FALSE
