\* Every Config below with every gateway, one subagent and up to two servers; every
\* answer of up to three lines, cut, cancelled or abandoned anywhere; a trace of one
\* agent and two calls of the host, read at any moment.
CONSTANTS
  Host = root
  Children = {agent}
  Settings <- SomeSettings
  CommandLines <- SomeCommandLines
  Documents <- SomeDocuments
  DefaultContext = 20
  DefaultBuffer = 5
  Lines <- SomeLines
  MaxLines = 3
  MaxRetries = 3
  root = root
  agent = agent
  noId = noId
  id1 = id1
  id2 = id2
  Root = root
  Agents = {agent}
  NoId = noId
  Messages <- SomeMessages
  Prices = {1}
  Chats = 2
  Turns <- SomeTurns
  Happens <- Anything
SPECIFICATION MCSpec
INVARIANTS LimitsFit RoomToCompact ToolboxRight FinalIsTheAnswer DeltasFaithful
  GivesUpRightly NothingLost TreeIsTrue TotalsAddUp
PROPERTY EveryStepEnds
CHECK_DEADLOCK FALSE
