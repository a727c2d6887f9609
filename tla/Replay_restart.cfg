\* A second process on the span.
CONSTANTS
  MaxMsgs = 4
  MaxSeq = 40
  Lives = 2
  Happens = {}
SPECIFICATION Spec
INVARIANT RestartRebuilds
CHECK_DEADLOCK FALSE
