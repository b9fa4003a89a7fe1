SPECIFICATION FairSpec
CONSTANTS
  Callers = {c1}
  Subscribers = {s1}
  Closers = {}
  SubCap = 1
  MaxNotes = 2
  ReadLoop = readLoop
\* The prompt may stay unread for ever: that hazard is what this run shows.
CHECK_DEADLOCK FALSE
PROPERTIES
  PromptReturns
