SPECIFICATION FairSpec
CONSTANTS
  Callers = {c1}
  Subscribers = {s1}
  Closers = {k1}
  SubCap = 2
  MaxNotes = 2
  ReadLoop = readLoop
PROPERTIES
  PromptReturns
  NobodyWaitsForever
