SPECIFICATION FairSpec
CONSTANTS
  Requests = {s1, q1, q2}
  Streams = {s1}
  Slots = 2
  EventCap = 1
  MaxDeltas = 2
INVARIANTS
  SlotsMatchHolders
  CompleteAnswer
  ClosedAfterHandlers
PROPERTIES
  WaiterServed
  GenerationEnds
  ShutdownEnds
