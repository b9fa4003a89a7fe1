SPECIFICATION Spec
CONSTANTS
  MaxDeltas = 3
  MaxCalls = 2
  Held = 1
INVARIANTS
  OnlyParsedBlocksFiltered
