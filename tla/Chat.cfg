SPECIFICATION CFairSpec
CONSTANTS
  p = p
  q = q
  Prompts = {p, q}
  Text <- Says
  Shared = Shared
  None = None
  Window = 3
  MaxChunks <- TwoAndNone
  MaxVisits = 2
  MaxFaults = 1
CONSTRAINT Bounded
CHECK_DEADLOCK FALSE
INVARIANTS CTypeOK LiveExact NoDuplicateRow ParentsKept
PROPERTIES RowsStay CatchesUp
