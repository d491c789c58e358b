SPECIFICATION CSpec
CONSTANTS
  p = p
  q = q
  Prompts = {p, q}
  Text <- Says
  Shared = Shared
  None = None
  Window = 3
  MaxChunks <- TwoAndNone
  MaxVisits = 2
  MaxFaults = 1
CHECK_DEADLOCK FALSE
INVARIANT TurnsRelinked
