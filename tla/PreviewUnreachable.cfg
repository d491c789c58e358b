SPECIFICATION Spec
CONSTANTS
  Starts = {s1, s2}
  Stops = {o1}
  Reaper = Reaper
  NoCall = NoCall
  NoStart = NoStart
  Services = 1
  Plans = {p1}
  MaxFaults = 0
  Faults <- None
CHECK_DEADLOCK FALSE
INVARIANT ReadyReachable
