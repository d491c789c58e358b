SPECIFICATION FairSpec
CONSTANTS
  Starts = {s1, s2}
  Stops = {o1}
  Reaper = Reaper
  NoCall = NoCall
  NoStart = NoStart
  Services = 2
  Plans = {p1}
  MaxFaults = 1
  Faults <- All
CHECK_DEADLOCK FALSE
INVARIANT PTypeOK
INVARIANT RouteOwned
INVARIANT ServedWhileRouted
INVARIANT ProcessesOwned
PROPERTY CrashClosesRoute
PROPERTY LockReleased
