SPECIFICATION FairSpec
CONSTANTS
  Clients = {c1}
  Retained = 4
  ChannelSize = 1
  MaxEvents = 4
  MaxFaults = 3
  MaxStops = 2
  Faults <- Restarts
CHECK_DEADLOCK FALSE
PROPERTY AppliesForward
PROPERTY CatchesUp
PROPERTY StreamDeletable
