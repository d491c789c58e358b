SPECIFICATION FairSpec
CONSTANTS
  Clients = {c1}
  Retained = 1
  ChannelSize = 1
  MaxEvents = 3
  MaxFaults = 1
  MaxStops = 1
  Faults <- Streams
CHECK_DEADLOCK FALSE
PROPERTY CatchesUp
