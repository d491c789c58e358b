SPECIFICATION Spec
CONSTANTS
  Clients = {c1, c2}
  Retained = 2
  ChannelSize = 1
  MaxEvents = 4
  MaxFaults = 2
  MaxStops = 1
  Faults <- AllButLoss
SYMMETRY Symmetric
CHECK_DEADLOCK FALSE
INVARIANT ETypeOK
INVARIANT DeliveryContiguous
PROPERTY ImplementsEventStream
PROPERTY NoGap
