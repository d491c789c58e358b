SPECIFICATION PFairSpec
CONSTANTS
  Requests = {q1}
  Decisions = {"once", "reject"}
  Callers = {a1, u1}
  AutoCallers = {a1}
  Deleters = {}
  Tries = 2
  MaxAsks = 1
  LateAsks = FALSE
  Faults = {}
  Once = "once"
  Rejections = {"reject"}
  Saved <- SavedSwitches
  MaxToggles = 0
  MaxLoads = 1
CHECK_DEADLOCK FALSE
PROPERTY DockSettles
