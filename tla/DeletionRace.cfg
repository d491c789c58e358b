SPECIFICATION DSpec
CONSTANTS
  Turns = {t1}
  FirstTurn = t1
  FirstReplica = r1
  Replicas = {r1}
  Sessions = {s1}
  Deleters = {d1}
  NoTurn = NoTurn
  NoSession = NoSession
  LeaseTTL = 2
  RenewEvery = 1
  Slack = 0
  UnwindBound = 1
  MaxChunks = 0
SYMMETRY Symmetric
INVARIANT DeletedLeavesNothing
