SPECIFICATION MCFairSpec
CONSTANTS
  Turns = {t1, t2}
  FirstTurn = t1
  Replicas = {r1, r2}
  FirstReplica = r1
  Sessions = {s1, s2}
  Deleters = {d1}
  NoTurn = NoTurn
  NoSession = NoSession
  LeaseTTL = 2
  RenewEvery = 1
  Slack = 0
  UnwindBound = 1
  MaxChunks = 0
INVARIANT DTypeOK
INVARIANT MappingIntact
INVARIANT OneTurnPerReplica
INVARIANT TableHolds
PROPERTY ActiveCheckSound
PROPERTY OnlyOwnerReleases
PROPERTY LeaseFreed
PROPERTY TableFreed
