SPECIFICATION Spec
CONSTANTS
  Turns = {t1, t2, t3}
  Replicas = {r1, r2}
  Sessions = {s1}
  NoTurn = NoTurn
  NoSession = NoSession
  LeaseTTL = 6
  RenewEvery = 1
  Slack = 1
  UnwindBound = 1
  MaxChunks = 1
SYMMETRY Symmetric
INVARIANT TypeOK
INVARIANT OneWriter
INVARIANT TranscriptSerial
INVARIANT RunningTurnShown
INVARIANT LeaseHeld
INVARIANT LeaseOutlivesUnwinding
