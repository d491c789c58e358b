SPECIFICATION PSpec
CONSTANTS
  Requests = {q1}
  Decisions = {"once", "reject"}
  Callers = {a1, a2, u1}
  AutoCallers = {a1, a2}
  Deleters = {d1}
  Tries = 2
  MaxAsks = 1
  LateAsks = FALSE
  Faults = {"reply", "publish"}
  Once = "once"
  Rejections = {"reject"}
  Saved <- SavedSwitches
  MaxToggles = 2
  MaxLoads = 1
SYMMETRY Symmetric
CONSTRAINT DeletedApart
CHECK_DEADLOCK FALSE
INVARIANT PTypeOK
INVARIANT AnswersTruthful
INVARIANT IndexesAgree
INVARIANT ErasureRepeatable
INVARIANT AnsweredOnce
INVARIANT HiddenAnswered
PROPERTY Consented
