SPECIFICATION Spec
CONSTANTS
  Msgs = {m1, m2}
  Agents = {a1}
  To <- ToOne
  Rounds = {r1, r2}
  NoMsg = NoMsg
  MaxAttempts = 1
  MaxQueueSize = 1
  BatchLimit = 1
  EnableQueue = TRUE
  HistoryPeriods = 0
  MaxClock = 1
  MaxPendingRounds = 1
  MaxCrashes = 1
SYMMETRY Symmetry
INVARIANTS
  StoreInv
