SPECIFICATION FairSpec
CONSTANTS
  Msgs = {m1, m2}
  Agents = {a1}
  To <- ToOne
  Rounds = {r1, r2}
  NoMsg = NoMsg
  MaxAttempts = 2
  MaxQueueSize = 2
  BatchLimit = 1
  EnableQueue = TRUE
  HistoryPeriods = 1
  MaxClock = 0
  MaxPendingRounds = 0
  MaxCrashes = 0
PROPERTIES RetriedToTheEnd
