SPECIFICATION SuiteSpec
CONSTANTS
  Connections = {c1, c2}
  Sockets = {s1, s2}
  NoSocket = NoSocket
  NoConnection = NoConnection
  Urls = {u1, u2}
  MaxConnections = 1
  MaxAttempts = 1
  MaxTimers = 2
  MaxMsgs = 2
  PriorityOf <- Priorities
  MaxSize = 3
  BatchSize = 2
  ShardOf <- TwoInAShard
  MaxMessages = 4
  ChunkSize = 2
  MaxAdded = 5
  Latencies = {1, 2}
  WindowSize = 3
  RateWindow = 1
  Watched = {"w"}
  MaxSnapshots = 1
  Thresholds <- Alerts
  MaxTime = 2
  Callers = {1, 2}
  GracePeriod = 2
  MinRotationInterval = 2
  KeptAfterExpiry = 1
  MaxKeys = 4
  MaxKeyTime = 7
  LimitedKeys = {"k"}
  Rate = 2
  Burst = 3
  Window = 1
  MaxLimitTime = 3
  Agents = {"a"}
  EventTypes = {"message_valid", "malicious_behavior"}
  InitialScore = 500
  MaxScore = 501
  DecayPerHour = 5
  MaxEvents = 2
  MaxRecorded = 3
  MaxHours = 2
  Requests = {"r"}
  Owners = {"u", "v"}
  ExpiryPeriod = 1
  MaxConfirmTime = 4
  Writers = {"w1", "w2", "w3"}
  MaxEntries = 2
  RetentionPeriod = 1
  MaxLogged = 3
  MaxAuditTime = 2
  Starters = {"s1", "s2"}
  Stoppers = {"t1", "t2"}
  Optional = {"relay"}
  Contexts = {"c"}
  NoContext = "none"
  MaxReceived = 2
  HistoryContexts = {"c"}
  Timestamps = {1, 2, 3}
  PageLimit = 1
  MaxRows = 3
  Streams = {1, 2}
  Timers = {1, 2}
  MaxReconnectAttempts = 2
  UserCalls = {"connect", "disconnect", "reconnect"}
SYMMETRY Symmetry
\* The node and the hook may stop for good.
CHECK_DEADLOCK FALSE
INVARIANTS
  
  
  
  MetricsInv
  KeyInv
  LimitsInv
  
  
  HistoryInv
  HookInv
PROPERTIES
  UrgentFirst
