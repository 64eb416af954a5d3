SPECIFICATION SuiteSpec
CONSTANTS
  MaxAnswers = 2
  Punchers = {"p", "q"}
  MaxRetries = 2
  Remotes = {"p", "q"}
  Connects = {"c1", "c2"}
  EndpointCount <- Endpoints
  HasRelay = TRUE
  MaxPaths = 1
  EntryTTL = 0
  MaxPathSockets = 8
  MaxPathClock = 1
  DefaultNodes = {"d", "e"}
  CustomNodes = {"c"}
  KnownPeers = {"p", "q"}
  MaxQueried = 2
  MinNodes = 2
  StaleAfter = 1
  MaxAnnounces = 1
  MaxBootClock = 1
  Services = {"a", "b"}
  DiscoveryTTL = 1
  MaxStarts = 2
  MaxLocalClock = 3
  MaxDatagrams = 1
\* Every call returns, and then nothing is left to do.
CHECK_DEADLOCK FALSE
INVARIANTS
  
  
  BootInv
  

  
