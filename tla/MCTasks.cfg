SPECIFICATION SuiteSpec
CONSTANTS
  Tasks = {t1, t2, t3, t4}
  NoTask = NoTask
  ClaimableTasks = {c1, c2, c3}
  Claimants = {a1, a2}
  NoAgent = NoAgent
  ClaimTimeout = 1
  MaxClaimsPerAgent = 2
  EnableAutoExpiration = TRUE
  MaxClock = 2
  TaskIds = {m1, m2}
  Contexts = {x1, x2}
  Listeners = {l1, l2}
  MaxObjects = 2
  MaxNesting = 2
  GeneratedIds = {g1, g2}
  AgentIds = {i1}
  StreamClients = {s1}
  NoTaskSeen = NoTaskSeen
INVARIANTS
  HierarchyInv
  ClaimsInv
  ManagerInv
  
PROPERTIES
  ClaimsExclusive
