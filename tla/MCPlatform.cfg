SPECIFICATION SuiteSpec
CONSTANTS
  Humans = {"h1", "h2"}
  Roles = {"moderator", "admin"}
  Permitted <- DefaultPermissions
  MaxInterventions = 1
  MaxParticipants = 2
  Cooldown = TRUE
  MaxSessions = 2
  MaxConcurrent = 2
  MaxTimers = 2
  Streams = {s1, s2, s3}
  s1 = s1
  s2 = s2
  s3 = s3
  ClientIds <- Ids
  MaxClients = 2
  MaxEventId = 5
  Conversation = "c"
  MaxJoined = 1
  Routings = {"r1", "r2"}
  Agents <- AgentOrder
  RuleOf <- Rules
  TargetOf <- Asked
  NoAgent = "nobody"
  Capable = {"a2"}
  RetryAttempts = 2
  MaxResponses = 1
INVARIANTS
  InterventionInv
  ServerInv
  RouterInv
PROPERTIES
  AnswersAreTrue
  EveryRoutingReturns
