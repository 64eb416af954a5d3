SPECIFICATION Spec
CONSTANTS
  Agents = {a1, a2}
  Sockets = {s1, s2}
  NoAgent = NoAgent
  NoSocket = NoSocket
  MaxQueueSize = 2
  MaxMsgs = 3

PROPERTIES QueuedOnlyWhenOffline
