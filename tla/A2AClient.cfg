SPECIFICATION LeftAloneSpec
CONSTANTS
  Sockets = {s1, s2}
  MaxOrphans = 4
  NoSocket = NoSocket
  MaxReconnectAttempts = 2
INVARIANTS
  ClientInv
PROPERTIES
  Reconnects
