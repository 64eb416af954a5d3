SPECIFICATION HookSpec
CONSTANTS
  Streams = {1, 2}
  Timers = {1, 2}
  MaxReconnectAttempts = 2
  \* Nobody calls the hook: it connects by itself
  UserCalls = {}
\* An unmounted hook does nothing any more.
CHECK_DEADLOCK FALSE
PROPERTIES ConnectsOnMount
