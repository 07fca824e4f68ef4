\* A client with sslmode=prefer meets a server without TLS.
SPECIFICATION Spec
CONSTANTS
  MaxCommands = 2
  MaxPushes = 0
  DefColumns = 3
INVARIANT
  PreferredTLSIsFollowed
CHECK_DEADLOCK FALSE
