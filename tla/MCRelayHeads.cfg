SPECIFICATION FairSpec
CONSTANTS
  Requests = {q1}
  MaxChunks = 1
  MaxConcurrent = 1
  MaxIds = 2
  MaxInFlight = 1
  RequestHeads = {"plain", "long"}
  ResponseHeads = {"plain", "invalid"}
  MaxSessions = 2
  None = None
INVARIANT ConnectorKeepsRunning
CHECK_DEADLOCK FALSE
