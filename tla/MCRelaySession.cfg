SPECIFICATION FairSpec
CONSTANTS
  Requests = {q1, q2, q3}
  MaxChunks = 1
  MaxConcurrent = 1
  MaxIds = 2
  MaxInFlight = 1
  RequestHeads = {"plain", "long", "invalid"}
  ResponseHeads = {"plain", "invalid"}
  MaxSessions = 2
  None = None
INVARIANTS EndsAgree BodiesIntact
PROPERTY EveryRequestAnswered
CHECK_DEADLOCK FALSE
