SPECIFICATION ProcessesSpec
CONSTANTS
  r1 = r1  a = a  bad = bad  e1 = e1  e2 = e2  e3 = e3  e4 = e4  e5 = e5  h1 = h1  h2 = h2
  Handlers = {h1, h2, h3}
  RunIds = {r1}
  Requests = {a, bad}
  Valid = {a}
  RunOf <- OneRun
  Nobody = Nobody
  Empty = Empty
  Torn = Torn
  Envelopes = {e1, e2, e3, e4, e5}
  Decodable = {e1, e2, e3, e4}
  Forged = Forged
  Issued <- IssuedAt
  Command <- Commands
  Window = 1
  MaxTime = 3
  MaxReplay = 1
  Starters = {k1, k2, k3}
  NoKey = NoKey
  Chunk = 2
  Pipe = 2
  Header = 1
  MaxRequestBytes = 3
  MaxResponseBytes = 3
  MaxHeaderBytes = 3
  MaxStderrBytes = 1
  RequestSizes = {0, 3, 4}
  Bodies = {0, 3, 7}
  Complaints = {0, 3}
CHECK_DEADLOCK FALSE
INVARIANTS AcceptedOnce OneKey ReturnsCleanly
PROPERTIES EveryConnectionAnswered EveryRequestReturns
