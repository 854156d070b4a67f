SPECIFICATION Spec
CONSTANTS
  h1 = h1  h2 = h2  h3 = h3
  r1 = r1  r2 = r2
  a = a  b = b  c = c  bad = bad
  Handlers = {h1, h2, h3}
  RunIds = {r1, r2}
  Requests = {a, b, c}
  Valid = {a, b, c}
  RunOf <- MCRunOf
  Nobody = Nobody
  Empty = Empty
  Torn = Torn
SYMMETRY Symmetry
INVARIANTS ActiveExclusive ReplayNeverReexecutes RecordProvenance
           LoneExecutionDurable CancelledOnlyIfAsked
CHECK_DEADLOCK FALSE
