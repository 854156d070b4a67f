SPECIFICATION FairSpec
CONSTANTS
  h1 = h1  h2 = h2  h3 = h3
  r1 = r1  r2 = r2
  a = a  b = b  c = c  bad = bad
  Handlers = {h1, h2}
  RunIds = {r1}
  Requests = {a, b, bad}
  Valid = {a, b}
  RunOf <- OneRunOf
  Nobody = Nobody
  Empty = Empty
  Torn = Torn
PROPERTY TerminalRecordIsFinal
CHECK_DEADLOCK FALSE
