SPECIFICATION FairSpec
CONSTANTS
  Installations = {i1}
  Sessions = {s1}
  Proxies = {p1}
  None = None
PROPERTY NoExchangeAfterRevocation
CHECK_DEADLOCK FALSE
