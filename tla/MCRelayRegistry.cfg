SPECIFICATION SizedSpec
CONSTANTS
  i1 = i1  i2 = i2
  s1 = s1  s2 = s2  s3 = s3
  p1 = p1  p2 = p2
  Installations = {i1, i2}
  Sessions = {s1, s2, s3}
  Proxies = {p1, p2}
  None = None
INVARIANTS RevokedNeverRouted NoGhostPresence
PROPERTIES CleanupSparesReplacement UnroutedSessionEnds EveryProxyAnswered
CHECK_DEADLOCK FALSE
