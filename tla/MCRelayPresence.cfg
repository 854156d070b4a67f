SPECIFICATION Spec
CONSTANTS
  Installations = {i1}
  Sessions = {s1, s2}
  Proxies = {p1}
  None = None
INVARIANT RoutedIsPresent
CHECK_DEADLOCK FALSE
