SPECIFICATION ClientsSpec
CONSTANTS
  Namespaces = {w1, w2}
  Servers = {s1, s2}
  FirstServer = s1
  FirstNamespace = w1
  Tabs = {h1}
  NoServer = NoServer
  MaxCrashes = 1
  MaxVersion = 2
  MaxClock = 8
  MaxFaults = 1
  Processes = {p1, p2}
  Aliases = {a1, a2}
  Hosts = {x1, x2}
  NoHost = NoHost
  MaxCommands = 4
  Adders = {r1, r2}
  MaxAdds = 3
INVARIANTS BootstrapHonoured NothingLost TokensKept OnlyC6IsAsked
PROPERTIES PublishedUnderAuthority PublicationsInOrder EventuallyPublished
CHECK_DEADLOCK FALSE
