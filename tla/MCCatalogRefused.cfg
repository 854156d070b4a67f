SPECIFICATION ClientsSpec
CONSTANTS
  Namespaces = {w1}
  Servers = {s1}
  FirstServer = s1
  FirstNamespace = w1
  Tabs = {h1}
  NoServer = NoServer
  MaxCrashes = 0
  MaxVersion = 1
  MaxClock = 3
  MaxFaults = 1
  Processes = {p1}
  Aliases = {a1}
  Hosts = {x1}
  NoHost = NoHost
  MaxCommands = 1
  Adders = {r1}
  MaxAdds = 1
PROPERTY EventuallyConsistent
CHECK_DEADLOCK FALSE
