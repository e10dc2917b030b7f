SPECIFICATION Spec
CONSTANTS
  Nodes <- MCNodes
  Links <- MCLinks
  Clients <- MCClients
  PingTimeout = 2
  TrafficPeriod = 1
  IdLimit = 2
  FirstId <- MCFirstId
  MaxIds = 2
  MaxCommands = 3
  MaxTime = 1
INVARIANT TrafficGoesOn
CHECK_DEADLOCK FALSE
