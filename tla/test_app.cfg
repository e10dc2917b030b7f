SPECIFICATION FairSpec
CONSTANTS
  Nodes <- MCNodes
  Links <- MCLinks
  Clients <- MCClients
  PingTimeout = 2
  TrafficPeriod = 1
  IdLimit = 2
  FirstId <- MCFirstId
  MaxIds = 2
  MaxCommands = 2
  MaxTime = 5
INVARIANTS TypeOK ResponsesFindRequests RunningHasTimer
PROPERTIES ImplementsPingService PingsResolve
\* The simulation ends.
CHECK_DEADLOCK FALSE
