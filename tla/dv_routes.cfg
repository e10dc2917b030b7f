SPECIFICATION FairDataSpec
CONSTANTS
  Links <- Square
  Nodes = {1, 2, 3, 4}
  Window = 1
  MaxRounds = 9
  MaxOps = 2
  Orderly = TRUE
  Limit = 16
  MainLink <- FirstLinks
  TTL = 5
INVARIANTS RoutesAreShortestPaths PacketsDelivered
PROPERTY RoutingConverges
\* The simulation ends when the scenario does.
CHECK_DEADLOCK FALSE
