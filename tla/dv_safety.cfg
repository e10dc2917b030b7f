SPECIFICATION Spec
CONSTANTS
  Links <- Line3
  Nodes = {1, 2, 3}
  Window = 2
  MaxRounds = 5
  MaxOps = 3
  Orderly = FALSE
  Limit = 16
INVARIANTS TypeOK CostsHaveNeighbors RoutesAreAdvertised NeighborsSettled SynchronizedRoutes
\* The simulation ends when the scenario does.
CHECK_DEADLOCK FALSE
