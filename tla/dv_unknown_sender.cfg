SPECIFICATION Spec
CONSTANTS
  Links <- Pair
  Nodes = {1, 2}
  Window = 4
  MaxRounds = 6
  MaxOps = 2
  Orderly = FALSE
  Limit = 16
INVARIANT NeighborsHaveCosts
\* The simulation ends when the scenario does.
CHECK_DEADLOCK FALSE
