SPECIFICATION Spec
CONSTANTS
  Links <- Line3
  Nodes = {1, 2, 3}
  Window = 2
  MaxRounds = 4
  MaxOps = 1
  Orderly = FALSE
  InitSeqs = {0}
  SeqLimit = 5
  Commands = {}
  MaxCmds = 0
INVARIANTS TypeOK EntriesAuthentic OwnEntryPresent RoutesUseNeighbors NeighborsSettled InformedRoutes
PROPERTIES EntriesNeverRegress ImplementsDatabase
\* The simulation ends when the scenario does.
CHECK_DEADLOCK FALSE
