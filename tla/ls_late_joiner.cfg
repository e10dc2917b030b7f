SPECIFICATION Spec
CONSTANTS
  Links <- Line4
  Nodes = {1, 2, 3, 4}
  Window = 1
  MaxRounds = 6
  MaxOps = 2
  Orderly = TRUE
  InitSeqs = {0}
  SeqLimit = 100
  Commands = {}
  MaxCmds = 0
INVARIANT RoutesAreShortestPaths

\* The simulation ends when the scenario does.
CHECK_DEADLOCK FALSE
