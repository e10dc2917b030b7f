SPECIFICATION FairSpec
CONSTANTS
  Links <- Pair
  Nodes = {1, 2}
  Window = 4
  MaxRounds = 5
  MaxOps = 2
  Orderly = FALSE
  InitSeqs = {0, 20}
  SeqLimit = 100
  Commands = {"HELLO", "LSTABLEMSG", "PING"}
  MaxCmds = 1
PROPERTIES FloodingStops NeighborsDetected

\* The simulation ends when the scenario does.
CHECK_DEADLOCK FALSE
