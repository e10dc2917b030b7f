SPECIFICATION DataSpec
CONSTANTS
  Links <- Triangle
  Nodes = {1, 2, 3}
  Window = 1
  MaxRounds = 12
  MaxOps = 3
  Orderly = TRUE
  InitSeqs = {0}
  SeqLimit = 100
  Commands = {}
  MaxCmds = 0
  MainLink <- FirstLinks
  TTL = 4
INVARIANTS AuditsSurvive RoutesAreShortestPaths PacketsDelivered
\* The simulation ends when the scenario does.
CHECK_DEADLOCK FALSE
