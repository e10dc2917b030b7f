SPECIFICATION Spec
CONSTANTS
  Nodes = {1, 2, 3, 4, 5, 6}
  Links <- Fork
  Self = 6
  SeqLimit = 1
INVARIANTS ShortestWhenComplete SoundWhenPartial
CHECK_DEADLOCK FALSE
