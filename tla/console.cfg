SPECIFICATION FairSpec
CONSTANTS
  Tokens <- MCTokens
  Value <- MCValue
  Garbage <- MCGarbage
  Lines <- MCLines
  TypedLines <- MCTypedLines
  TotalNodes = 2
  Installed = {"APP", "LS"}
  MAX_SCAN_DELAY = 4
  MaxScript = 2
  MaxLines = 2
INVARIANTS TypeOK MutualExclusion CommandsIntact ScriptScheduled ScheduledAreLines
PROPERTY AcceptedIsExecuted
\* The simulation ends with QUIT, and a user may stop typing.
CHECK_DEADLOCK FALSE
