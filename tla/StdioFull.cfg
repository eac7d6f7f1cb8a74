CONSTANTS
  None = None
  Methods = {"sendTurn"}
  LoopBound = 1
  LiveBound = 1
  BatchMax = 2
  MaxLines = 1
  MaxErrors = 0
  MaxTurns = 1
  MaxEvents = 6
SPECIFICATION FairSpec
PROPERTIES
  EofSettlesRun
CHECK_DEADLOCK FALSE
