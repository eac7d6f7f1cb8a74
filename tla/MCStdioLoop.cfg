CONSTANTS
  None = None
  Methods = {"sendTurn", "resume", "deleteRun", "cancel"}
  LoopBound = 1
  LiveBound = 1
  BatchMax = 2
  MaxLines = 4
  MaxErrors = 1
  MaxTurns = 2
  MaxEvents = 3
SPECIFICATION Spec
INVARIANTS
  TypeOK
  NothingLostOrReordered
  ReplyBeforeEvents
  NoOrphanRun
  ReplayKeepsTheStream
  LogOutlivesWorker
CHECK_DEADLOCK FALSE
