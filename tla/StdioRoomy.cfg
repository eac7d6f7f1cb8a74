CONSTANTS
  None = None
  Methods = {"initialize", "sendTurn", "approve", "cancel", "steer", "read", "previewFim", "garbled", "notification"}
  LoopBound = 8
  LiveBound = 4
  BatchMax = 2
  MaxLines = 2
  MaxErrors = 1
  MaxTurns = 2
  MaxEvents = 2
SPECIFICATION FairSpec
PROPERTIES
  EofEndsLoop
  RequestsAreHandled
