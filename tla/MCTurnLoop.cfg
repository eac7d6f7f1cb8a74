CONSTANTS
  None = None
  Kinds = {"listed", "shell", "patch"}
  MaxModelTurns = 2
  TransientRetries = 1
  IdleAttempts = 2
  Thinking = TRUE
  MaxCalls = 2
  MaxWindows = 2
  MaxSteers = 1
SPECIFICATION FairSpec
INVARIANTS
  ConversationIsWellFormed
  ApprovedBeforeStart
  ShellChangesAreCovered
PROPERTY
  ImplementsProtocol TurnEnds
