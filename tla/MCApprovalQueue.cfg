CONSTANTS
  r1 = r1
  r2 = r2
  tool = tool
  budget = budget
  toolKey = toolKey
  hunk = hunk
  other = other
  Torn = Torn
  None = None
  Runs = {r1, r2}
  Requests = {tool, budget}
  Budget = {budget}
  Persistable = {tool}
  Ids = {"approval_1_1", "approval_budget_1"}
  Keys = {toolKey}
  Hunks = {hunk, other}
  MaxTurns = 2
  IdOf <- MCIdOf
  KeyOf <- MCKeyOf
  HunksOf <- MCHunksOf
  HunkLists <- MCHunkLists
SPECIFICATION FairSpec
INVARIANTS
  AcceptedAnswerIsDelivered
  ApprovalIsAuthorised
  GrantsAreOnDisk
PROPERTIES
  ImplementsLifecycle
  WaitEnds
  CancelEndsRun
