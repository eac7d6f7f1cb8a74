CONSTANTS
  a = a
  NoFile = NoFile
  Torn = Torn
  None = None
  Runs = {a}
  Terminals = {"run.completed"}
  MaxEvents = 4
  MaxCrashes = 2
SPECIFICATION Spec
INVARIANTS
  DeliveredIsDurable
  SummaryIsHistory
  ListIsFresh
