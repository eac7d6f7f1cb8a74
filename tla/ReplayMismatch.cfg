CONSTANTS
  a = a
  NoFile = NoFile
  Torn = Torn
  None = None
  Runs = {a}
  Terminals = {"run.completed"}
  MaxEvents = 4
  MaxCrashes = 1
SPECIFICATION Spec
INVARIANT ReplayMatchesLive
