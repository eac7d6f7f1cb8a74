CONSTANTS
  a = a
  b = b
  dash = dash
  f = f
  g = g
  new = new
  Blank = Blank
  Absent = Absent
  Error = Error
  root = root
  child = child
  deaf = deaf
  free = free
  Path <- MCPath
  NewDirs <- MCNewDirs
  Contents <- MCContents
  Offers <- MCOffers
  Dashed <- MCDashed
  Root = root
  Children <- MCChildren
  Deaf <- MCDeaf
  Detached <- MCDetached
  Capacity = 1
  MaxOutput = 2
  trailing = trailing
  outside = outside
  Spellings <- MCSpellings
  PathOf <- MCPathOf
  PolicyNames <- MCPolicyNames
  Lists <- MCLists
  MaxAutoFiles = 1
  Options <- MCOptions
  Toolchains <- MCToolchains
  Assignments <- MCAssignments
  ValueOf <- MCValueOf
  Outside <- MCOutside
  Examples <- MCExamples
  Reading <- MCReading
  Followers <- MCFollowers
  Carriers <- MCCarriers
  HidingCarriers <- MCHidingCarriers
  MaxNesting = 3
  x = x
  y = y
  z = z
  vendored = vendored
  Walk <- MCWalk
  Skipped <- MCSkipped
  Versions <- MCVersions
  Trees <- MCTrees
  HashMax = 1
  MaxScanned = 2
  Bare <- MCBare
  Stem <- MCStem
  Verifies <- MCVerifies
  MaxWrites = 2
  MaxCommands = 2
  Missing = Missing
  Failed = Failed
SPECIFICATION Spec
INVARIANTS RejectionIsClean QuestionCoversChanges ReverseRestores OutputIsComplete
           NothingIsMissed RiskyCommandsAsk
           ReportIsAccurate
PROPERTY CommandEnds
