CONSTANTS
  one = one
  two = two
  Missing = Missing
  None = None
  Paths <- MCPaths
  Contents <- MCContents
  Workspaces <- MCWorkspaces
  Committed <- MCCommitted
  Ignored <- MCIgnored
  SecretNames <- MCSecretNames
  ScanRoot <- MCScanRoot
  MaxEntries = 1
  MaxInputTokens = 14
  StableRatio = 50
  Scale = 100
  Slope = 2
  SlopeScale = 3
  Intercept = 1
  CapsuleHeader = 2
  SectionHeader = 2
  Turns <- MCTurns
  MaxAttachments = 2
  MaxAttachmentBytes = 2
  RuleSizes <- MCRuleSizes
  ManifestHeader = 1
  AttachmentHeader = 1
  LinesOf <- MCLinesOf
  EnvNames <- MCEnvNames
  NoValue = NoValue
  Malformed = Malformed
  Answers <- MCAnswers
  LineEnds <- MCLineEnds
  MaxSends = 3
SPECIFICATION Spec
INVARIANTS PrefixIsStable OmissionIsJustified CapsuleIsWellFormed
           FramingIsInvisible CompletedIsTheAnswer FailuresHaveCauses
PROPERTY RequestEnds
