CONSTANTS
  Requests = {"first", "second"}
  MaxServers = 2
  MaxOutput = 1
SPECIFICATION FairSpec
INVARIANTS
  AnswersAreOwn
  NoServerIsForgotten
PROPERTY
  RequestsSettle
