CONSTANTS
  d1 = d1
  d2 = d2
  Document <- TwoDocuments
  MaxId = 2
  MaxRequests = 3
  MaxDisconnects = 1
SPECIFICATION FairSpec
INVARIANTS
  TypeOK
  EntryPerPendingPromise
  NoAnswerLost
  AnswersNotSwapped
PROPERTIES
  ImplementsProviderRequests
CHECK_DEADLOCK FALSE
