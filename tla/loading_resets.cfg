CONSTANTS
  c1 = c1
  NoChat = NoChat
  NoCursor = NoCursor
  Chats <- OneChat
  Limits <- OneOrTwo
  MaxClock = 2
  LateArrivals = TRUE
  MaxFailures = 0
  MaxResets = 1
  MaxPrefetches = 1
  MaxEdits = 0
SPECIFICATION FairSpec
INVARIANTS
  TypeOK
  PendingIsAnswered
PROPERTIES
  PendingEnds
  OpenedChatStopsLoading
  HistoryIsShown
