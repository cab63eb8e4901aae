CONSTANTS
  c1 = c1
  NoChat = NoChat
  NoCursor = NoCursor
  Chats <- OneChat
  Limits <- OneOrTwo
  MaxClock = 3
  LateArrivals = TRUE
  MaxFailures = 0
  MaxResets = 0
  MaxPrefetches = 0
  MaxEdits = 0
SPECIFICATION Spec
INVARIANTS
  ExhaustedMeansAllShown
