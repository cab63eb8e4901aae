CONSTANTS
  Personal = Personal
  community = community
  OtherSection = OtherSection
  NoChat = NoChat
  p1 = p1
  p2 = p2
  k1 = k1
  k2 = k2
  Communities <- OneCommunity
  Chats <- FourChats
  SectionOf <- TwoEach
  Categorised <- OneCommunity
  MaxChatsInMemory = 2
SPECIFICATION Spec
PROPERTIES
  ActiveItemExists
