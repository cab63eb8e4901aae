CONSTANTS
  asked = asked
  Loaded = Loaded
  Discovery <- OneDiscovery
  InitRetries = 3
  InstallRetries = 2
  AnnounceRetries = 2
SPECIFICATION FairSpec
INVARIANTS
  TypeOK
  WrapperHears
  InitIsAnswered
  OneWrapper
PROPERTIES
  ProviderComes
  AskedIsAnnounced
CHECK_DEADLOCK FALSE
