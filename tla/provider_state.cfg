CONSTANTS
  a1 = a1
  a2 = a2
  Mainnet = Mainnet
  chain2 = chain2
  Unset = Unset
  Untold = Untold
  Account <- TwoAccounts
  Chain <- TwoChains
  MaxReports = 4
SPECIFICATION Spec
INVARIANTS
  TypeOK
  EventsTellState
  CopyIsOneState
PROPERTIES
  ConnectNotRepeated
CHECK_DEADLOCK FALSE
