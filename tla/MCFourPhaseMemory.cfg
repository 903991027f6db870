CONSTANTS
  Ns = 2
  MaxTransactions = 4
  MaxDepth = 2
  MaxLatency = 7
  MaxGap = 7
  Options <- MCOptions
SPECIFICATION FairSpec
INVARIANTS
  TypeOK
  NeverAborts
  OneUpstream
  SlotsAccounted
  NoIdleSlot
  TraceTiming
PROPERTIES
  ImplementsLink
  RunStops
