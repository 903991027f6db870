SPECIFICATION FairSpec
INVARIANTS
  NeverAborts
  PayloadShared
  PolicyEffect
PROPERTIES
  RunStops
