CONSTANTS
  Ns = 1
  N = 4
  Depths = {1, 2}
  Latencies = {2}
  Gaps = {0, 3}
  WeightGaps = {0, 2}
  Bursts = {1, 2}
  Weights = {1, 2}
  PolicyOptions <- MCPolicyOptions
  WeightOptions <- MCWeightOptions
SPECIFICATION FairSpec
INVARIANTS
  TransactionsTracked
  NoLostWakeup
  OvertakingBounded
PROPERTIES
  ImplementsLink
  RunStops
