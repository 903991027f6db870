CONSTANTS
  N = 9
  IngressCapacities = {2}
  DownstreamCapacities = {2}
  Latencies = {5}
  RateLatencies = {10}
  Options <- MCOptions
  CaseFaults = {}
  FaultyCases = {}
  Cuts = {}
SPECIFICATION ProgramSpec
INVARIANT DownstreamBounded
