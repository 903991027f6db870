CONSTANTS
  N = 9
  IngressCapacities = {2, 8}
  DownstreamCapacities = {2, 5}
  Latencies = {20, 80}
  RateLatencies = {1, 62}
  Options <- MCOptions
  CaseFaults = {"not_a_directory", "exit", "truncated"}
  FaultyCases = {1, 2, 5}
  Cuts = {0, 1, 2, 3, 4, 5, 6, 7, 8, 9, 10, 11, 12, 13, 14, 15}
SPECIFICATION DemosSpec
INVARIANTS
  OutcomeMatchesRun
  ResultsSound
  QueuesRespected
