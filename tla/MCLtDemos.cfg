CONSTANTS
  RunFaults = {"exit", "unreadable", "summary_cut", "trace_cut"}
  Scripts = {"memory_sweep", "workload_sweep", "demo_memory", "demo_performance"}
  MaxInvocations = 2
  TxnIds = {"1", "9", "10", "010"}
  Names = {"sample_sequential", "renamed"}
  Defects = {"bad_field", "other_name", "short", "high_address"}
  MaxRows = 4
SPECIFICATION DemosSpec
INVARIANTS
  OutputsMatchRun
  ConclusionsHold
