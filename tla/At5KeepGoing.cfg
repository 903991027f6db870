CONSTANTS
  CaseFaults = {"exit"}
  FaultyCases = {1, 2}
SPECIFICATION Spec
INVARIANT KeepGoingWritesReport
