CONSTANTS
  Scripts = {"memory_sweep"}
  MaxInvocations = 1
SPECIFICATION Spec
INVARIANT CountsEachOnce
