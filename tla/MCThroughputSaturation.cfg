CONSTANT
  Cases <- default_cases
SPECIFICATION FairSpec
INVARIANTS
  NeverThrows
  Accounted
  BlockedOnTime
  LittlesLaw
PROPERTY
  RunCompletes
