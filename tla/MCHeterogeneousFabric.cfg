CONSTANT
  Cases <- all_cases
SPECIFICATION FairSpec
PROPERTIES
  ServiceDiscipline
  PolicyRespected
  RunCompletes
