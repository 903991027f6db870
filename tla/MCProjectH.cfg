CONSTANTS
  BANK_COUNT = 2
  INTERLEAVE_BYTES = 4
  SERVICE_LATENCY_CYCLES = 3
  QUEUE_DEPTH = 2
  Addresses = {0, 4, 11, 15}
  LastCycle = 11
SPECIFICATION HSpec
INVARIANTS
  TypeOK
  RingConsistent
  ServedInOrder
  LatencyBounded
  RowsAgree
PROPERTIES
  ImplementsBankedMemory
