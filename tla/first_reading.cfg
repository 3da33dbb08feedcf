SPECIFICATION Spec
CONSTANTS
  Docs = {d1}
  NumPages = 3
  Contents <- AllFiles
  ReadyConsumers = {ready1}
  OcrConsumers = {ocr1}
  Requests = {r1}
  MaxReceive = 2
  MaxBatch = 1
  MaxOcrPages = 2
  MaxOcrCost = 11
  Settings <- AnyDeployment
  Faults <- AllFaults
  Overrides = {}
  MaxReprocess = 0
  MaxTextract = 2
  NULL = NULL
INVARIANTS
  TypeOK
  AcknowledgedWorkIsRecorded
  NothingIsSpentOnRefused
  PagesCiteWhereTheyWereRead
  ProcessedMeansRead
PROPERTIES
  SettledStaysSettled
CHECK_DEADLOCK FALSE
