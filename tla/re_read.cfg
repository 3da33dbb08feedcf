SPECIFICATION Spec
CONSTANTS
  Docs = {d1}
  NumPages = 3
  Contents <- MixedFiles
  ReadyConsumers = {ready1}
  OcrConsumers = {ocr1}
  Requests = {r1}
  MaxReceive = 2
  MaxBatch = 1
  MaxOcrPages = 2
  MaxOcrCost = 11
  Settings <- LiveUnpinned
  Faults <- SubmitFaults
  Overrides <- SkipTables
  MaxReprocess = 1
  MaxTextract = 3
  NULL = NULL
PROPERTIES
  BuysOncePerFeatureSet
CHECK_DEADLOCK FALSE
