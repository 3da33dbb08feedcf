SPECIFICATION Spec
CONSTANTS
  Docs = {d1}
  NumPages = 3
  Contents <- MixedFiles
  ReadyConsumers = {ready1, ready2}
  OcrConsumers = {ocr1}
  Requests = {r1}
  MaxReceive = 2
  MaxBatch = 2
  MaxOcrPages = 2
  MaxOcrCost = 11
  Settings <- LiveUnpinned
  Faults <- SubmitFaults
  Overrides <- SkipTables
  MaxReprocess = 0
  MaxTextract = 3
  NULL = NULL
PROPERTIES
  BuysOncePerFeatureSet
  RecordedJobStays
CHECK_DEADLOCK FALSE
