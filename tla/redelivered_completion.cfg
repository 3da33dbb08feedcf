SPECIFICATION Spec
CONSTANTS
  Docs = {d1}
  NumPages = 3
  Contents <- TablesFiles
  ReadyConsumers = {ready1}
  OcrConsumers = {ocr1}
  Requests = {r1}
  MaxReceive = 2
  MaxBatch = 1
  MaxOcrPages = 2
  MaxOcrCost = 11
  Settings <- Live
  Faults <- CrashFaults
  Overrides = {}
  MaxReprocess = 0
  MaxTextract = 2
  NULL = NULL
INVARIANTS
  NormalisingAgainSucceeds
CHECK_DEADLOCK FALSE
