SPECIFICATION Spec
CONSTANTS
  Docs = {d1}
  NumPages = 3
  Contents <- NativeFiles
  ReadyConsumers = {ready1}
  OcrConsumers = {ocr1}
  Requests = {r1}
  MaxReceive = 2
  MaxBatch = 1
  MaxOcrPages = 2
  MaxOcrCost = 11
  Settings <- Live
  Faults <- NoFaults
  Overrides = {}
  MaxReprocess = 0
  MaxTextract = 2
  NULL = NULL
INVARIANTS
  ReadingMeansWork
CHECK_DEADLOCK FALSE
