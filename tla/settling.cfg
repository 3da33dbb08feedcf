SPECIFICATION FairSpec
CONSTANTS
  Docs = {d1}
  NumPages = 3
  Contents <- SettlingFiles
  ReadyConsumers = {ready1}
  OcrConsumers = {ocr1}
  Requests = {r1}
  MaxReceive = 2
  MaxBatch = 1
  MaxOcrPages = 2
  MaxOcrCost = 11
  Settings <- Live
  Faults <- WorkerFaults
  Overrides = {}
  MaxReprocess = 0
  MaxTextract = 2
  NULL = NULL
PROPERTIES
  EveryMessageSettles
  ReadingEnds
CHECK_DEADLOCK FALSE
