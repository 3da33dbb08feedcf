\* One document of one table whose completion is delivered twice; the worker may
\* die after it remembered the answer.
SPECIFICATION TakeoffSpec
CONSTANTS
  NULL = NULL
  Groups = {"HW1"}
  Hands = {"LH"}
  Documents = {d1}
  Tables = {t1}
  DocumentOf <- OneDocument
  Items <- TwoItems
  Answers <- HonestAnswers
  MaxDeliveries = 2
  MaxRows = 2
  MaxTables = 1
  Estimators = {ana}
  MaxReviews = 0
  Entered <- Typing
  Notes = {}
  Verdicts = {}
  Faults = {"worker"}
INVARIANTS
  CitationsSurviveAReRun
CHECK_DEADLOCK FALSE
