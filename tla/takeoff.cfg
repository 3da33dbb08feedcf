\* One document, delivered twice, and one estimator; the worker and the API may
\* die and the model may fail.
SPECIFICATION TakeoffSpec
CONSTANTS
  NULL = NULL
  Groups = {"HW1"}
  Hands = {"LH"}
  Documents = {d1}
  Tables = {t1, t2}
  DocumentOf <- OneDocument
  Items <- TwoItems
  Answers <- SomeAnswers
  MaxDeliveries = 2
  MaxRows = 2
  MaxTables = 1
  Estimators = {ana}
  MaxReviews = 2
  Entered <- Typing
  Notes = {{"note"}}
  Verdicts = {"REJECTED"}
  Faults <- AllFaults
INVARIANTS
  TakeoffTypeOK
  CitationsResolve
  OnlyAcceptedValuesAreUsed
  DoubtIsShown
  NoUnderRatedMatch
  EditsAreOnRecord
PROPERTIES
  PaidAnswersAreReused
  CompletedRunsReadEverything
  ReadingsAreKept
SYMMETRY AlikeTables
CHECK_DEADLOCK FALSE
