SPECIFICATION Spec
CONSTANTS
  NULL = NULL
  Freshness = 180
  Thresholds <- EveryFloor
  Sheets <- TwoLibraries
  Days <- SomeDays
  Lines <- SomeLines
  Margins <- SomeMargins
  Quotes <- SomeQuotes
  Criteria <- SomeCriteria
  Catalogues <- SomeCatalogues
  TopN = 2
  Cutoff = 6000
  Tolerance = 2
  Readings <- SomeReadings
  FinishTables <- SomeFinishTables
  WallTables <- SomeWallTables
  Pages <- SomePages
  Tables <- SomeTables
  ReviewedFields <- SomeFields
  Targets <- SomeTargets
INVARIANTS
  MarginIsEarned
  FloorFlagIsExact
  TotalsAddUp
  TaxedOnlyWhereDue
  RecalculationKeepsWhatWasEntered
  NamedPartHeadsTheList
  ShortListLosesNothing
  NothingIsInvented
  SizesPrintAsRead
  ListedNamesAreThemselves
  RoutesFitTheText
  TextBeatsGeometry
  ContentsPagesAreNotSchedules
  RecommendedFloorHolds
