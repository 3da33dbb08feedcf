\* One estimator, who prices free-form lines and records vendors' answers, beside the stage that
\* drafts; the reference data changes once.
SPECIFICATION QuotesSpec
CONSTANTS
  NULL = NULL
  Quotes = {q1}
  Lines = {l1, l2, l3}
  Items = {hinge}
  Estimators = {ana}
  Admins = {}
  MaxCost = 2
  MaxExports = 0
  MaxRfqs = 1
  Typed = {0, 2}
  Amounts = {0}
  Kinds <- FromCatalogue
  Sources <- SomeSources
  MaxChanges = 1
  Faults = {}
SYMMETRY Rows
PROPERTIES
  NoSilentRepricing
CHECK_DEADLOCK FALSE
