\* One estimator beside an admin and the pipeline, which drafts and exports; the worker may die
\* at any step and mail may be refused.  The reference data is any, and stays.
SPECIFICATION QuotesSpec
CONSTANTS
  NULL = NULL
  Quotes = {q1}
  Lines = {l1, l2, l3}
  Items = {hinge}
  Estimators = {ana}
  Admins = {root}
  MaxCost = 2
  MaxExports = 1
  MaxRfqs = 0
  Typed = {0, 2}
  Amounts = {0}
  Kinds <- FreeOrTied
  Sources <- SomeSources
  MaxChanges = 0
  Faults = {"worker", "mail"}
SYMMETRY Rows
INVARIANTS
  QuotesTypeOK
  UnpricedLinesAreFlagged
PROPERTIES
  NothingLeavesUnapproved
  ApprovalIsNeverWithdrawn
  HandAddedLinesAreKept
CHECK_DEADLOCK FALSE
