SPECIFICATION Spec
CONSTANTS
  Emails = {e1, e2}
  CsvImports = {csv1}
  CrmImports = {crm1}
  Workers = {w1, w2}
  Scorers = {scorer}
  Suppressors = {opt_out}
  Nobody = nobody
  Calls = 1
  Budget = 1
  MaxEvents = 2
SYMMETRY Interchangeable
INVARIANT LeadsInv
PROPERTY OperatorDataKept
CHECK_DEADLOCK FALSE
