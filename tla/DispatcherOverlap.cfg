SPECIFICATION Spec
CONSTANTS
  Tasks = {t1, t2}
  Handled = {t1}
  Reserved = {}
  MaxAttempts = 2
  MaxInFlight = 1
  Limit = 2
INVARIANTS NoOverlap
