SPECIFICATION Spec
CONSTANTS
  Managers = {m1, m2}
  Watched = m1
  None = None
  lane = lane
  scan = scan
  Streams = {lane, scan}
  MaxRestarts = 0
  Past = 2
  Limit = 3
  Retention = 4
  LongNames = {lane}
  KindOf <- MCKindOf
  Budgets <- MCBudgets
INVARIANTS WithoutDuplicates
