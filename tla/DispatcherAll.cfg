SPECIFICATION LiveSpec
CONSTANTS
  Tasks = {t1, t2, u}
  Handled = {t1, t2}
  Reserved = {}
  MaxAttempts = 2
  MaxInFlight = 1
  Limit = 2
INVARIANTS TypeOK RunningIsOwned InFlightBounded RetryBudgetHonoured
PROPERTIES ImplementsLifecycle EveryTaskSettles
