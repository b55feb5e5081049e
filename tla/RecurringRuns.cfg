SPECIFICATION LiveSpec
CONSTANTS
  Specs = {s1, s2}
  Interval = 2
  Backoff = 1
  MaxRuns = 2
INVARIANTS NoOverlap CursorFollowsRuns
PROPERTIES NoBurst NextRunComes
