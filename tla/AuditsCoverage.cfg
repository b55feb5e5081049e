SPECIFICATION LiveSpec
CONSTANTS
  Last = 3
  Twins = {2}
  Strategies = {1, 2}
INVARIANTS NothingSkipped
PROPERTIES EveryFileAudited
