SPECIFICATION Spec
CONSTANTS
  Pids = {p1, p2, p3}
  NoPid = NoPid
  MaxRestarts = 1
  StartupGrace = 1
  RetryResetAfter = 2
  FaultSets = {{"unreadable_image"}}
SYMMETRY PidSymmetry
PROPERTIES NeverShadowed
