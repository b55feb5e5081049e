SPECIFICATION LiveSpec
CONSTANTS
  Pids = {p1, p2}
  NoPid = NoPid
  MaxRestarts = 1
  StartupGrace = 1
  RetryResetAfter = 2
  FaultSets = {{"spawn_fails", "kill_fails"}}
PROPERTIES FailureAnswered HopelessEscalates
