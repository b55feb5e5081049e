SPECIFICATION Spec
CONSTANTS
  Pids = {p1, p2, p3}
  NoPid = NoPid
  MaxRestarts = 2
  StartupGrace = 1
  RetryResetAfter = 2
  FaultSets = {{"spawn_fails", "lease_write_fails", "lookalike", "reuse_held"}, {"spawn_fails", "lease_write_fails", "kill_fails", "unreadable_image", "lease_gap", "interrupt_start"}, {"spawn_fails", "lease_write_fails", "kill_fails", "unreadable_image", "lookalike", "reuse_held", "lease_gap", "interrupt_start"}}
SYMMETRY PidSymmetry
INVARIANTS TypeOK AtMostOneWorker NoOrphan EscalationStopsWorker
PROPERTIES InnocentSpared EscalationSticks SpawnReplacesDead
