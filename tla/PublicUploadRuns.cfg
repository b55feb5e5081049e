SPECIFICATION LiveSpec
CONSTANTS
  MaxSnaps = 2
  MaxSources = 2
  MaxCommits = 4
  MaxFaults = 2
INVARIANTS RemoteIsWhole
PROPERTIES RemoteKeepsCommits LocalWorkKept Cadence LatestReachesRemote
