CONSTANTS
  Procs = {p1, p2, p3}
  Repos = {r1, r2}
  NoEntry = NoEntry
  MaxAttempts = 2
  MaxFaults = 1
SPECIFICATION FairRegistrySpec
INVARIANTS MutualExclusion NoUpdateLost
PROPERTIES EveryoneEnds
CHECK_DEADLOCK FALSE
