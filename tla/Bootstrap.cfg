SPECIFICATION FairSpec
CONSTANTS
  a = a
  b = b
  Keys = {a, b}
  Lists = {b}
  MaxWrites = 3
  MaxSyncs = 3
  MaxFails = 1
  QueueDepth = 2
  DrainRounds = 2
INVARIANTS OnlyLossDiverges
PROPERTIES AppliedInOrder GetsReady
\* The source may have nothing left to write and the joiner be ready.
CHECK_DEADLOCK FALSE
