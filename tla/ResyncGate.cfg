SPECIFICATION FairSpec
CONSTANTS
  d1 = d1
  d2 = d2
  Ticker = Ticker
  Detectors = {d1, d2}
  MaxLosses = 4
INVARIANTS OneResync NeedRemembered ReadyMeansSynced
PROPERTIES NeedServed LossRepaired
\* There may be no further loss and no resync to run.
CHECK_DEADLOCK FALSE
