SPECIFICATION FairSpec
CONSTANTS
  Readers = {r1, r2}
  gapTrackLimit = 1
  MaxSeq = 4
  MaxInc = 2
  MaxSent <- FewAfterRestart
INVARIANTS NoSilentLoss
PROPERTIES LossSettled
\* The sender may have nothing left to send.
CHECK_DEADLOCK FALSE
