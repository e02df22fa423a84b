SPECIFICATION HistorySpec
CONSTANTS
  Batches = {b1, b2}
  NGames = 4
  PairingOf <- MCLongPairing
  Threshold = 2
  Replays = 1
  Overlap = FALSE
INVARIANTS
  NothingLeftOut
  CountsOnlyItsOwnErrors
  ReplayFindsItsPlaceFree
  OneRunOwnsTheSchedule
PROPERTIES
  EveryBatchEnds
CHECK_DEADLOCK FALSE
