SPECIFICATION Spec
CONSTANTS
  Batches = {b1, b2}
  NGames = 3
  PairingOf <- MCOnePairing
  Threshold = 2
  Replays = 1
  Overlap = TRUE
SYMMETRY BatchSymmetry
INVARIANTS
  TypeOK
  ReportedCompletedAreStored
PROPERTIES
  StoreIsALedger
CHECK_DEADLOCK FALSE
