SPECIFICATION Spec
CONSTANTS
  NBoards = 2
  KindAt <- MCKindAt
  NModels = 2
  Boards <- MCBoards
  Contents = {"v1", "v2"}
  KindOf <- MCKindOf
  Asks <- MCAsks
  Templates = {"t1", "t2"}
  Identities = {"w1", "w2", "unknown"}
  Vetted = {"w1", "w2"}
  Codes = {"c1", "c2"}
  Runs = {"r1", "r2"}
  Starts <- MCStarts
  MaxLaunches = 2
  MaxChanges = 2
  EditsDuringLaunch = FALSE
INVARIANTS
  RunIsOneExperiment
  PlayedIsStored
CHECK_DEADLOCK FALSE
