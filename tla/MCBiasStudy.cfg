SPECIFICATION Spec
CONSTANTS
  Rho <- MCRho
  NoVector = NoVector
  Sim <- MCSim
  TauP = 1
  TauRho = 1
  Scale = 6
  BoardOf <- MCBoardOf
  Studies <- MCStudies
  Contrasts <- MCContrasts
  NReplicates = 2
INVARIANTS
  EveryCopyCountsOnce
  EveryWordIsAccountedFor
CHECK_DEADLOCK FALSE
