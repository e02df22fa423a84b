SPECIFICATION Spec
CONSTANTS
  aa = aa
  ak = ak
  ka = ka
  ac = ac
  ca = ca
  kk = kk
  cc = cc
  Cards <- MCCards
  Side <- MCSide
  Tokens = 3
  AgentsPerSide = 3
  SharedAgents = 1
  AssassinsPerSide = 2
  SharedAssassins = 1
INVARIANTS
  GuardFindsNothing
  PromptsShowTheBoard
  ArchiveAccountsForTheTokens
PROPERTIES
  CoveredIsFinal
  DoneSeatTouchesNothing
  PlaysByTheRules
CHECK_DEADLOCK FALSE
