SPECIFICATION RowsSpec
CONSTANTS
  aa = aa
  ak = ak
  ka = ka
  ac = ac
  ca = ca
  cc = cc
  Cards <- MCCards
  Side <- MCSide
  Tokens = 3
  AgentsPerSide = 3
  SharedAgents = 1
  AssassinsPerSide = 1
  SharedAssassins = 0
  Proposals <- MCProposals
  MaxDispatches = 20
INVARIANTS
  OfferedIsWhatWasAsked
  SuddenDeathIsReadRight
  SkillIsReadRight
  AvailableWasShown
CHECK_DEADLOCK FALSE
