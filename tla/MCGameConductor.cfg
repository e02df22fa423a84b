SPECIFICATION GameSpec
CONSTANTS
  aa = aa
  ak = ak
  ka = ka
  cc = cc
  Cards <- MCCards
  Side <- MCSide
  Tokens = 2
  AgentsPerSide = 2
  SharedAgents = 1
  AssassinsPerSide = 1
  SharedAssassins = 0
  Proposals <- MCProposals
  MaxDispatches = 20
INVARIANTS
  GameTypeOK
  RecordTellsTheGame
  CompletedRowIsTheGame
  DispatchesAreFew
  SuddenDeathSeatsAreAsked
PROPERTIES
  PlaysTheEngine
  MeasuredBeforeGuessing
  RowIsFinal
  EveryGameIsReported
CHECK_DEADLOCK FALSE
