SPECIFICATION Spec
CONSTANTS
  OOV = OOV
  NoRow = NoRow
  Phrases <- MCPhrases
  NounSenses <- MCNounSenses
  Corpus <- MCCorpus
  Deck <- MCDeck
  Stoplist <- MCStoplist
  Logit <- MCLogit
  BoardWordCount = 7
  NPairs = 1
  ExpectedJoint <- MCJoint
  Deal <- MCDeal
  Starts <- MCStarts
  Edits <- MCEdits
  Struck <- MCStruck
  Arbiters = {phi, gte}
  PhiStar = phi
  Cos <- MCCos
  K = 2
  AttemptCap = 2
  Seeds = {1}
  MaxProbes = 2
  MaxSessions = 2
  MaxBuilds = 2
  MaxEdits = 1
  MaxWork = 4
INVARIANTS
  DirectoryIsABank
  PoolIsSharedOut
CHECK_DEADLOCK FALSE
