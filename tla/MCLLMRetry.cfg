SPECIFICATION Spec
CONSTANTS
    MaxRetries = 3
    MaxCalls = 2
INVARIANTS
    TypeOK
    BadSeedIsNotSentAgain
    OutageKeepsTheSeed
    StampExplainsTheSeed
    BudgetIsSpentNotExceeded
    OneRegimePerClient
CHECK_DEADLOCK FALSE
