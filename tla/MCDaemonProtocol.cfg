CONSTANTS
    MaxCalls = 4
    MaxExits = 2
SPECIFICATION FairSpec
INVARIANTS
    ExecutedOnceInOrder
    AnswersLagByTimeouts
    OnlyWithValidSession
PROPERTIES
    EveryCallReturns
CHECK_DEADLOCK FALSE
