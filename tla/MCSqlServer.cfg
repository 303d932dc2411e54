SPECIFICATION Spec
CONSTANTS
    Clients <- Two
    Script <- TwoScripts
    MaxStarts = 2
    CreatesAlone = TRUE
INVARIANTS
    AnswersInOrder
    StopLeavesNothing
    
PROPERTIES
    StatementsAreAnswered
    StopReturns
CHECK_DEADLOCK FALSE
