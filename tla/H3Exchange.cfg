SPECIFICATION Spec
CONSTANTS
    MaxRequests = 2
    Window = 2
CHECK_DEADLOCK FALSE
INVARIANTS
    AnswersMatch
    NotRepeated
    
PROPERTIES
    HandlerReturns
