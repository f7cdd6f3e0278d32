CONSTANTS
    Users <- MCUsers
    Sockets <- MCSockets
    UserOf <- MCUserOf
    Unreadable <- MCUnreadable
    PageSize = 2
    MaxRetries = 2
    Scenarios <- MCScenarios
SPECIFICATION Spec
INVARIANTS PagingBounded HeardInOrder
PROPERTY FinalHeard
CHECK_DEADLOCK FALSE
