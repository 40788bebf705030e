SPECIFICATION Spec
CONSTANTS
    Requests <- GroupRequests
    DataRequests <- GroupDataRequests
    AuthRequests = {}
    requestIdOf <- GroupRequestIdOf
    consumerOf <- GroupConsumerOf
    Limit = 4
    MaxReissued = 0
    None = None
INVARIANTS
    SlotsAreReturned
CHECK_DEADLOCK FALSE
