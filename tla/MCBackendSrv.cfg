SPECIFICATION FairSpec
CONSTANTS
    Requests <- MCRequests
    DataRequests <- MCDataRequests
    AuthRequests <- MCAuthRequests
    requestIdOf <- MCRequestIdOf
    consumerOf <- MCConsumerOf
    Limit = 2
    MaxReissued = 1
    None = None
INVARIANTS
    TypeOK
    OnePerRequestId
    SlotsAreReturned
    WorkConserving
PROPERTIES
    ImplementsRequestService
    EveryRequestEnds
CHECK_DEADLOCK FALSE
