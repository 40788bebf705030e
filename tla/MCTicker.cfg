\* The ticker, its refinement of the abstract tick source, and its liveness.
SPECIFICATION FairSpec
CONSTANTS
    Times <- Instants
    Interval = 2
    MaxAdjustments = 2
INVARIANTS
    TypeOK
    TicksAreDue
PROPERTIES
    ImplementsTickSource
    CatchesUp
    RunReturns
\* Once Run has returned, the ticker is stopped or blocked for good.
CHECK_DEADLOCK FALSE
