\* Liveness of the scheduler: the rule stays as it is, stays
\* paused, or stays deleted, or the server shuts down.
SPECIFICATION FairSpec
CONSTANTS
    Keys = {k1}
    Contents = {"a", "b", "p"}
    Paused = {"p"}
    Frequency <- Freq
    Offset <- NoJitter
    MaxAttempts = 2
    Routines = {r1}
    Cycle = 2
    MaxWrites = 2
    Recreate = FALSE
    None = None
PROPERTIES
    PausedIsCleaned
    FollowsDatabase
    DeletedIsCleaned
    SendersReleased
    ShutdownCompletes
CHECK_DEADLOCK FALSE
