\* Safety of the scheduler: one key, deleted and created again.
SPECIFICATION Spec
CONSTANTS
    Keys = {k1}
    Contents = {"a", "b", "p"}
    Paused = {"p"}
    Frequency <- Freq
    Offset <- NoJitter
    MaxAttempts = 2
    Routines = {r1, r2}
    Cycle = 2
    MaxWrites = 3
    Recreate = TRUE
    None = None
SYMMETRY SymmetricRoutines
INVARIANTS
    TypeOK
    OneLiveRoutine
    RegistryInSync
    StatesMatchFingerprint
    NoOrphanedStates
\* Done after a shutdown, or after a panic.
CHECK_DEADLOCK FALSE
