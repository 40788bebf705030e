\* "rule must not be nil": expected to be violated.
SPECIFICATION Spec
CONSTANTS
    Keys = {k1}
    Contents = {"a", "b", "p"}
    Paused = {"p"}
    Frequency <- Freq
    Offset <- NoJitter
    MaxAttempts = 1
    Routines = {r1}
    Cycle = 2
    MaxWrites = 3
    Recreate = FALSE
    None = None
INVARIANTS
    RuleIsNotNil
CHECK_DEADLOCK FALSE
