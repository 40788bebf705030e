\* The states of a rule with restarts, failing statements and one update.
SPECIFICATION Spec
CONSTANTS
    Rules <- TheRules
    Interval = 2
    ResendDelay = 2
    MaxTime = 11
    MaxMissed = 2
    MaxFailures = 1
    MaxCrashes = 1
    MaxResets = 1
    None = None
INVARIANTS
    TypeOK
    KnownWhileFiring
    ForRespected
    EpisodeSurvivesRestart
    SavedBeforeSent
\* Time ends.
CHECK_DEADLOCK FALSE
