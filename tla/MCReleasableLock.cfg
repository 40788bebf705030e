\* Two servers that retry and one that does not; the longest run that fits
\* into maxInterval.
SPECIFICATION FairSpec
CONSTANTS
    Servers = {s1, s2, s3}
    Retrying = {s1, s2}
    MaxInterval = 5
    MaxRun = 2
    Second = 2
    Skew = 1
    None = None
INVARIANTS
    TypeOK
    MutualExclusion
PROPERTIES
    ImplementsLease
    DeadLockIsOvertaken
