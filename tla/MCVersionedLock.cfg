\* Three servers, a maxInterval of two seconds of two units, clocks half a
\* second apart.
SPECIFICATION Spec
CONSTANTS
    Servers = {s1, s2, s3}
    MaxInterval = 4
    Second = 2
    Skew = 1
    MaxTime = 12
    None = None
SYMMETRY SymmetricServers
INVARIANTS
    TypeOK
PROPERTIES
    GrantsAreSpaced
CHECK_DEADLOCK FALSE
