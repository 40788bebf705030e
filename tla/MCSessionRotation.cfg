SPECIFICATION Spec
CONSTANTS
    t1 = t1
    t2 = t2
    s1 = s1
    s2 = s2
    Tabs <- MCTabs
    ActiveTabs = {t1}
    Servers <- MCServers
    Interval = 4
    Urgent = 3
    Leeway = 1
    MaxLead = 1
    MaxDelay = 1
    None = None
INVARIANTS
    TypeOK
    TokenIsKnown
    ExpiryIsEarly
PROPERTIES
    PreviousIsAccepted
CHECK_DEADLOCK FALSE
