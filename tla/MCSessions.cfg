SPECIFICATION FairSpec
CONSTANTS
    Tabs = {t1, t2}
    MaxSessions = 1
    MaxCalls = 3
    MaxResets = 1
INVARIANTS
    TypeOK
    SingleFlight
    RefusalIsFinal
    ResetEndsSessions
PROPERTIES
    RefreshSettles
