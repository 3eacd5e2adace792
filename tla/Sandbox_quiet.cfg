CONSTANTS
    MaxTests = 2
    MaxSessions = 1
    MaxKills = 2
    MaxFaults = 0
SPECIFICATION Spec
INVARIANT OwnKills
CHECK_DEADLOCK FALSE
