CONSTANTS
    MaxTests = 3
    MaxSessions = 2
    MaxKills = 2
    MaxFaults = 2
SPECIFICATION Spec
INVARIANTS TypeOK JudgedAsItRan MemoryVerdictHasKill NoBoxLeftBehind
PROPERTY SessionEnds
CHECK_DEADLOCK FALSE
