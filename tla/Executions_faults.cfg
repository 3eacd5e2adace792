CONSTANTS
    e1 = e1  e2 = e2  w1 = w1  w2 = w2  acct = acct
    Execs = {e1, e2}
    Jobs = {e1, e2}
    Accounts = {acct}
    Owner <- OneOwner
    Workers = {w1, w2}
    Names = {w1, w2}
    NameOf <- OwnNames
    MaxConcurrent = 1
    DailyQuota = 2
    TTL = 1
    MaxTime = 1
    LastDay = 1
    Faults <- AllFaults
    MaxFaults = 2
SPECIFICATION Spec
INVARIANTS TypeOK NothingLost ReleasedBeforeAck SlotCap QuotaSound InFlightWithinCap
PROPERTIES TerminalIsFinal EventuallySettled
