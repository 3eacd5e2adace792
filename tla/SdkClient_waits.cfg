CONSTANTS
    w1 = w1  w2 = w2  acct = acct
    Accounts = {acct}
    Account = acct
    Waiters = {w1}
    MaxOthers = 2
    Requests <- RequestIds
    Limit = 2
    Window = 3
    Second = 2
    MaxTime = 6
    FirstPoll = 1
    MaxPoll = 2
    Timeout = 5
    Faults = {"down", "lost", "request", "abort"}
    MaxFaults = 1
SPECIFICATION Spec
INVARIANTS TypeInvariant WindowLimit RetryAfterIsHonest
PROPERTIES KeepsThePromise GivesUpLate EventuallyReturns
CHECK_DEADLOCK FALSE
