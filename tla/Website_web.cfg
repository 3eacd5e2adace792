CONSTANTS
    a1 = a1  a2 = a2  A1 = A1  b1 = b1  b2 = b2  t3 = t3
    Requests = {r1, r2}
    Spellings = {a1, A1, a2}
    Addresses = {a1, a2}
    AddressOf <- Lower
    Passwords = {p1, p2}
    Browsers = {b1, b2}
    Tabs = {t1, t2, t3}
    BrowserOf <- LastAlone
    None = None
    Faults = {"down", "lost", "limited", "net", "expired", "reload"}
    MaxFaults = 2
SPECIFICATION Spec
INVARIANTS OneWinner SessionOfOneUser
PROPERTY EventuallyKnown
CHECK_DEADLOCK FALSE
