CONSTANTS
    k1 = k1  k2 = k2  r1 = r1  r2 = r2  r3 = r3  acct = acct
    Keys = {k1, k2}
    Owner <- OneOwner
    MaxActive = 1
    Requests = {r1, r2, r3}
    KeyOf <- Carried
    MaxBuffered = 2
    Faults = {"down", "lost", "gone", "crash", "delete"}
    MaxFaults = 2
SPECIFICATION Spec
INVARIANTS TypeOK KeyCap DroppedAreCounted BoundedInOrder UsageIsTrue
PROPERTIES EveryCreationAnswered EventuallyStored
CHECK_DEADLOCK FALSE
