CONSTANTS
    s1 = s1  p1 = p1  p2 = p2
    Submissions = {s1}
    Verdicts = {1}
    Pages = {p1, p2}
    Watches <- AllWatch
    Sockets = {p1}
    Polls = {p2}
    Faults = {"rejudge", "repeat", "poll", "delete", "socket", "channel"}
    MaxFaults = 2
SPECIFICATION Spec
INVARIANT TypeOK
PROPERTIES EventuallyShown DoneIsKept
CHECK_DEADLOCK FALSE
