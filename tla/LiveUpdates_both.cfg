CONSTANTS
    s1 = s1  p1 = p1  p2 = p2
    Submissions = {s1}
    Verdicts = {1}
    Pages = {p1}
    Watches <- AllWatch
    Sockets = {p1}
    Polls = {p1}
    Faults = {}
    MaxFaults = 0
SPECIFICATION Spec
PROPERTY EventuallyShown
CHECK_DEADLOCK FALSE
