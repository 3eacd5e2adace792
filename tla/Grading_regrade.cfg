CONSTANTS
    s1 = s1  s2 = s2  s3 = s3  w1 = w1  w2 = w2
    Submissions = {s1}
    Jobs = {s1}
    Unsupported = {}
    Demo = {}
    Workers = {w1, w2}
    Names = {w1, w2}
    NameOf <- OwnNames
    Verdicts <- FewVerdicts
    Faults = {"resent"}
    MaxFaults = 1
SPECIFICATION Spec
INVARIANT OneSetOfResults
