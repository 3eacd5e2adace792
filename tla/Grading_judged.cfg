CONSTANTS
    s1 = s1  s2 = s2  s3 = s3  w1 = w1  w2 = w2
    Submissions = {s1, s2, s3}
    Jobs = {s1, s2, s3}
    Unsupported = {s2}
    Demo = {s3}
    Workers = {w1, w2}
    Names = {w1, w2}
    NameOf <- OwnNames
    Verdicts <- FewVerdicts
    Faults = {"down", "lost", "reread", "apiCrash", "engine", "worker", "delete"}
    MaxFaults = 2
SPECIFICATION Spec
INVARIANTS OneSetOfResults StillToJudge
PROPERTIES ImplementsLifecycle EventuallyJudged
