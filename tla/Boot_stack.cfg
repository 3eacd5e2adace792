CONSTANTS
    api = api  u1 = u1  u2 = u2  l1 = l1  l2 = l2  t1 = t1  t2 = t2
    Apis = {api}
    Workers = {u1, u2}
    Last = 3
    Problems = {t1, t2}
    TestCases = 2
    Loops = {l1, l2}
    WorkerOf <- OneLoopEach
    Faults = {"down", "lost", "crash", "signal"}
    MaxFaults = 2
SPECIFICATION Spec
INVARIANT UpMeansReady
PROPERTIES OneGetsThrough RestartsBringUp EventuallyStopped
CHECK_DEADLOCK FALSE
