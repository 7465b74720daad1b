\* Eventual outcomes on one event loop, which callbacks may block for good.
SPECIFICATION FairSpec
CHECK_DEADLOCK FALSE
CONSTANTS
    r1 = r1
    r2 = r2
    p1 = p1
    p2 = p2
    None = None
    Requests = {r1, r2}
    Workers = {w1}
    Procs = {p1}
    ProcOf <- OneProcess
    Users = {u1}
    Keys = {k1}
    Events = {"preview_ready"}
    Failures = {"queue"}
    MaxJobs = 1
    MaxVersion = 1
PROPERTY BuildSettles
PROPERTY RequestsAnswered
