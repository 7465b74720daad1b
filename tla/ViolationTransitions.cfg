\* A worker's commit over a newer row leaves the transition table.
SPECIFICATION Spec
CONSTANTS
    r1 = r1
    r2 = r2
    p1 = p1
    p2 = p2
    None = None
    Requests = {r1, r2}
    Workers = {w1}
    Procs = {p1}
    ProcOf <- OneProcess
    Users = {u1}
    Keys = {k1}
    Events = {}
    Failures = {}
    MaxJobs = 1
    MaxVersion = 1
PROPERTY TransitionsGuarded
CHECK_DEADLOCK FALSE
