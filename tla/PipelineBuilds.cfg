\* Two build requests, two workers, two jobs; no callbacks.
SPECIFICATION Spec
CONSTANTS
    r1 = r1
    r2 = r2
    p1 = p1
    p2 = p2
    None = None
    Requests = {r1, r2}
    Workers = {w1, w2}
    Procs = {p1}
    ProcOf <- OneProcess
    Users = {u1}
    Keys = {k1}
    Events = {}
    Failures = {"github", "queue"}
    MaxJobs = 2
    MaxVersion = 1
SYMMETRY Symmetry
INVARIANT LockedRowIsCurrent
INVARIANT BuildingHasABuilder
INVARIANT OneRunPerJob
PROPERTY BuildStartsOnce
PROPERTY LifecycleUnlessStale
