\* Every event, every failure, two keys, two jobs, spec updates; commits over current rows only.
SPECIFICATION FreshSpec
CONSTANTS
    r1 = r1
    r2 = r2
    p1 = p1
    p2 = p2
    None = None
    Requests = {r1, r2}
    Workers = {w1}
    Procs = {p1}
    ProcOf <- OneProcess
    Users = {u1}
    Keys = {k1, k2}
    Events = {"pr_opened", "preview_ready", "build_failed", "preview_failed"}
    Failures = {"github", "queue", "workspace", "crash"}
    MaxJobs = 2
    MaxVersion = 2
SYMMETRY Symmetry
INVARIANT TypeOK
PROPERTY ImplementsLifecycle
CHECK_DEADLOCK FALSE
