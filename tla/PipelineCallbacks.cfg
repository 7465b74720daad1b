\* Deliveries of one key in two API processes, spec updates, crashes and failing workspaces.
SPECIFICATION Spec
CONSTANTS
    r1 = r1
    r2 = r2
    p1 = p1
    p2 = p2
    None = None
    Requests = {r1, r2}
    Workers = {w1}
    Procs = {p1, p2}
    ProcOf <- TwoProcesses
    Users = {u1}
    Keys = {k1}
    Events = {"preview_ready", "build_failed"}
    Failures = {"crash", "workspace"}
    MaxJobs = 1
    MaxVersion = 2
SYMMETRY Symmetry
INVARIANT AnsweredMeansRecorded
PROPERTY EffectsOncePerKey
