SPECIFICATION FairSpec
CONSTANTS
    None = None
    Features = {f1}
    Dirs = {d1, d2, d3}
    Builders = {w1, w2}
    Classes = {"pr", "failed"}
    Retention <- MCRetention
    Oldest = 3
    BuildLimit = 1
    MaxPerRun = 2
    Undeletable = {d1}
INVARIANTS TypeOK RunningKept TargetsIsolated
PROPERTY EveryDirectoryGoes
