CONSTANTS
    Names = {"main", "dev", "topic", "auto"}
    Candidates <- MCCandidates
    Generated = {"auto"}
    Attempts = 3
    MaxTries = 3
    Requested <- MCRequested
    Heads <- MCHeads
    DefaultBase = "main"
    None = None
SPECIFICATION FairSpec
CHECK_DEADLOCK FALSE
INVARIANTS TypeOK VerifiedPR ModelWroteIt NoPRIsLost AgentGone BaseFitsTree
PROPERTIES Ends PromiseKept
