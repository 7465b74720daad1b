CONSTANTS
    Processes = {p1, p2, p3}
    Life = 2
    Early = 1
    MaxRetries = 2
    MaxGen = 3
    None = None
SPECIFICATION Spec
SYMMETRY MCSymmetry
INVARIANTS StoredIsNewest RepeatsOnlyTheUnanswered
