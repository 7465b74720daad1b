CONSTANTS
    Names = {"main", "dev", "topic", "auto", "bot"}
    Candidates <- MCCandidates
    Generated = {"auto", "bot"}
    Threads = {t1, t2}
    Ttl = 2
    Listings <- MCListings
    None = None
SPECIFICATION Spec
SYMMETRY MCSymmetry
INVARIANTS BoundedStaleness OfferedInOrder
