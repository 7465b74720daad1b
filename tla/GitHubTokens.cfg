CONSTANTS
    Threads = {t1, t2}
    Teams = {"T", "S"}
    Installations = {"i"}
    Life = 3
    Margin = 1
    MaxConnects = 3
    None = None
SPECIFICATION Spec
SYMMETRY MCSymmetry
INVARIANTS ActsForRequester TokenLasts
PROPERTIES NeverBack
