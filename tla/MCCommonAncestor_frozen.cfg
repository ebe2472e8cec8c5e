CONSTANTS
    g = g
    a1 = a1
    b1 = b1
    a2 = a2
    c2 = c2
    Hashes = {g, a1, b1, a2, c2}
    Genesis = g
    Num <- MCNum
    Parent <- MCParent
    Tables = {"header", "body"}
    None = None
    MaxBatch = 2
    MaxFrozen = 2
SPECIFICATION Spec
INVARIANTS
    AncestorIsLCA
