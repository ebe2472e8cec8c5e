CONSTANTS
    g = g
    a1 = a1
    b1 = b1
    a2 = a2
    Hashes = {g, a1, b1, a2}
    Genesis = g
    Num <- MCNum
    Tables = {"header", "body"}
    None = None
    MaxBatch = 2
    MaxFrozen = 2
    Readers = {r1}
    Ops = {"ReadHeaderRLP", "ReadBlock"}
    Threshold = 1
SPECIFICATION HeadSpec
INVARIANTS
    HeadTypeOK
    HeadFound
