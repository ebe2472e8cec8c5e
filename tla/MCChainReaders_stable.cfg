CONSTANTS
    g = g
    a1 = a1
    b1 = b1
    Hashes = {g, a1, b1}
    Genesis = g
    Num <- MCNum
    Tables = {"header", "body", "receipts", "td"}
    None = None
    MaxBatch = 2
    MaxFrozen = 2
    Readers = {r1}
    Ops = {"ReadBodyRLP", "ReadReceiptsRLP", "ReadTdRLP", "ReadReceipts", "HasBody", "HasReceipts", "HasHeader"}
SPECIFICATION Spec
INVARIANTS
    FindsStableData
