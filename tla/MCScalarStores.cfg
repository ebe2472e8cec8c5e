CONSTANTS
    h1 = h1
    z = z
    c1 = c1
    u1 = u1
    Width = 3
    Values <- MCValues
    BlockHashes = {z, h1}
    ZeroHash = z
    Commitments = {c1}
    Epochs = {7}
    Uptimes = {u1}
    None = None
SPECIFICATION ScalarSpec
INVARIANTS
    ScalarTypeOK
    ScalarReadBack
