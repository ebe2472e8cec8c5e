CONSTANTS
    hg = hg
    hx = hx
    hy = hy
    hz = hz
    Hashes = {hg, hx, hy, hz}
    Num <- MCNum
    HashBytes <- MCHashBytes
    None = None
SPECIFICATION Spec
INVARIANTS
    CanonicalScanExact
    RangeScanExact
    AllHashesExact
