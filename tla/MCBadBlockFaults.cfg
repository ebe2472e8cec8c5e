CONSTANTS
    x1 = x1
    x2 = x2
    y2 = y2
    x3 = x3
    y3 = y3
    x4 = x4
    y4 = y4
    Blocks = {x1, x2, y2, x3, y3, x4, y4}
    BNum <- MCBNum
    BadBlockToKeep = 3
SPECIFICATION FaultSpec
INVARIANTS
    RetainsHighest
