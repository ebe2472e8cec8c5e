CONSTANTS
    BlockHash = bh
    TxHashes = {t1, t2}
    MaxTx = 2
    MaxLogs = 2
    None = None
SPECIFICATION Spec
INVARIANTS
    TypeOK
    LogIndicesContiguous
    LogsAttributed
