\* One syncState at a time, started three times.
CONSTANTS
    n1 = n1
    n2 = n2
    n3 = n3
    n4 = n4
    usdc = usdc
    usdt = usdt
    Foreign = Foreign
    SOL = SOL
    Notes = {n1, n2, n3, n4}
    AppNotes = {}
    Amounts <- MCAmounts
    SplAsset <- MCSplAsset
    USDC <- usdc
    Txs <- MCTxs
    Syncs = {s1}
    MaxSyncRuns = 3
SPECIFICATION Spec

    
PROPERTIES
    SyncTerminates
    BalanceViewRefined
