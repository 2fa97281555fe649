\* Two syncState invocations running at once, each started twice.
CONSTANTS
    n1 = n1
    n2 = n2
    n3 = n3
    n4 = n4
    usdc = usdc
    usdt = usdt
    Foreign = Foreign
    SOL = SOL
    Notes = {n1}
    AppNotes = {}
    Amounts <- MCAmounts
    SplAsset <- MCSplAsset
    USDC <- usdc
    Txs <- MCTxsOne
    Syncs = {s1, s2}
    MaxSyncRuns = 2
SPECIFICATION Spec
INVARIANTS
    TypeOK
    BalanceConservation
    FiledUnderChainState
PROPERTIES
    SyncTerminates
