\* syncStorage called three times while the chain appends the five
\* transactions of MCLog and spends the notes in any order.
CONSTANTS
    a1 = a1
    b1 = b1
    d1 = d1
    x1 = x1
    y1 = y1
    y2 = y2
    y3 = y3
    y4 = y4
    z1 = z1
    z2 = z2
    e1 = e1
    p1 = p1
    p2 = p2
    usdc = usdc
    unknown = unknown
    SOL = SOL
    Log <- MCLog
    Outcome <- MCOutcome
    Notes = {a1, b1, d1}
    Amounts <- MCAmounts
    SplAsset <- MCSplAsset
    NoteProgram <- MCNoteProgram
    KnownTokens = {SOL, usdc}
    MaxSyncRuns = 3
SPECIFICATION Spec
\* The model stops once the log is complete and syncStorage has been
\* called MaxSyncRuns times.
CHECK_DEADLOCK FALSE
INVARIANTS
    TypeOK
    ProgramConservation
    NoFalseSpent
    StableProgramUtxosUnspent
