\* Two calls of shield / unshield / transfer in flight at once, as from
\* two handlers of one application sharing the User; a confirmation
\* may time out after the transaction landed.  The account starts with an
\* empty balance (a new User), so storeData and executeAppUtxo can find no
\* note to spend.
CONSTANTS
    Ops = {o1, o2}
    Notes = {}
    None = None
    Requests <- MCRequests
    Registered <- MCRegistered
    Sequential = FALSE
    AllowTimeout = TRUE
SPECIFICATION Spec
INVARIANT TypeOK
PROPERTY CallsReturn
