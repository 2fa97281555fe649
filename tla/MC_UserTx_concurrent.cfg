\* Two calls of shield / unshield / transfer in flight at once, as from
\* two handlers of one application sharing the User; a confirmation
\* may time out after the transaction landed.
CONSTANTS
    Ops = {o1, o2}
    Notes = {u1}
    None = None
    Requests <- MCRequests
    Registered <- MCRegistered
    Sequential = FALSE
    AllowTimeout = TRUE
SPECIFICATION Spec
INVARIANT OwnTransactionAccepted
