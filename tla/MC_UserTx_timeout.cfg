\* Two calls of shield / unshield / transfer, the application awaiting the
\* first before it makes the second; a confirmation may time out after the
\* transaction landed.
CONSTANTS
    Ops = {o1, o2}
    Notes = {u1}
    None = None
    Requests <- MCRequests
    Registered <- MCRegistered
    Sequential = TRUE
    AllowTimeout = TRUE
SPECIFICATION Spec
INVARIANT NoStaleInputs
