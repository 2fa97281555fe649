---------------------------- MODULE MC_SyncState ----------------------------
(***************************************************************************)
(* Instances of SyncState.  The notes cover every branch of the filing    *)
(* code: n1 a SOL note, n2 a note with an SPL amount (filed under its     *)
(* mint), n3 a note of an SPL mint with a zero SPL amount (filed under    *)
(* SOL), n4 an all-zero note (not tracked).  Two transactions give a left *)
(* and a right leaf, and a leaf of another account.                       *)
(***************************************************************************)
EXTENDS SyncState

CONSTANTS n1, n2, n3, n4, usdc, usdt

MCAmounts ==
    (n1 :> [sol |-> 2, spl |-> 0]) @@ (n2 :> [sol |-> 1, spl |-> 3])
    @@ (n3 :> [sol |-> 1, spl |-> 0]) @@ (n4 :> [sol |-> 0, spl |-> 0])

MCSplAsset == [c \in {n1, n2, n3, n4} |-> usdc]

\* The same notes with n2 of a second SPL mint.
MCSplAssetUsdt == (n2 :> usdt) @@ MCSplAsset

MCTxs == << <<n1, n3>>, <<n4, n2>> >>

\* One transaction: a SOL note and a leaf of another account.
MCTxsOne == << <<n1, Foreign>> >>
=============================================================================
