-------------------------- MODULE MC_ProgramStorage --------------------------
(***************************************************************************)
(* An instance of ProgramStorage.  The log has five transactions:          *)
(*   1. a storage transaction whose first leaf makes Utxo.decrypt throw   *)
(*      INVALID_APP_DATA_IDL and whose second leaf is a SOL note a1 of    *)
(*      program p1;                                                       *)
(*   2. a transaction with an empty message (filtered out);                *)
(*   3. a storage transaction with an SPL note b1 of a known token, of    *)
(*      program p2;                                                       *)
(*   4. a storage transaction with an SPL note d1 of a token missing from *)
(*      TOKEN_PUBKEY_SYMBOL (TOKEN_NOT_FOUND);                            *)
(*   5. a storage transaction whose first leaf makes decrypt throw.       *)
(***************************************************************************)
EXTENDS ProgramStorage

CONSTANTS a1, b1, d1, x1, y1, y2, y3, y4, z1, z2, e1, p1, p2, usdc, unknown

MCLog ==
    << [leaves |-> <<x1, a1>>, message |-> TRUE],
       [leaves |-> <<z1, z2>>, message |-> FALSE],
       [leaves |-> <<b1, y2>>, message |-> TRUE],
       [leaves |-> <<d1, y3>>, message |-> TRUE],
       [leaves |-> <<e1, y4>>, message |-> TRUE] >>

MCOutcome ==
    [l \in {a1, b1, d1} |-> "utxo"] @@ (x1 :> "invalidIdl") @@ (e1 :> "error")
    @@ [l \in {y1, y2, y3, y4, z1, z2} |-> "null"]

MCAmounts ==
    (a1 :> [sol |-> 2, spl |-> 0]) @@ (b1 :> [sol |-> 1, spl |-> 3])
    @@ (d1 :> [sol |-> 1, spl |-> 2])

MCSplAsset == (a1 :> usdc) @@ (b1 :> usdc) @@ (d1 :> unknown)

MCNoteProgram == (a1 :> p1) @@ (b1 :> p2) @@ (d1 :> p1)
=============================================================================
