--------------------------- MODULE MC_MergeUtxos ---------------------------
(***************************************************************************)
(* MergeUtxos with two assets, three inbox notes (two of USDC with         *)
(* different amounts, one of SOL) and a cap of 3, so that up to two own    *)
(* notes of each asset fill the cap and push inbox notes out of a merge.   *)
(***************************************************************************)
EXTENDS MergeUtxos

CONSTANTS n1, n2, n4

MCAssets == {"SOL", "USDC"}
MCInboxNotes == {n1, n2, n4}
MCNoteAsset == [n \in MCInboxNotes |-> IF n = n4 THEN "SOL" ELSE "USDC"]
MCNoteAmount == (n1 :> 3) @@ (n2 :> 5) @@ (n4 :> 2)
MCOwnIds == 1..9
\* commitment lists: none, one note, two notes, a note of the other asset,
\* and a note listed twice
MCCommitments == {<<>>, <<n2>>, <<n1, n2>>, <<n4>>, <<n1, n1>>}
====
