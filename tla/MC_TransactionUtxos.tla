------------------------- MODULE MC_TransactionUtxos -------------------------
(***************************************************************************)
(* Notes, asset pubkeys and requests for the TransactionUtxos runs.  The  *)
(* amounts reach two decimal digits and both signs of the external        *)
(* amount; each request reaches a different path of prepareTransactionFull *)
(* and every local merkle tree over the two spendable notes is tried.     *)
(***************************************************************************)
EXTENDS TransactionUtxos

Note(id, assets, amounts) == [id |-> id, assets |-> assets, amounts |-> amounts]

\* spendable notes: a USDC note with its SOL fee slot, a SOL-only note
U1 == Note("u1", <<"SOL", "MINT">>, <<1, 12>>)
U2 == Note("u2", <<"SOL", "SOL">>, <<3, 0>>)
\* output notes
O1 == Note("o1", <<"SOL", "MINT">>, <<2, 12>>)
O2 == Note("o2", <<"SOL", "SOL">>, <<1, 0>>)
MCEmptyUtxo == Note("empty", <<"SOL", "SOL">>, <<0, 0>>)

\* asset pubkeys: BN objects, key and identity
Obj(key, id) == [key |-> key, obj |-> id]
Apk        == <<Obj("SOL", 1), Obj("MINT", 1), Obj("OTHER", 1)>>
ApkNoFee   == <<Obj("MINT", 1), Obj("SOL", 1), Obj("OTHER", 1)>>
ApkShort   == <<Obj("SOL", 1), Obj("MINT", 1)>>
ApkSameObj == <<Obj("SOL", 1), Obj("MINT", 1), Obj("MINT", 1)>>
ApkSolTwice  == <<Obj("SOL", 1), Obj("MINT", 1), Obj("SOL", 2)>>
ApkMintTwice == <<Obj("SOL", 1), Obj("MINT", 1), Obj("MINT", 2)>>

Req(action, apk, ins, outs, relayerFee, recipient, recipientFee, encrypted) ==
    [action |-> action, apk |-> apk, inputs |-> ins, outputs |-> outs,
     relayerFee |-> relayerFee, recipient |-> recipient,
     recipientFee |-> recipientFee, encrypted |-> encrypted]

MCRequests ==
  { Req("DEPOSIT", Apk, <<>>, <<O1>>, None, FALSE, FALSE, FALSE),
    Req("DEPOSIT", Apk, <<U1>>, <<>>, None, FALSE, FALSE, FALSE),
    Req("DEPOSIT", Apk, <<U2>>, <<O1, O2>>, None, FALSE, FALSE, FALSE),
    Req("DEPOSIT", Apk, <<U1, U2, U1>>, <<O1>>, None, FALSE, FALSE, FALSE),
    Req("DEPOSIT", ApkNoFee, <<>>, <<O1>>, None, FALSE, FALSE, FALSE),
    Req("DEPOSIT", ApkShort, <<>>, <<O1>>, None, FALSE, FALSE, FALSE),
    Req("DEPOSIT", ApkSameObj, <<>>, <<O2>>, None, FALSE, FALSE, FALSE),
    Req("DEPOSIT", ApkMintTwice, <<>>, <<O2>>, None, FALSE, FALSE, FALSE),
    Req("WITHDRAWAL", Apk, <<U1, U2>>, <<O2>>, 1, TRUE, TRUE, FALSE),
    Req("WITHDRAWAL", Apk, <<U1>>, <<O1>>, 1, TRUE, TRUE, TRUE),
    Req("WITHDRAWAL", Apk, <<U1>>, <<>>, None, TRUE, TRUE, FALSE),
    Req("WITHDRAWAL", Apk, <<U1>>, <<>>, 1, FALSE, TRUE, FALSE),
    Req("WITHDRAWAL", Apk, <<U1>>, <<>>, 1, TRUE, FALSE, FALSE),
    Req("WITHDRAWAL", ApkSolTwice, <<U1>>, <<O2>>, 1, TRUE, TRUE, FALSE),
    Req("TRANSFER", Apk, <<U1>>, <<O1>>, 1, TRUE, TRUE, FALSE) }

\* each request against every local merkle tree over u1 and u2
MCParams ==
    {[action |-> r.action, apk |-> r.apk, inputs |-> r.inputs,
           outputs |-> r.outputs, relayerFee |-> r.relayerFee,
           recipient |-> r.recipient, recipientFee |-> r.recipientFee,
           encrypted |-> r.encrypted, tree |-> t]
          : r \in MCRequests, t \in SUBSET {"u1", "u2"}}
==============================================================================
