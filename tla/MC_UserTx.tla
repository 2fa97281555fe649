------------------------------ MODULE MC_UserTx ------------------------------
(***************************************************************************)
(* Requests for the UserTx runs.  Each reaches a different path of the     *)
(* create functions and of approve.                                        *)
(***************************************************************************)
EXTENDS UserTx

\* A storage call: whether it stores by a shield, and its app utxo.
Store(kind, token, sol, spl, storeShield, app, big, noteSol, noteSpl, noteToken) ==
    [kind |-> kind, token |-> token, sol |-> sol, spl |-> spl,
     recipient |-> FALSE, senderTokenAccount |-> FALSE, ata |-> TRUE,
     splFunds |-> TRUE, confirm |-> "spendable", big |-> big,
     storeShield |-> storeShield, app |-> app, noteSol |-> noteSol,
     noteSpl |-> noteSpl, noteToken |-> noteToken, idl |-> TRUE]

Req(kind, token, sol, spl, recipient, ata, splFunds, confirm) ==
    [Store(kind, token, sol, spl, FALSE, "none", FALSE, FALSE, FALSE, "none")
        EXCEPT !.recipient = recipient, !.ata = ata, !.splFunds = splFunds,
               !.confirm = confirm]

MCRequests ==
    { \* shield SOL to self, merging the existing utxos
      Req("shield", "SOL", TRUE, FALSE, FALSE, TRUE, TRUE, "spendable"),
      \* shield USDC: approve sends an approve instruction
      Req("shield", "USDC", FALSE, TRUE, FALSE, TRUE, TRUE, "finalized"),
      \* shield USDC from a token account that does not hold the amount
      Req("shield", "USDC", FALSE, TRUE, FALSE, TRUE, FALSE, "spendable"),
      \* shield USDC without a token account
      Req("shield", "USDC", FALSE, TRUE, FALSE, FALSE, FALSE, "spendable"),
      \* unshield USDC: no USDC utxos to pay from
      Req("unshield", "USDC", FALSE, TRUE, TRUE, TRUE, TRUE, "spendable"),
      \* unshield SOL to the default AUTHORITY recipient
      Req("unshield", "SOL", TRUE, FALSE, FALSE, TRUE, TRUE, "spendable"),
      \* transfer SOL
      Req("transfer", "SOL", TRUE, FALSE, TRUE, TRUE, TRUE, "spendable"),
      \* storeData by a shield of BN_0 SOL, by a transfer spending one note,
      \* and a message over MAX_MESSAGE_SIZE
      Store("storeData", "none", FALSE, FALSE, TRUE, "none", FALSE, FALSE, FALSE, "none"),
      Store("storeData", "none", FALSE, FALSE, FALSE, "none", FALSE, FALSE, FALSE, "none"),
      Store("storeData", "none", FALSE, FALSE, FALSE, "none", TRUE, FALSE, FALSE, "none"),
      \* storeAppUtxo shielding a given app utxo of SOL, and one of USDC
      Store("storeAppUtxo", "none", FALSE, FALSE, TRUE, "given", FALSE, TRUE, FALSE, "none"),
      Store("storeAppUtxo", "none", FALSE, FALSE, TRUE, "given", FALSE, FALSE, TRUE, "USDC"),
      \* storeAppUtxo transferring an app utxo parsed from a string
      Store("storeAppUtxo", "none", FALSE, FALSE, FALSE, "string", FALSE, TRUE, FALSE, "none"),
      \* storeAppUtxo of an appUtxoConfig for SOL: amountSpl must be given
      Store("storeAppUtxo", "SOL", TRUE, TRUE, TRUE, "config", FALSE, TRUE, TRUE, "SOL"),
      \* storeAppUtxo without an app utxo
      Store("storeAppUtxo", "none", FALSE, FALSE, TRUE, "none", FALSE, FALSE, FALSE, "none"),
      \* executeAppUtxo of a transfer spending a note of the balance, one
      \* without programParameters.verifierIdl, and one of Action.SHIELD
      Store("executeAppUtxo", "none", FALSE, FALSE, FALSE, "none", FALSE, FALSE, FALSE, "none"),
      [Store("executeAppUtxo", "none", FALSE, FALSE, FALSE, "none", FALSE, FALSE, FALSE, "none")
          EXCEPT !.idl = FALSE],
      Store("executeAppUtxo", "none", FALSE, FALSE, TRUE, "none", FALSE, FALSE, FALSE, "none") }

MCRegistered == {"SOL", "USDC"}

=============================================================================
