------------------------------- MODULE UserTx -------------------------------
(***************************************************************************)
(* The transaction lifecycle of one User (light-zk.js/src/wallet/user.ts):  *)
(* shield, unshield and transfer, each of which creates transaction        *)
(* parameters and runs transactWithParameters: compileAndProveTransaction, *)
(* approve, sendTransaction, the merkle tree update for the confirmation   *)
(* option, getBalance and resetTxState.                                    *)
(*                                                                         *)
(* The three fields recentTransactionParameters, recentTransaction and     *)
(* approved live on the User and are shared by every operation in flight;  *)
(* each operation reads them again after each of its awaits.  Every        *)
(* element of Ops is one call of shield, unshield or transfer.  When       *)
(* Sequential holds, the application awaits one call before the next.      *)
(*                                                                         *)
(* storeData and storeAppUtxo (with createStoreAppUtxoTransactionParame-  *)
(* ters) are two more such calls: they build shield or transfer parameters *)
(* carrying a storage message and run the same transactWithParameters.     *)
(*                                                                         *)
(* Transaction parameters are named by the operation that created them,   *)
(* and so is the Transaction compiled from them and the one output note    *)
(* it creates for this account.  getBalance is the stable result of        *)
(* syncState (module SyncState): the account's inserted, unspent notes.    *)
(***************************************************************************)
EXTENDS Naturals, FiniteSets

CONSTANTS
    Ops,          \* calls of shield / unshield / transfer / storeData / storeAppUtxo
    Requests,     \* the arguments a call may be made with (records, below)
    Notes,        \* notes of the account that are spendable initially
    Registered,   \* tokens of TOKEN_REGISTRY
    Sequential,   \* the application awaits each call before the next
    AllowTimeout, \* sendAndConfirmTransaction may time out after acceptance
    None

(***************************************************************************)
(* A request: kind, token, whether publicAmountSol/publicAmountSpl are     *)
(* non-zero, whether a recipient is given (for unshield: one other than    *)
(* the AUTHORITY default), whether a senderTokenAccount is passed, whether *)
(* the wallet's token account exists and holds the SPL amount (what        *)
(* approve reads from the chain), and the confirmOptions.  For the two     *)
(* storage calls: whether the encrypted message exceeds MAX_MESSAGE_SIZE,  *)
(* whether it is stored by a shield (storeData's shield flag, or action    *)
(* SHIELD) rather than a transfer, how the app utxo is given (an appUtxo,  *)
(* an appUtxoConfig, a stringUtxo, or none), whether the app utxo's SOL    *)
(* and SPL amounts are non-zero, and the symbol TOKEN_PUBKEY_SYMBOL gives  *)
(* its SPL asset ("none" for a mint it does not list).  token = "none" is  *)
(* a call without a token; sol and spl say whether amountSol and amountSpl *)
(* are passed (a BN is truthy even when zero).                             *)
(***************************************************************************)
RequestType ==
    [kind: {"shield", "unshield", "transfer", "storeData", "storeAppUtxo",
           "executeAppUtxo"},
     token: STRING, sol: BOOLEAN, spl: BOOLEAN, recipient: BOOLEAN,
     senderTokenAccount: BOOLEAN, ata: BOOLEAN, splFunds: BOOLEAN,
     confirm: {"finalized", "spendable"}, big: BOOLEAN, storeShield: BOOLEAN,
     app: {"given", "config", "string", "none"}, noteSol: BOOLEAN,
     noteSpl: BOOLEAN, noteToken: STRING, idl: BOOLEAN]

VARIABLES
    \* fields of the User
    recentTransactionParameters, \* None or the op whose parameters they are
    recentTransaction,           \* None or the op whose parameters it was built from
    approved,
    utxos,                       \* balance.tokenBalances(SOL).utxos
    \* per call
    pc,
    req,          \* the request of each call
    inputs,       \* inputs[o]: the notes o's parameters spend
    captured,     \* parameters or transaction read before an await
    result,       \* "none", "ok" or the error code the call threw
    \* chain and relayer
    accepted,     \* transactions the chain has accepted
    nullified,    \* notes whose nullifier exists
    queued,       \* outputs whose leaves are not yet inserted
    \* history
    splApproved,  \* parameters an SPL approve instruction was confirmed for
    staleSend     \* calls whose transaction was rejected for a spent input

userVars == <<recentTransactionParameters, recentTransaction, approved, utxos>>
opVars == <<pc, req, inputs, captured, result>>
chainVars == <<accepted, nullified, queued>>
vars == <<userVars, opVars, chainVars, splApproved, staleSend>>

AllNotes == Notes \cup Ops

Storing(r) == r.kind \in {"storeData", "storeAppUtxo"}

\* createStoreAppUtxoTransactionParameters without a token: the symbol of
\* the app utxo's assets[1], or of PublicKey(0) (SOL) when amounts[1] is "0".
StoreToken(r) ==
    IF r.token # "none" THEN r.token ELSE IF r.noteSpl THEN r.noteToken ELSE "SOL"

\* The create function whose parameters the call sends, and their token:
\* storeData stores through a SOL shield or a SOL transfer.
Kind(r) == CASE Storing(r) -> IF r.storeShield THEN "shield" ELSE "transfer"
             [] r.kind = "executeAppUtxo" -> "transfer"
             [] OTHER -> r.kind
Token(r) == CASE r.kind \in {"storeData", "executeAppUtxo"} -> "SOL"
              [] r.kind = "storeAppUtxo" -> StoreToken(r)
              [] OTHER                   -> r.token

\* publicAmountSpl of the parameters is positive: a storage shield takes the
\* app utxo's amounts.
SplAmount(r) ==
    IF Storing(r) THEN r.kind = "storeAppUtxo" /\ r.storeShield /\ (r.spl \/ r.noteSpl)
    ELSE r.spl

\* The call's transaction creates a note of this account: not a shield to
\* another recipient; for a storage call, the change note, which carries
\* the inputs (the app utxo itself is an app note the balance skips);
\* executeAppUtxo passes outUtxos, so addOutUtxos is false and no change
\* note is added.
OwnsOutput(o) ==
    CASE Storing(req[o])                -> inputs[o] # {}
      [] req[o].kind = "executeAppUtxo" -> FALSE
      [] OTHER -> ~(req[o].kind = "shield" /\ req[o].recipient)

IsSplShield(o) == Kind(req[o]) = "shield" /\ SplAmount(req[o])

(***************************************************************************)
(* The guards of createShieldTransactionParameters,                        *)
(* createUnshieldTransactionParameters and transfer with                   *)
(* createTransferTransactionParameters, in the order the code tests them;  *)
(* "none" when all pass.  The balance holds SOL notes only, so no          *)
(* TokenUtxoBalance exists for another token.                              *)
(***************************************************************************)
ShieldError(r) ==
    CASE r.spl /\ r.token = "SOL"                -> "INVALID_TOKEN"
      [] ~r.spl /\ ~r.sol                        -> "NO_PUBLIC_AMOUNTS_PROVIDED"
      [] r.token \notin Registered               -> "TOKEN_NOT_FOUND"
      [] r.token = "SOL" /\ r.senderTokenAccount -> "TOKEN_ACCOUNT_DEFINED"
      [] OTHER                                   -> "none"

UnshieldError(r) ==
    CASE r.token \notin Registered  -> "TOKEN_NOT_FOUND"
      [] ~r.spl /\ ~r.sol           -> "NO_PUBLIC_AMOUNTS_PROVIDED"
      [] r.sol /\ ~r.recipient      -> "SOL_RECIPIENT_UNDEFINED"
      [] r.spl /\ ~r.recipient      -> "SPL_RECIPIENT_UNDEFINED"
      [] r.spl /\ r.token = "SOL"   -> "INVALID_TOKEN"
      [] OTHER                      -> "none"

TransferError(r) ==
    CASE ~r.recipient               -> "SHIELDED_RECIPIENT_UNDEFINED"
      [] ~r.sol /\ ~r.spl           -> "NO_AMOUNTS_PROVIDED"
      [] r.token \notin Registered  -> "TOKEN_NOT_FOUND"
      [] r.token # "SOL"            -> "INSUFFICIENT_BAlANCE"
      [] OTHER                      -> "none"

(* storeData: the message size, then for a shield the guards of           *)
(* createShieldTransactionParameters for SOL with publicAmountSol BN_0.    *)
StoreDataError(r) ==
    CASE r.big        -> "MAX_STORAGE_MESSAGE_SIZE_EXCEEDED"
      [] r.storeShield ->
           ShieldError([token |-> "SOL", sol |-> TRUE, spl |-> FALSE,
                        senderTokenAccount |-> FALSE])
      [] OTHER        -> "none"

(* createStoreAppUtxoTransactionParameters up to await appUtxo.encrypt:    *)
(* an appUtxoConfig needs a token, amountSol and amountSpl and a token of  *)
(* TOKEN_REGISTRY; without appUtxo, appUtxoConfig or stringUtxo there is   *)
(* nothing to store; a token must be found.                                *)
StoreAppError(r) ==
    CASE r.app = "config" /\ r.token = "none"        -> "TOKEN_UNDEFINED"
      [] r.app = "config" /\ ~r.sol                  -> "PUBLIC_SOL_AMOUNT_UNDEFINED"
      [] r.app = "config" /\ ~r.spl                  -> "PUBLIC_SPL_AMOUNT_UNDEFINED"
      [] r.app = "config" /\ r.token \notin Registered -> "INVALID_TOKEN"
      [] r.app = "none"                              -> "APP_UTXO_UNDEFINED"
      [] StoreToken(r) = "none"                      -> "TOKEN_UNDEFINED"
      [] OTHER                                       -> "none"

(* After the encrypt: the message size, then the guards of the create      *)
(* function it returns.  A shield passes the amounts given, else those of  *)
(* the app utxo that are not "0"; createTransferTransactionParameters,     *)
(* given outUtxos, only looks the token up and needs a TokenUtxoBalance    *)
(* for it (the balance holds SOL notes only).                              *)
StoreAppEncryptedError(r) ==
    CASE r.big         -> "MAX_STORAGE_MESSAGE_SIZE_EXCEEDED"
      [] r.storeShield ->
           ShieldError([token |-> StoreToken(r), sol |-> r.sol \/ r.noteSol,
                        spl |-> r.spl \/ r.noteSpl,
                        senderTokenAccount |-> r.senderTokenAccount])
      [] StoreToken(r) \notin Registered -> "TOKEN_NOT_FOUND"
      [] StoreToken(r) # "SOL"           -> "INSUFFICIENT_BAlANCE"
      [] OTHER                           -> "none"

(* executeAppUtxo: programParameters.verifierIdl is required, and only     *)
(* Action.TRANSFER is implemented; createTransferTransactionParameters     *)
(* then takes the token of inUtxos[0] and passes its other guards.         *)
ExecuteAppError(r) ==
    CASE ~r.idl        -> "APP_DATA_IDL_UNDEFINED"
      [] r.storeShield -> "Error"
      [] OTHER         -> "none"

\* The guards a call runs before its first await.
CreateError(r) ==
    CASE r.kind = "shield"    -> ShieldError(r)
      [] r.kind = "unshield"  -> UnshieldError(r)
      [] r.kind = "transfer"  -> TransferError(r)
      [] r.kind = "storeData" -> StoreDataError(r)
      [] r.kind = "storeAppUtxo" -> StoreAppError(r)
      [] OTHER                -> ExecuteAppError(r)

(***************************************************************************)
(* The utxos the parameters are built from, read from the balance: the     *)
(* token's utxos (merged in by a shield to self), none for a token without *)
(* a TokenUtxoBalance.                                                     *)
(***************************************************************************)
SelectInputs(r, spendable) ==
    IF Token(r) # "SOL" \/ (r.kind = "shield" /\ r.recipient) THEN {}
    ELSE spendable

(* storeData by transfer spends a single note: the first of the SOL utxos  *)
(* (Map order, not tracked here: any of them), else the first of all       *)
(* utxos after a sort; with none, FAILED_TO_SELECT_SOL_UTXO.               *)
(* executeAppUtxo spends the inUtxos its caller passes: a note the caller  *)
(* read from the balance.                                                  *)
SpendsOneNote(r) ==
    \/ r.kind = "storeData" /\ ~r.storeShield
    \/ r.kind = "executeAppUtxo"

InputChoices(r, spendable) ==
    IF SpendsOneNote(r) THEN {{n} : n \in spendable}
    ELSE {SelectInputs(r, spendable)}

\* With no note, storeData throws; executeAppUtxo's inUtxos is empty and
\* createTransferTransactionParameters reads inUtxos[0].assets.
BalanceError(r, spendable) ==
    CASE ~SpendsOneNote(r) \/ spendable # {} -> "none"
      [] r.kind = "storeData"                -> "FAILED_TO_SELECT_SOL_UTXO"
      [] OTHER                               -> "TypeError"

\* The awaits between reading the balance and returning the parameters:
\* only an unshield of SPL awaits getAccountInfo before it reads.
AwaitsAtaFirst(r) == r.kind = "unshield" /\ r.spl

-----------------------------------------------------------------------------
Init ==
    /\ recentTransactionParameters = None
    /\ recentTransaction = None
    /\ approved = FALSE
    /\ utxos = Notes
    /\ pc = [o \in Ops |-> "idle"]
    /\ req = [o \in Ops |-> CHOOSE r \in Requests : TRUE]
    /\ inputs = [o \in Ops |-> {}]
    /\ captured = [o \in Ops |-> None]
    /\ result = [o \in Ops |-> "none"]
    /\ accepted = {}
    /\ nullified = {}
    /\ queued = {}
    /\ splApproved = {}
    /\ staleSend = {}

Idle(o) == pc[o] = "idle"

\* A call ends by throwing: the User's fields keep whatever they hold.
Throw(o, code) ==
    /\ pc' = [pc EXCEPT ![o] = "done"]
    /\ result' = [result EXCEPT ![o] = code]

Goto(o, label) == pc' = [pc EXCEPT ![o] = label]

-----------------------------------------------------------------------------
(* shield / unshield / transfer: the call and its create*Parameters *)

\* The application calls shield, unshield or transfer.
OpStart(o, r) ==
    /\ Idle(o)
    /\ Sequential => \A p \in Ops : pc[p] \in {"idle", "done"}
    /\ req' = [req EXCEPT ![o] = r]
    /\ Goto(o, "create")
    /\ UNCHANGED <<userVars, inputs, captured, result, chainVars, splApproved,
                   staleSend>>

\* The create function reads the balance synchronously and awaits
\* getTxParams; storeData by transfer throws when it finds no note.
ReadBalance(o) ==
    IF BalanceError(req[o], utxos) # "none"
    THEN Throw(o, BalanceError(req[o], utxos)) /\ UNCHANGED inputs
    ELSE /\ \E ins \in InputChoices(req[o], utxos) :
              inputs' = [inputs EXCEPT ![o] = ins]
         /\ Goto(o, "createParams")
         /\ UNCHANGED result

\* The guards of the create function, then the balance read, unless an
\* unshield of SPL first awaits getAccountInfo(recipientSpl) or
\* storeAppUtxo awaits appUtxo.encrypt.
CreateCheck(o) ==
    /\ pc[o] = "create"
    /\ CASE CreateError(req[o]) # "none" ->
              Throw(o, CreateError(req[o])) /\ UNCHANGED inputs
         [] AwaitsAtaFirst(req[o]) ->
              Goto(o, "createAta") /\ UNCHANGED <<inputs, result>>
         [] req[o].kind = "storeAppUtxo" ->
              Goto(o, "createEncrypt") /\ UNCHANGED <<inputs, result>>
         [] OTHER -> ReadBalance(o)
    /\ UNCHANGED <<userVars, req, captured, chainVars, splApproved, staleSend>>

CreateAfterAta(o) ==
    /\ pc[o] = "createAta"
    /\ ReadBalance(o)
    /\ UNCHANGED <<userVars, req, captured, chainVars, splApproved, staleSend>>

\* storeAppUtxo after await appUtxo.encrypt: the message size, then the
\* guards and the balance read of the shield or transfer create function.
StoreEncrypted(o) ==
    /\ pc[o] = "createEncrypt"
    /\ IF StoreAppEncryptedError(req[o]) # "none"
       THEN Throw(o, StoreAppEncryptedError(req[o])) /\ UNCHANGED inputs
       ELSE ReadBalance(o)
    /\ UNCHANGED <<userVars, req, captured, chainVars, splApproved, staleSend>>

(***************************************************************************)
(* After await getTxParams: the create function stores the parameters in   *)
(* recentTransactionParameters and returns them.  A spend with no input to *)
(* pay from fails in getTxParams (outside this source tree).               *)
(***************************************************************************)
CreateDone(o) ==
    /\ pc[o] = "createParams"
    /\ IF Kind(req[o]) # "shield" /\ inputs[o] = {}
       THEN Throw(o, "GET_TX_PARAMS_FAILED")
            /\ UNCHANGED recentTransactionParameters
       ELSE /\ recentTransactionParameters' = o
            /\ Goto(o, "transact")
            /\ UNCHANGED result
    /\ UNCHANGED <<recentTransaction, approved, utxos, req, inputs, captured,
                   chainVars, splApproved, staleSend>>

-----------------------------------------------------------------------------
(* transactWithParameters *)

\* recentTransactionParameters = txParams, then compileAndProveTransaction
\* runs up to its await: its guard and new Transaction({params}).
TransactStart(o) ==
    /\ pc[o] = "transact"
    /\ recentTransactionParameters' = o
    /\ captured' = [captured EXCEPT ![o] = o]
    /\ Goto(o, "proving")
    /\ UNCHANGED <<recentTransaction, approved, utxos, req, inputs, result,
                   chainVars, splApproved, staleSend>>

\* await tx.compileAndProve(), then recentTransaction = tx.
\* Fault variant of ProveDone: a transaction already held is kept.
ProveDoneKeepCached(o) ==
    /\ pc[o] = "proving"
    /\ recentTransaction' =
         IF recentTransaction = None THEN captured[o] ELSE recentTransaction
    /\ Goto(o, "approve")
    /\ UNCHANGED <<recentTransactionParameters, approved, utxos, req, inputs,
                   captured, result, chainVars, splApproved, staleSend>>

ProveDone(o) ==
    /\ pc[o] = "proving"
    /\ recentTransaction' = captured[o]
    /\ Goto(o, "approve")
    /\ UNCHANGED <<recentTransactionParameters, approved, utxos, req, inputs,
                   captured, result, chainVars, splApproved, staleSend>>

(***************************************************************************)
(* approve(): reads recentTransactionParameters.  For a shield with an SPL *)
(* amount it awaits getAccountInfo(senderSpl); otherwise approved = true.  *)
(***************************************************************************)
ApproveStart(o) ==
    LET p == recentTransactionParameters IN
    /\ pc[o] = "approve"
    /\ CASE p = None ->
              Throw(o, "TRANSACTION_PARAMTERS_UNDEFINED")
              /\ UNCHANGED <<approved, captured>>
         [] IsSplShield(p) ->
              /\ captured' = [captured EXCEPT ![o] = p]
              /\ Goto(o, "approveAta")
              /\ UNCHANGED <<approved, result>>
         [] OTHER ->
              /\ approved' = TRUE
              /\ Goto(o, "approved")
              /\ UNCHANGED <<captured, result>>
    /\ UNCHANGED <<recentTransactionParameters, recentTransaction, utxos, req,
                   inputs, chainVars, splApproved, staleSend>>

\* After getAccountInfo: no token account throws; getAccount then reads
\* recentTransactionParameters again (a TypeError if it was reset).
ApproveAta(o) ==
    /\ pc[o] = "approveAta"
    /\ CASE ~req[captured[o]].ata ->
              Throw(o, "ASSOCIATED_TOKEN_ACCOUNT_DOESNT_EXIST")
              /\ UNCHANGED captured
         [] recentTransactionParameters = None ->
              Throw(o, "TypeError") /\ UNCHANGED captured
         [] OTHER ->
              /\ captured' = [captured EXCEPT ![o] = recentTransactionParameters]
              /\ Goto(o, "approveFunds")
              /\ UNCHANGED result
    /\ UNCHANGED <<userVars, req, inputs, chainVars, splApproved, staleSend>>

\* After getAccount: publicAmountSpl of recentTransactionParameters is
\* compared with the account's balance, then the approve instruction is
\* built from recentTransactionParameters and sent (getLatestBlockhash,
\* sendAndConfirmTransaction); any failure there is APPROVE_ERROR.
\* Fault variant of ApproveFunds: the approve instruction is built from the
\* parameters read before the await even when they have been reset.
ApproveFundsNoNoneCheck(o) ==
    LET p == recentTransactionParameters IN
    /\ pc[o] = "approveFunds"
    /\ IF p # None /\ SplAmount(req[p]) /\ ~req[p].splFunds
       THEN Throw(o, "INSUFFICIENT_BAlANCE") /\ UNCHANGED captured
       ELSE /\ captured' = [captured EXCEPT ![o] = p]
            /\ Goto(o, "approveSend")
            /\ UNCHANGED result
    /\ UNCHANGED <<userVars, req, inputs, chainVars, splApproved, staleSend>>

ApproveFunds(o) ==
    LET p == recentTransactionParameters IN
    /\ pc[o] = "approveFunds"
    /\ CASE p # None /\ SplAmount(req[p]) /\ ~req[p].splFunds ->
              Throw(o, "INSUFFICIENT_BAlANCE") /\ UNCHANGED captured
         [] p = None ->
              Throw(o, "APPROVE_ERROR") /\ UNCHANGED captured
         [] OTHER ->
              /\ captured' = [captured EXCEPT ![o] = p]
              /\ Goto(o, "approveSend")
              /\ UNCHANGED result
    /\ UNCHANGED <<userVars, req, inputs, chainVars, splApproved, staleSend>>

ApproveSent(o) ==
    /\ pc[o] = "approveSend"
    /\ \/ /\ approved' = TRUE
          /\ splApproved' = splApproved \cup {captured[o]}
          /\ Goto(o, "approved")
          /\ UNCHANGED result
       \/ /\ Throw(o, "APPROVE_ERROR")
          /\ UNCHANGED <<approved, splApproved>>
    /\ UNCHANGED <<recentTransactionParameters, recentTransaction, utxos, req,
                   inputs, captured, chainVars, staleSend>>

(***************************************************************************)
(* After await approve(): approved = true, then sendTransaction runs up to *)
(* its await: its three guards, then                                       *)
(* recentTransaction.sendAndConfirmTransaction().                          *)
(***************************************************************************)
TransactApproved(o) ==
    /\ pc[o] = "approved"
    /\ approved' = TRUE
    /\ CASE recentTransactionParameters = None ->
              Throw(o, "TRANSACTION_PARAMTERS_UNDEFINED") /\ UNCHANGED captured
         [] recentTransaction = None ->
              Throw(o, "TRANSACTION_UNDEFINED") /\ UNCHANGED captured
         [] OTHER ->
              /\ captured' = [captured EXCEPT ![o] = recentTransaction]
              /\ Goto(o, "sending")
              /\ UNCHANGED result
    /\ UNCHANGED <<recentTransactionParameters, recentTransaction, utxos, req,
                   inputs, chainVars, splApproved, staleSend>>

\* The chain accepts a transaction unless it was accepted before or one of
\* its inputs is already nullified.
Acceptable(t) == t \notin accepted /\ inputs[t] \cap nullified = {}

Accept(t) ==
    /\ accepted' = accepted \cup {t}
    /\ nullified' = nullified \cup inputs[t]
    /\ queued' = queued \cup {t}

\* The send is confirmed.  The finalized option fires updateMerkleTree
\* without awaiting it; spendable awaits it.
\* Fault variant of SendConfirmed: updateMerkleTree never awaited.
SendConfirmedNoAwait(o) ==
    /\ pc[o] = "sending"
    /\ Acceptable(captured[o])
    /\ Accept(captured[o])
    /\ Goto(o, "balance")
    /\ UNCHANGED <<userVars, req, inputs, captured, result, splApproved, staleSend>>

SendConfirmed(o) ==
    /\ pc[o] = "sending"
    /\ Acceptable(captured[o])
    /\ Accept(captured[o])
    /\ Goto(o, IF req[o].confirm = "spendable" THEN "updating" ELSE "balance")
    /\ UNCHANGED <<userVars, req, inputs, captured, result, splApproved, staleSend>>

\* The transaction is rejected: SEND_TRANSACTION_FAILED.
SendRejected(o) ==
    /\ pc[o] = "sending"
    /\ ~Acceptable(captured[o])
    /\ Throw(o, "SEND_TRANSACTION_FAILED")
    /\ staleSend' = staleSend \cup {o}
    /\ UNCHANGED <<userVars, req, inputs, captured, chainVars, splApproved>>

\* The transaction lands but its confirmation times out:
\* SEND_TRANSACTION_FAILED, with no getBalance and no resetTxState.
SendTimedOut(o) ==
    /\ pc[o] = "sending"
    /\ AllowTimeout
    /\ Acceptable(captured[o])
    /\ Accept(captured[o])
    /\ Throw(o, "SEND_TRANSACTION_FAILED")
    /\ UNCHANGED <<userVars, req, inputs, captured, splApproved, staleSend>>

\* The relayer's merkle tree update inserts every queued leaf: awaited by
\* the spendable option, fired and forgotten by the finalized one.
InsertQueued ==
    /\ queued # {}
    /\ queued' = {}
    /\ UNCHANGED <<userVars, opVars, accepted, nullified, splApproved, staleSend>>

\* Fault variant of TreeUpdated: waits until no leaf is queued at all.
TreeUpdatedWaitEmpty(o) ==
    /\ pc[o] = "updating"
    /\ queued = {}
    /\ Goto(o, "balance")
    /\ UNCHANGED <<userVars, req, inputs, captured, result, chainVars,
                   splApproved, staleSend>>

TreeUpdated(o) ==
    /\ pc[o] = "updating"
    /\ queued' = {}
    /\ Goto(o, "balance")
    /\ UNCHANGED <<userVars, req, inputs, captured, result, accepted, nullified,
                   splApproved, staleSend>>

\* The notes getBalance leaves in utxos: the account's notes whose leaves
\* are inserted and whose nullifier does not exist.
Spendable ==
    {n \in Notes \cup {t \in accepted : OwnsOutput(t)} : n \notin queued}
        \ nullified

\* await getBalance(), then resetTxState().
BalanceDone(o) ==
    /\ pc[o] = "balance"
    /\ utxos' = Spendable
    /\ recentTransaction' = None
    /\ recentTransactionParameters' = None
    /\ approved' = FALSE
    /\ pc' = [pc EXCEPT ![o] = "done"]
    /\ result' = [result EXCEPT ![o] = "ok"]
    /\ UNCHANGED <<req, inputs, captured, chainVars, splApproved, staleSend>>

\* Every call has returned and the relayer has nothing left to insert.
Terminated ==
    /\ \A o \in Ops : pc[o] = "done"
    /\ queued = {}
    /\ UNCHANGED vars

Step(o) ==
    \/ CreateCheck(o) \/ CreateAfterAta(o) \/ StoreEncrypted(o) \/ CreateDone(o)
    \/ TransactStart(o) \/ ProveDone(o)
    \/ ApproveStart(o) \/ ApproveAta(o) \/ ApproveFunds(o) \/ ApproveSent(o)
    \/ TransactApproved(o)
    \/ SendConfirmed(o) \/ SendRejected(o) \/ SendTimedOut(o)
    \/ TreeUpdated(o) \/ BalanceDone(o)

Next ==
    \/ \E o \in Ops, r \in Requests : OpStart(o, r)
    \/ \E o \in Ops : Step(o)
    \/ InsertQueued
    \/ Terminated

(* Every awaited RPC call resolves or rejects. *)
Fairness == \A o \in Ops : WF_vars(Step(o))

Spec == Init /\ [][Next]_vars /\ Fairness

-----------------------------------------------------------------------------
Results == {"none", "ok", "INVALID_TOKEN", "NO_PUBLIC_AMOUNTS_PROVIDED",
            "TOKEN_NOT_FOUND", "TOKEN_ACCOUNT_DEFINED", "SOL_RECIPIENT_UNDEFINED",
            "SPL_RECIPIENT_UNDEFINED", "SHIELDED_RECIPIENT_UNDEFINED",
            "NO_AMOUNTS_PROVIDED", "INSUFFICIENT_BAlANCE", "GET_TX_PARAMS_FAILED",
            "TRANSACTION_PARAMTERS_UNDEFINED", "TRANSACTION_UNDEFINED",
            "ASSOCIATED_TOKEN_ACCOUNT_DOESNT_EXIST", "TypeError",
            "APPROVE_ERROR", "SEND_TRANSACTION_FAILED",
            "MAX_STORAGE_MESSAGE_SIZE_EXCEEDED", "FAILED_TO_SELECT_SOL_UTXO",
            "TOKEN_UNDEFINED", "PUBLIC_SOL_AMOUNT_UNDEFINED",
            "PUBLIC_SPL_AMOUNT_UNDEFINED", "APP_UTXO_UNDEFINED",
            "APP_DATA_IDL_UNDEFINED", "Error"}

TypeOK ==
    /\ recentTransactionParameters \in Ops \cup {None}
    /\ recentTransaction \in Ops \cup {None}
    /\ approved \in BOOLEAN
    /\ utxos \subseteq AllNotes
    /\ pc \in [Ops -> {"idle", "create", "createAta", "createEncrypt", "createParams", "transact",
                       "proving", "approve", "approveAta", "approveFunds",
                       "approveSend", "approved", "sending", "updating",
                       "balance", "done"}]
    /\ req \in [Ops -> Requests]
    /\ inputs \in [Ops -> SUBSET AllNotes]
    /\ captured \in [Ops -> Ops \cup {None}]
    /\ result \in [Ops -> Results]
    /\ accepted \subseteq Ops
    /\ nullified \subseteq AllNotes
    /\ queued \subseteq accepted
    /\ splApproved \subseteq Ops
    /\ staleSend \subseteq Ops

-----------------------------------------------------------------------------
(***************************************************************************)
(* Properties                                                              *)
(***************************************************************************)

(* A call of shield, unshield or transfer that returns normally had its    *)
(* own transaction accepted by the chain.  transactWithParameters sends    *)
(* recentTransaction, which it expects to have been compiled from the      *)
(* parameters it has just stored in recentTransactionParameters.           *)
OwnTransactionAccepted ==
    \A o \in Ops : result[o] = "ok" => o \in accepted

(* sendTransaction refuses a shield until approved is set, so that the     *)
(* relayer may move the SPL amount: no transaction of a shield with an     *)
(* SPL amount is ever sent unless an approve instruction for those very    *)
(* parameters was confirmed.  With one call at a time this is the SPL      *)
(* branch of approve; with calls in flight together it fails (README,      *)
(* Findings not checked by a run).                                         *)
SplShieldSentOnlyApproved ==
    [][\A o \in Ops :
         (pc[o] = "approved" /\ pc'[o] = "sending" /\ IsSplShield(captured'[o]))
            => captured'[o] \in splApproved]_vars

(* A call made with confirmOptions spendable returns only once its output  *)
(* can be spent: from then on the output note is in utxos until a later    *)
(* transaction spends it.  This rests on awaiting updateMerkleTree before  *)
(* getBalance.                                                             *)
SpendableOutputUsable ==
    \A o \in Ops :
        (result[o] = "ok" /\ req[o].confirm = "spendable" /\ OwnsOutput(o))
            => o \in utxos \/ o \in nullified

(* No transaction is rejected for spending a note that is already spent:   *)
(* the inputs chosen from balance.utxos are unspent on chain.              *)
NoStaleInputs == staleSend = {}

(* Every call of shield, unshield or transfer returns, normally or by an   *)
(* exception.                                                              *)
CallsReturn == \A o \in Ops : pc[o] \notin {"idle", "done"} ~> pc[o] = "done"

=============================================================================
