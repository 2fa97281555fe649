----------------------------- MODULE SyncState -----------------------------
(***************************************************************************)
(* The wallet's state synchronizer: User.syncState (wallet/user.ts) and    *)
(* decryptAddUtxoToBalance (wallet/buildBalance.ts), run against the chain *)
(* and the relayer's transaction log.                                      *)
(*                                                                         *)
(* One Balance (its tokenBalances map and totalSolBalance) is shared by    *)
(* every call of syncState the application makes: getBalance, the         *)
(* getBalance at the end of transactWithParameters, getTransactionHistory. *)
(* Nothing serialises these calls, so each element of Syncs is one         *)
(* invocation of syncState, an async function whose awaits are the steps   *)
(* below.  Between two steps of one invocation the other invocations and   *)
(* the chain may move.                                                     *)
(*                                                                         *)
(* The chain is the environment.  Txs lists the transactions in the order  *)
(* they execute; each emits a pair of leaves (left, right).  Executing one *)
(* appends it to the relayer's log and queues its leaves (a queued-leaves  *)
(* account exists for its left leaf); the relayer's merkle tree update     *)
(* inserts queued leaves in log order; an inserted note of this account    *)
(* may be spent at any time (by this user or another session holding the  *)
(* same keys), which creates its nullifier account.                        *)
(***************************************************************************)
EXTENDS Naturals, Sequences, FiniteSets, TLC
LOCAL INSTANCE FiniteSetsExt

CONSTANTS
    Notes,        \* commitments of the notes this account can decrypt
    Foreign,      \* a leaf this account cannot decrypt
    Amounts,      \* Amounts[c] = [sol |-> amounts[0], spl |-> amounts[1]]
    SplAsset,     \* SplAsset[c] = assets[1] of note c
    AppNotes,     \* notes with a verifier address or app data hash
    SOL, USDC,    \* mints with a fixed place in the code
    Txs,          \* Txs[i] = <<left leaf, right leaf>> of the i-th transaction
    Syncs,        \* concurrent invocations of syncState
    MaxSyncRuns   \* how often each invocation may be started

TB == INSTANCE TokenUtxoBalance

VARIABLES
    \* chain and relayer
    logLen,        \* number of transactions in the relayer's log
    txState,       \* txState[i]: "pending", "queued" or "inserted"
    nullified,     \* notes whose nullifier account exists
    \* the Balance object
    tokenBalances, \* balance.tokenBalances: mint -> TokenUtxoBalance
    totalSolBalance,
    \* the locals of each syncState invocation
    pc,
    visited,       \* keys of utxos the first loop has already visited
    cur,           \* the commitment of the first loop's current entry
    nfRead,        \* result of the last fetchNullifierAccountInfo
    qRead,         \* result of the last fetchQueuedLeavesAccountInfo
    snap,          \* length of the log returned by getIndexedTransactions
    leaf,          \* position of the current leaf in the fetched log
    \* history
    runs,          \* number of times each invocation has been started
    result,        \* how the last run ended: "none", "ok" or "error"
    moved          \* the chain changed since the invocation last started

chainVars == <<logLen, txState, nullified>>
balanceVars == <<tokenBalances, totalSolBalance>>
localVars == <<pc, visited, cur, nfRead, qRead, snap, leaf>>
historyVars == <<runs, result, moved>>
vars == <<chainVars, balanceVars, localVars, historyVars>>

Leaves == Notes \cup {Foreign}
TxIds == 1..Len(Txs)
LeafPositions == 1..2 * Len(Txs)

\* The k-th leaf of the log: leaves come in pairs, left first.
LeafAt(k) == Txs[(k + 1) \div 2][2 - (k % 2)]
TxOfLeaf(k) == (k + 1) \div 2
TxOf(c) == CHOOSE i \in TxIds : c \in {Txs[i][1], Txs[i][2]}

\* assetIndex and the map key a decrypted note is filed under.
AssetIndex(c) == IF Amounts[c].spl # 0 THEN 1 ELSE 0
AssetKey(c) == IF AssetIndex(c) = 1 THEN SplAsset[c] ELSE SOL

\* amountsValid and "is not an app utxo".
Trackable(c) ==
    /\ Amounts[c].sol # 0 \/ Amounts[c].spl # 0
    /\ c \notin AppNotes

\* The utxoType ternary: a queued leaf wins over an existing nullifier.
\* Fault variant of UtxoType: the queued-leaves result ignored.
UtxoTypeNoQueue(queued, nfExists) ==
    IF nfExists THEN "spentUtxos" ELSE "utxos"

UtxoType(queued, nfExists) ==
    IF queued THEN "committedUtxos"
    ELSE IF nfExists THEN "spentUtxos"
    ELSE "utxos"

\* calaculateTotalSolBalance
TotalSol(tbs) == MapThenSumSet(LAMBDA a : tbs[a].totalBalanceSol, DOMAIN tbs)

\* Every commitment currently in some utxos map.
SpendableKeys == UNION {tokenBalances[a].utxos : a \in DOMAIN tokenBalances}

(***************************************************************************)
(* decryptAddUtxoToBalance after its awaits: files a decrypted note.  If   *)
(* the note has an SPL amount and no TokenUtxoBalance exists for its mint, *)
(* a fresh USDC TokenUtxoBalance is stored under the USDC mint, whatever   *)
(* the note's mint is, replacing any USDC balance already there; the note  *)
(* is then added under its own mint only if a balance exists for it.      *)
(***************************************************************************)
AddDecryptedUtxo(tbs, c, queued, nfExists) ==
    LET created == IF AssetIndex(c) = 1 /\ SplAsset[c] \notin DOMAIN tbs
                   THEN [a \in DOMAIN tbs \cup {USDC} |->
                           IF a = USDC THEN TB!EmptyTokenUtxoBalance ELSE tbs[a]]
                   ELSE tbs
        key == AssetKey(c)
    IN  IF ~Trackable(c) THEN tbs
        ELSE IF key \notin DOMAIN created THEN created
        ELSE [created EXCEPT ![key] = TB!AddUtxo(@, c, UtxoType(queued, nfExists))]

-----------------------------------------------------------------------------
Init ==
    /\ logLen = 0
    /\ txState = [i \in TxIds |-> "pending"]
    /\ nullified = {}
    /\ tokenBalances = (SOL :> TB!EmptyTokenUtxoBalance)
    /\ totalSolBalance = 0
    /\ pc = [s \in Syncs |-> "idle"]
    /\ visited = [s \in Syncs |-> {}]
    /\ cur = [s \in Syncs |-> Foreign]
    /\ nfRead = [s \in Syncs |-> FALSE]
    /\ qRead = [s \in Syncs |-> FALSE]
    /\ snap = [s \in Syncs |-> 0]
    /\ leaf = [s \in Syncs |-> 1]
    /\ runs = [s \in Syncs |-> 0]
    /\ result = [s \in Syncs |-> "none"]
    /\ moved = [s \in Syncs |-> FALSE]

\* Every chain step is recorded in moved.
ChainStep == moved' = [s \in Syncs |-> TRUE]

\* A transaction executes and the relayer indexes it.
ExecuteTx ==
    /\ logLen < Len(Txs)
    /\ logLen' = logLen + 1
    /\ txState' = [txState EXCEPT ![logLen + 1] = "queued"]
    /\ ChainStep
    /\ UNCHANGED <<nullified, balanceVars, localVars, runs, result>>

\* The merkle tree update inserts the oldest queued pair of leaves.
InsertLeaves ==
    \E i \in TxIds :
        /\ txState[i] = "queued"
        /\ \A j \in 1..(i - 1) : txState[j] = "inserted"
        /\ txState' = [txState EXCEPT ![i] = "inserted"]
        /\ ChainStep
        /\ UNCHANGED <<logLen, nullified, balanceVars, localVars, runs, result>>

\* An inserted note is spent: its nullifier account is created.
SpendNote(c) ==
    /\ txState[TxOf(c)] = "inserted"
    /\ c \notin nullified
    /\ nullified' = nullified \cup {c}
    /\ ChainStep
    /\ UNCHANGED <<logLen, txState, balanceVars, localVars, runs, result>>

-----------------------------------------------------------------------------
(* syncState(aes, balance, merkleTreePdaPublicKey) *)

StartSync(s) ==
    /\ pc[s] = "idle"
    /\ runs[s] < MaxSyncRuns
    /\ pc' = [pc EXCEPT ![s] = "firstPass"]
    /\ visited' = [visited EXCEPT ![s] = {}]
    /\ runs' = [runs EXCEPT ![s] = @ + 1]
    /\ result' = [result EXCEPT ![s] = "none"]
    /\ moved' = [moved EXCEPT ![s] = FALSE]
    /\ UNCHANGED <<chainVars, balanceVars, cur, nfRead, qRead, snap, leaf>>

\* The "identify spent utxos" loop takes the next entry of a utxos map and
\* awaits fetchNullifierAccountInfo for it.
\* Fault variant of FirstPassFetch: the loop does not advance past the
\* entries it has seen.
FirstPassFetchNoVisit(s) ==
    /\ pc[s] = "firstPass"
    /\ \E c \in SpendableKeys \ visited[s] :
        /\ cur' = [cur EXCEPT ![s] = c]
        /\ nfRead' = [nfRead EXCEPT ![s] = c \in nullified]
        /\ UNCHANGED visited
    /\ pc' = [pc EXCEPT ![s] = "firstPassResume"]
    /\ UNCHANGED <<chainVars, balanceVars, qRead, snap, leaf, historyVars>>

FirstPassFetch(s) ==
    /\ pc[s] = "firstPass"
    /\ \E c \in SpendableKeys \ visited[s] :
        /\ cur' = [cur EXCEPT ![s] = c]
        /\ nfRead' = [nfRead EXCEPT ![s] = c \in nullified]
        /\ visited' = [visited EXCEPT ![s] = @ \cup {c}]
    /\ pc' = [pc EXCEPT ![s] = "firstPassResume"]
    /\ UNCHANGED <<chainVars, balanceVars, qRead, snap, leaf, historyVars>>

\* After the await: an existing nullifier moves the entry to spentUtxos;
\* moveToSpentUtxos throws if the entry has left utxos meanwhile, and the
\* exception ends syncState.
FirstPassResume(s) ==
    LET key == AssetKey(cur[s]) IN
    /\ pc[s] = "firstPassResume"
    /\ IF ~nfRead[s]
       THEN /\ pc' = [pc EXCEPT ![s] = "firstPass"]
            /\ UNCHANGED <<tokenBalances, result>>
       ELSE IF TB!CanMoveToSpent(tokenBalances[key], cur[s])
       THEN /\ tokenBalances' =
                 [tokenBalances EXCEPT ![key] = TB!MoveToSpentUtxos(@, cur[s])]
            /\ pc' = [pc EXCEPT ![s] = "firstPass"]
            /\ UNCHANGED result
       ELSE /\ pc' = [pc EXCEPT ![s] = "idle"]
            /\ result' = [result EXCEPT ![s] = "error"]
            /\ UNCHANGED tokenBalances
    /\ UNCHANGED <<chainVars, totalSolBalance, visited, cur, nfRead, qRead,
                   snap, leaf, runs, moved>>

\* The loop is over when every entry has been visited; syncState then
\* awaits relayer.getIndexedTransactions.
FetchLog(s) ==
    /\ pc[s] = "firstPass"
    /\ SpendableKeys \subseteq visited[s]
    /\ snap' = [snap EXCEPT ![s] = logLen]
    /\ leaf' = [leaf EXCEPT ![s] = 1]
    /\ pc' = [pc EXCEPT ![s] = "walk"]
    /\ UNCHANGED <<chainVars, balanceVars, visited, cur, nfRead, qRead, historyVars>>

InWalk(s) == pc[s] = "walk" /\ leaf[s] <= 2 * snap[s]

\* Utxo.decrypt fails on a leaf of another account: nothing is added.
WalkSkipForeign(s) ==
    /\ InWalk(s)
    /\ LeafAt(leaf[s]) \notin Notes
    /\ leaf' = [leaf EXCEPT ![s] = @ + 1]
    /\ UNCHANGED <<chainVars, balanceVars, pc, visited, cur, nfRead, qRead, snap,
                   historyVars>>

\* The leaf decrypts; await fetchNullifierAccountInfo(nullifier).
WalkFetchNullifier(s) ==
    /\ InWalk(s)
    /\ LeafAt(leaf[s]) \in Notes
    /\ nfRead' = [nfRead EXCEPT ![s] = LeafAt(leaf[s]) \in nullified]
    /\ pc' = [pc EXCEPT ![s] = "walkQueued"]
    /\ UNCHANGED <<chainVars, balanceVars, visited, cur, qRead, snap, leaf,
                   historyVars>>

\* await fetchQueuedLeavesAccountInfo(leftLeaf), for either leaf of a pair.
WalkFetchQueued(s) ==
    /\ pc[s] = "walkQueued"
    /\ qRead' = [qRead EXCEPT ![s] = txState[TxOfLeaf(leaf[s])] = "queued"]
    /\ pc' = [pc EXCEPT ![s] = "walkAdd"]
    /\ UNCHANGED <<chainVars, balanceVars, visited, cur, nfRead, snap, leaf,
                   historyVars>>

\* The rest of decryptAddUtxoToBalance runs without an await.
WalkAdd(s) ==
    /\ pc[s] = "walkAdd"
    /\ tokenBalances' =
         AddDecryptedUtxo(tokenBalances, LeafAt(leaf[s]), qRead[s], nfRead[s])
    /\ leaf' = [leaf EXCEPT ![s] = @ + 1]
    /\ pc' = [pc EXCEPT ![s] = "walk"]
    /\ UNCHANGED <<chainVars, totalSolBalance, visited, cur, nfRead, qRead, snap,
                   historyVars>>

\* After the log: balance.totalSolBalance = calaculateTotalSolBalance(balance).
WalkEnd(s) ==
    /\ pc[s] = "walk"
    /\ leaf[s] > 2 * snap[s]
    /\ totalSolBalance' = TotalSol(tokenBalances)
    /\ pc' = [pc EXCEPT ![s] = "idle"]
    /\ result' = [result EXCEPT ![s] = "ok"]
    /\ UNCHANGED <<chainVars, tokenBalances, visited, cur, nfRead, qRead, snap,
                   leaf, runs, moved>>

SyncStep(s) ==
    \/ FirstPassFetch(s)
    \/ FirstPassResume(s)
    \/ FetchLog(s)
    \/ WalkSkipForeign(s)
    \/ WalkFetchNullifier(s)
    \/ WalkFetchQueued(s)
    \/ WalkAdd(s)
    \/ WalkEnd(s)

\* Nothing is left to happen: every invocation has run its last time and
\* every note of the chain is spent.
Terminated ==
    /\ \A s \in Syncs : pc[s] = "idle" /\ runs[s] = MaxSyncRuns
    /\ logLen = Len(Txs)
    /\ \A i \in TxIds : txState[i] = "inserted"
    /\ nullified = Notes
    /\ UNCHANGED vars

Next ==
    \/ ExecuteTx
    \/ InsertLeaves
    \/ \E c \in Notes : SpendNote(c)
    \/ \E s \in Syncs : StartSync(s) \/ SyncStep(s)
    \/ Terminated

(* Every awaited RPC call eventually returns, so a started invocation keeps *)
(* taking steps; neither the chain nor the application is obliged to act.  *)
Fairness == \A s \in Syncs : WF_vars(SyncStep(s))

Spec == Init /\ [][Next]_vars /\ Fairness

-----------------------------------------------------------------------------
TypeOK ==
    /\ logLen \in 0..Len(Txs)
    /\ txState \in [TxIds -> {"pending", "queued", "inserted"}]
    /\ nullified \subseteq Notes
    /\ DOMAIN tokenBalances \subseteq {SOL, USDC} \cup {SplAsset[c] : c \in Notes}
    /\ \A a \in DOMAIN tokenBalances : tokenBalances[a] \in TB!TokenUtxoBalanceType
    /\ totalSolBalance \in Nat
    /\ pc \in [Syncs -> {"idle", "firstPass", "firstPassResume", "walk",
                         "walkQueued", "walkAdd"}]
    /\ visited \in [Syncs -> SUBSET Notes]
    /\ cur \in [Syncs -> Leaves]
    /\ nfRead \in [Syncs -> BOOLEAN]
    /\ qRead \in [Syncs -> BOOLEAN]
    /\ snap \in [Syncs -> 0..Len(Txs)]
    /\ leaf \in [Syncs -> 1..(2 * Len(Txs) + 1)]
    /\ runs \in [Syncs -> 0..MaxSyncRuns]
    /\ result \in [Syncs -> {"none", "ok", "error"}]
    /\ moved \in [Syncs -> BOOLEAN]

-----------------------------------------------------------------------------
(***************************************************************************)
(* Properties                                                              *)
(***************************************************************************)
Logged(c) == TxOf(c) <= logLen

(* Balance conservation: in every TokenUtxoBalance the running totals      *)
(* kept by addUtxo and moveToSpentUtxos equal the sums over its utxos,     *)
(* however the invocations of syncState and the chain interleave.          *)
BalanceConservation ==
    \A a \in DOMAIN tokenBalances : TB!Conserved(tokenBalances[a])

(* What userTestAssertHelper.assertBalance checks after getBalance, in the *)
(* form that holds whatever the chain does later: a note is in utxos only  *)
(* if its leaves are inserted, in spentUtxos only if its nullifier exists, *)
(* in committedUtxos only if its transaction is in the log.  It rests on   *)
(* the order of the utxoType ternary and on the fetches preceding addUtxo. *)
FiledUnderChainState ==
    \A a \in DOMAIN tokenBalances :
        /\ \A c \in tokenBalances[a].utxos : txState[TxOf(c)] = "inserted"
        /\ tokenBalances[a].spentUtxos \subseteq nullified
        /\ \A c \in tokenBalances[a].committedUtxos : Logged(c)

(* The balance agrees with the chain.  For every note of the log that      *)
(* syncState tracks: it is filed under its mint; it is in utxos exactly    *)
(* when inserted and unspent, in spentUtxos exactly when spent, and in     *)
(* committedUtxos while queued; totalSolBalance is the sum of the SOL      *)
(* totals.  Conversely, a committedUtxos entry is a note still queued, or  *)
(* one spent since: addUtxo removes an entry only when it files the note   *)
(* under utxos (buildBalance.ts 255-262), so a note queued at one sync and  *)
(* spent by the next stays there.  assertBalance (userTestAssertHelper.ts  *)
(* 422-433) asserts the stronger "still queued and unspent", which the     *)
(* code does not keep: sync_exclusive shows that state.                    *)
MatchesChain ==
    /\ totalSolBalance = TotalSol(tokenBalances)
    /\ \A c \in Notes :
        Trackable(c) /\ Logged(c) =>
            /\ AssetKey(c) \in DOMAIN tokenBalances
            /\ LET tb == tokenBalances[AssetKey(c)] IN
               /\ c \in tb.utxos <=>
                    txState[TxOf(c)] = "inserted" /\ c \notin nullified
               /\ c \in tb.spentUtxos <=> c \in nullified
               /\ txState[TxOf(c)] = "queued" => c \in tb.committedUtxos
               /\ c \in tb.committedUtxos =>
                    txState[TxOf(c)] = "queued" \/ c \in nullified

ClassificationExclusive ==
    \A a \in DOMAIN tokenBalances :
        LET tb == tokenBalances[a] IN
        /\ tb.utxos \cap tb.committedUtxos = {}
        /\ tb.utxos \cap tb.spentUtxos = {}
        /\ tb.committedUtxos \cap tb.spentUtxos = {}

(* syncState never fails: moveToSpentUtxos is only called on a commitment  *)
(* that is in utxos (spec section 7: a failure here is a broken invariant  *)
(* of the synchronizer).                                                   *)
NoSyncFailure == \A s \in Syncs : result[s] # "error"

(* Every started syncState returns, normally or by an exception.           *)
SyncTerminates == \A s \in Syncs : pc[s] # "idle" ~> pc[s] = "idle"


(***************************************************************************)
(* Refinement: one syncState at a time implements BalanceView.  The chain  *)
(* is seen through the log, the tree and the nullifier accounts; the books *)
(* are balance.tokenBalances.  Every step of the synchronizer is a step of *)
(* the abstract Balance or none: the reads before each await are stale by  *)
(* the time addUtxo or moveToSpentUtxos runs, and only the chain's growing *)
(* monotonically makes them safe to act on.                                *)
(***************************************************************************)
BV == INSTANCE BalanceView WITH
    published <- {c \in Notes : Logged(c)},
    confirmed <- {c \in Notes : txState[TxOf(c)] = "inserted"},
    books     <- tokenBalances,
    totalSol  <- totalSolBalance,
    KeyOf     <- [c \in Notes |-> AssetKey(c)],
    Tracked   <- {c \in Notes : Trackable(c)},
    Native    <- SOL

(* The Balance that syncState builds behaves as BalanceView allows: a note *)
(* is filed only in a class the chain supported, a spent note is never     *)
(* filed as spendable again, a spendable note leaves utxos only once its   *)
(* nullifier exists, no book is replaced, and the totals track the sums    *)
(* (decryptAddUtxoToBalance, addUtxo, moveToSpentUtxos, calaculate-       *)
(* TotalSolBalance).                                                       *)
BalanceViewRefined == BV!Spec

=============================================================================
