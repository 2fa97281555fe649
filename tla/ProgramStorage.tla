---------------------------- MODULE ProgramStorage ----------------------------
(***************************************************************************)
(* App-utxo storage of the wallet: User.syncStorage (wallet/user.ts), the *)
(* ProgramUtxoBalance class it files notes into (wallet/buildBalance.ts),  *)
(* and the two readers of what it builds, getProgramUtxos and getUtxo.     *)
(*                                                                         *)
(* syncStorage fetches the relayer's log, keeps the transactions with a    *)
(* non-empty message, and tries to decrypt that message against every     *)
(* leaf of each of them (one await per leaf).  A decrypted note is looked  *)
(* up on chain by its nullifier, which depends on the leaf index the note  *)
(* was decrypted with; it is then filed under "utxos" or "spentUtxos" of   *)
(* the ProgramUtxoBalance of its verifier.  A last pass re-reads the       *)
(* nullifier of every note in "utxos" and moves the spent ones.            *)
(*                                                                         *)
(* Utxo.decrypt is not part of this repository: its result for a leaf is   *)
(* the constant Outcome, one of "utxo" (a note of this account), "null"    *)
(* (not addressed to it), "invalidIdl" (UtxoError INVALID_APP_DATA_IDL,    *)
(* caught) and "error" (any other exception, rethrown).  The chain is the  *)
(* environment: it appends the next transaction of Log to the relayer's    *)
(* log and creates the nullifier account of a note at any time.            *)
(*                                                                         *)
(* One invocation runs at a time (the application awaits each call); the   *)
(* balance and storedIndex persist from one invocation to the next.       *)
(***************************************************************************)
EXTENDS Naturals, Sequences, FiniteSets, TLC
LOCAL INSTANCE FiniteSetsExt
LOCAL INSTANCE Functions

CONSTANTS
    Log,          \* Log[i] = [leaves |-> <<commitments>>, message |-> non-empty?]
    Outcome,      \* Outcome[l]: what Utxo.decrypt does with the message and leaf l
    Notes,        \* the leaves whose Outcome is "utxo"
    Amounts,      \* Amounts[c] = [sol |-> amounts[0], spl |-> amounts[1]]
    SplAsset,     \* SplAsset[c] = assets[1] of note c
    NoteProgram,  \* NoteProgram[c] = verifierAddress of note c
    SOL,          \* new PublicKey(0).toBase58()
    KnownTokens,  \* the keys of TOKEN_PUBKEY_SYMBOL
    MaxSyncRuns   \* how often syncStorage may be called

TB == INSTANCE TokenUtxoBalance

VARIABLES
    \* chain and relayer
    logLen,          \* number of transactions in the relayer's log
    nullified,       \* notes whose nullifier (at their own leaf index) exists
    \* the User object
    aesSecret,       \* account.aesSecret is set
    programBalances, \* balance.programBalances: verifier -> (asset -> TokenUtxoBalance)
    storedIndex,     \* the index of the Utxo object stored under a commitment
    \* the locals of syncStorage
    pc, snap, ti, li, index, decrypted, spent, pending,
    \* history
    runs, result, moved

chainVars == <<logLen, nullified>>
localVars == <<snap, ti, li, index, decrypted, spent, pending>>
vars == <<chainVars, aesSecret, programBalances, storedIndex, pc, localVars,
          runs, result, moved>>

(* The relayer numbers leaves consecutively over the log: firstLeafIndex   *)
(* of transaction i, and the index a note really has.                      *)
FirstLeafIndex(i) == MapThenSumSet(LAMBDA j : Len(Log[j].leaves), 1..(i - 1))
LeafPos(c) == CHOOSE p \in (DOMAIN Log) \X (1..2) :
                  p[2] <= Len(Log[p[1]].leaves) /\ Log[p[1]].leaves[p[2]] = c
TrueIndex(c) == FirstLeafIndex(LeafPos(c)[1]) + LeafPos(c)[2] - 1

(* fetchNullifierAccountInfo(utxo.getNullifier()): the nullifier hashes    *)
(* the commitment with the index of the Utxo object, so only a note that   *)
(* carries its real index finds its nullifier account.                     *)
NullifierExists(c, i) == c \in nullified /\ i = TrueIndex(c)

(* ProgramUtxoBalance.addUtxo: the note is filed under the SOL key when   *)
(* its SPL amount is "0", else under assets[1]; a missing token balance   *)
(* is created only for a token of TOKEN_PUBKEY_SYMBOL (TOKEN_NOT_FOUND     *)
(* otherwise); then TokenUtxoBalance.addUtxo.                              *)
UtxoAsset(c) == IF Amounts[c].spl = 0 THEN SOL ELSE SplAsset[c]

ProgramAddUtxo(tbs, p, c, attribute) ==
    LET a    == UtxoAsset(c)
        tbs1 == IF a \in DOMAIN tbs THEN tbs
                ELSE tbs @@ (a :> TB!EmptyTokenUtxoBalance)
    IN  IF NoteProgram[c] # p \/ (a \notin DOMAIN tbs /\ a \notin KnownTokens)
        THEN [ok |-> FALSE, tbs |-> tbs]
        ELSE [ok |-> TRUE, tbs |-> [tbs1 EXCEPT ![a] = TB!AddUtxo(@, c, attribute)]]

(* The filing loops of syncStorage: for each decrypted note, create the   *)
(* ProgramUtxoBalance of its verifier if missing, then addUtxo, which     *)
(* stores the new Utxo object (and so its index).  An exception ends the  *)
(* loop with the earlier notes filed.                                      *)
RECURSIVE AddAll(_, _, _)
AddAll(pb, si, items) ==
    IF items = <<>> THEN [ok |-> TRUE, pb |-> pb, si |-> si]
    ELSE LET it  == Head(items)
             p   == NoteProgram[it.c]
             pb1 == IF p \in DOMAIN pb THEN pb ELSE pb @@ (p :> <<>>)
             r   == ProgramAddUtxo(pb1[p], p, it.c, it.attribute)
         IN  IF ~r.ok THEN [ok |-> FALSE, pb |-> pb1, si |-> si]
             ELSE AddAll([pb1 EXCEPT ![p] = r.tbs], (it.c :> it.i) @@ si, Tail(items))

\* The token balances of every program, and the notes the last pass visits.
AllTokenBalances(pb) == UNION {{pb[p][a] : a \in DOMAIN pb[p]} : p \in DOMAIN pb}
UtxoEntries(pb) ==
    UNION {UNION {{<<p, a, c>> : c \in pb[p][a].utxos} : a \in DOMAIN pb[p]} :
           p \in DOMAIN pb}

(* getProgramUtxos (latestBalance false): the notes in "utxos" of every   *)
(* token balance of the program.                                           *)
ProgramUtxoArray(p) ==
    IF p \in DOMAIN programBalances
    THEN UNION {programBalances[p][a].utxos : a \in DOMAIN programBalances[p]}
    ELSE {}

(* getUtxo: the status of the first token balance holding the commitment, *)
(* looking at utxos, then spentUtxos, then committedUtxos.  A note is      *)
(* filed under one program and one asset only, so the order of the token   *)
(* balances does not matter.                                               *)
GetUtxoStatus(c) ==
    LET tbs == AllTokenBalances(programBalances) IN
    CASE \E tb \in tbs : c \in tb.utxos          -> "ready"
      [] \E tb \in tbs : c \in tb.spentUtxos     -> "spent"
      [] \E tb \in tbs : c \in tb.committedUtxos -> "committed"
      [] OTHER                                   -> "none"

HasMessage(i) == Log[i].message

-----------------------------------------------------------------------------
Init ==
    /\ logLen = 0
    /\ nullified = {}
    /\ aesSecret \in BOOLEAN
    /\ programBalances = <<>>
    /\ storedIndex = <<>>
    /\ pc = "idle"
    /\ snap = <<>> /\ ti = 1 /\ li = 1 /\ index = 0
    /\ decrypted = <<>> /\ spent = <<>> /\ pending = {}
    /\ runs = 0 /\ result = "none" /\ moved = FALSE

(* The chain executes the next transaction of Log; the relayer indexes it. *)
AppendTx ==
    /\ logLen < Len(Log)
    /\ logLen' = logLen + 1
    /\ moved' = TRUE
    /\ UNCHANGED <<nullified, aesSecret, programBalances, storedIndex, pc,
                   localVars, runs, result>>

(* A note of an indexed transaction is spent, by this or another session. *)
Nullify(c) ==
    /\ c \in Notes \ nullified
    /\ LeafPos(c)[1] <= logLen
    /\ nullified' = nullified \cup {c}
    /\ moved' = TRUE
    /\ UNCHANGED <<logLen, aesSecret, programBalances, storedIndex, pc,
                   localVars, runs, result>>

(* syncStorage(idl, true) up to the decrypt loop: getIndexedTransactions,  *)
(* the filter on a non-empty message, and the aesSecret check that throws  *)
(* AES_SECRET_UNDEFINED.                                                   *)
SyncStart ==
    /\ pc = "idle"
    /\ runs < MaxSyncRuns
    /\ runs' = runs + 1
    /\ moved' = FALSE
    /\ snap' = SelectSeq([i \in 1..logLen |-> i], HasMessage)
    /\ ti' = 1 /\ li' = 1 /\ index' = 0
    /\ decrypted' = <<>> /\ spent' = <<>> /\ pending' = {}
    /\ IF aesSecret THEN pc' = "decrypt" /\ result' = "none"
                    ELSE pc' = "idle" /\ result' = "error"
    /\ UNCHANGED <<chainVars, aesSecret, programBalances, storedIndex>>

\* Fault variant of DecryptLeaf: the decryptedUtxo !== null check dropped,
\* so a leaf that is not addressed to the account is filed too.
DecryptLeafNoNullCheck ==
    /\ pc = "decrypt"
    /\ ti <= Len(snap)
    /\ LET t    == Log[snap[ti]]
           c    == t.leaves[li]
           i    == IF li = 1 THEN FirstLeafIndex(snap[ti]) ELSE index
           last == li = Len(t.leaves)
       IN  IF Outcome[c] = "error"
           THEN /\ pc' = "idle" /\ result' = "error"
                /\ UNCHANGED localVars
           ELSE /\ ti' = IF last THEN ti + 1 ELSE ti
                /\ li' = IF last THEN 1 ELSE li + 1
                /\ index' = IF Outcome[c] = "invalidIdl" THEN i ELSE i + 1
                /\ decrypted' = IF Outcome[c] # "invalidIdl" /\ ~NullifierExists(c, i)
                                THEN Append(decrypted, [c |-> c, i |-> i]) ELSE decrypted
                /\ spent' = IF Outcome[c] = "utxo" /\ NullifierExists(c, i)
                            THEN Append(spent, [c |-> c, i |-> i]) ELSE spent
                /\ UNCHANGED <<snap, pending, pc, result>>
    /\ UNCHANGED <<chainVars, aesSecret, programBalances, storedIndex, runs, moved>>

(* One iteration of decryptIndexStorage's leaf loop: the await on          *)
(* Utxo.decrypt and, for a note, on fetchNullifierAccountInfo.  index is   *)
(* reset to firstLeafIndex at the first leaf of a transaction and counts   *)
(* up after a note or a null result; the catch of INVALID_APP_DATA_IDL    *)
(* moves to the next leaf without counting.                                *)
DecryptLeaf ==
    /\ pc = "decrypt"
    /\ ti <= Len(snap)
    /\ LET t    == Log[snap[ti]]
           c    == t.leaves[li]
           i    == IF li = 1 THEN FirstLeafIndex(snap[ti]) ELSE index
           last == li = Len(t.leaves)
           item == [c |-> c, i |-> i]
       IN  IF Outcome[c] = "error"
           THEN /\ pc' = "idle" /\ result' = "error"
                /\ UNCHANGED localVars
           ELSE /\ ti' = IF last THEN ti + 1 ELSE ti
                /\ li' = IF last THEN 1 ELSE li + 1
                /\ index' = IF Outcome[c] = "invalidIdl" THEN i ELSE i + 1
                /\ decrypted' = IF Outcome[c] = "utxo" /\ ~NullifierExists(c, i)
                                THEN Append(decrypted, item) ELSE decrypted
                /\ spent' = IF Outcome[c] = "utxo" /\ NullifierExists(c, i)
                            THEN Append(spent, item) ELSE spent
                /\ UNCHANGED <<snap, pending, pc, result>>
    /\ UNCHANGED <<chainVars, aesSecret, programBalances, storedIndex, runs, moved>>

\* The two filing loops of syncStorage, decrypted notes first.
FilingItems(ds, ss) ==
    [k \in 1..Len(ds) |-> [c |-> ds[k].c, i |-> ds[k].i, attribute |-> "utxos"]] \o
    [k \in 1..Len(ss) |-> [c |-> ss[k].c, i |-> ss[k].i, attribute |-> "spentUtxos"]]

\* Fault variant of FileDecrypted: the last pass visits only the notes this
\* call decrypted as unspent, not every note left in the balance.
FileDecryptedFreshOnly ==
    /\ pc = "decrypt"
    /\ ti > Len(snap)
    /\ LET r == AddAll(programBalances, storedIndex, FilingItems(decrypted, spent))
           fresh == {decrypted[k].c : k \in DOMAIN decrypted}
       IN  /\ programBalances' = r.pb
           /\ storedIndex' = r.si
           /\ IF r.ok THEN pc' = "recheck"
                          /\ pending' = {e \in UtxoEntries(r.pb) : e[3] \in fresh}
                          /\ result' = result
                      ELSE pc' = "idle" /\ pending' = pending /\ result' = "error"
    /\ UNCHANGED <<chainVars, aesSecret, snap, ti, li, index, decrypted, spent,
                   runs, moved>>

(* The filing loops; they run without an await.  Then the last pass starts *)
(* over every note in utxos of every token balance.                        *)
FileDecrypted ==
    /\ pc = "decrypt"
    /\ ti > Len(snap)
    /\ LET r == AddAll(programBalances, storedIndex, FilingItems(decrypted, spent))
       IN  /\ programBalances' = r.pb
           /\ storedIndex' = r.si
           /\ IF r.ok THEN pc' = "recheck" /\ pending' = UtxoEntries(r.pb)
                          /\ result' = result
                      ELSE pc' = "idle" /\ pending' = pending /\ result' = "error"
    /\ UNCHANGED <<chainVars, aesSecret, snap, ti, li, index, decrypted, spent,
                   runs, moved>>

\* Fault variant of Recheck: the note is moved without the nullifier read.
RecheckNoFetch(e) ==
    /\ pc = "recheck"
    /\ e \in pending
    /\ pending' = pending \ {e}
    /\ programBalances' = [programBalances EXCEPT ![e[1]][e[2]] = TB!MoveToSpentUtxos(@, e[3])]
    /\ UNCHANGED <<chainVars, aesSecret, storedIndex, pc, snap, ti, li, index,
                   decrypted, spent, runs, result, moved>>

(* One iteration of the last pass: await fetchNullifierAccountInfo for the *)
(* stored Utxo object, then moveToSpentUtxos if the account exists.        *)
Recheck(e) ==
    /\ pc = "recheck"
    /\ e \in pending
    /\ pending' = pending \ {e}
    /\ LET p == e[1]  a == e[2]  c == e[3] IN
       programBalances' =
           IF NullifierExists(c, storedIndex[c])
           THEN [programBalances EXCEPT ![p][a] = TB!MoveToSpentUtxos(@, c)]
           ELSE programBalances
    /\ UNCHANGED <<chainVars, aesSecret, storedIndex, pc, snap, ti, li, index,
                   decrypted, spent, runs, result, moved>>

\* syncStorage returns balance.programBalances.
SyncDone ==
    /\ pc = "recheck"
    /\ pending = {}
    /\ pc' = "idle" /\ result' = "ok"
    /\ UNCHANGED <<chainVars, aesSecret, programBalances, storedIndex, localVars,
                   runs, moved>>

Next ==
    \/ AppendTx
    \/ \E c \in Notes : Nullify(c)
    \/ SyncStart
    \/ DecryptLeaf
    \/ FileDecrypted
    \/ \E e \in pending : Recheck(e)
    \/ SyncDone

Spec == Init /\ [][Next]_vars

-----------------------------------------------------------------------------
Item == [c : Notes, i : Nat]

TypeOK ==
    /\ logLen \in 0..Len(Log)
    /\ nullified \subseteq Notes
    /\ aesSecret \in BOOLEAN
    /\ \A p \in DOMAIN programBalances :
          \A a \in DOMAIN programBalances[p] :
              programBalances[p][a] \in TB!TokenUtxoBalanceType
    /\ DOMAIN storedIndex \subseteq Notes
    /\ pc \in {"idle", "decrypt", "recheck"}
    /\ decrypted \in Seq(Item) /\ spent \in Seq(Item)
    /\ \A e \in pending : e[3] \in DOMAIN storedIndex
    /\ runs \in 0..MaxSyncRuns
    /\ result \in {"none", "ok", "error"}

(* The running totals of every token balance of every program equal the   *)
(* sums over its utxos, through repeated syncStorage calls that re-file   *)
(* the same notes, calls that throw half way through the filing loops,     *)
(* and the moves of the last pass.                                         *)
ProgramConservation ==
    \A tb \in AllTokenBalances(programBalances) : TB!Conserved(tb)

(* getUtxo never reports a note "spent" whose nullifier account does not   *)
(* exist: both the first classification and the last pass of syncStorage   *)
(* move a note to spentUtxos only on a nullifier read from the chain.       *)
NoFalseSpent ==
    \A c \in Notes : GetUtxoStatus(c) = "spent" => c \in nullified

(* After a syncStorage call that returned, with the chain unchanged since   *)
(* it started, getProgramUtxos returns no note whose stored Utxo object's  *)
(* nullifier exists: the last pass re-read every note left in utxos,       *)
(* including the ones filed by earlier calls.                              *)
StableProgramUtxosUnspent ==
    (pc = "idle" /\ result = "ok" /\ ~moved) =>
        \A p \in DOMAIN programBalances :
            \A c \in ProgramUtxoArray(p) : ~NullifierExists(c, storedIndex[c])

(* What a caller of getProgramUtxos and getUtxo relies on (spec section 5: *)
(* leaf k of a transaction has index firstLeafIndex + k): after a          *)
(* syncStorage that returned normally on a quiet chain, no note it lists   *)
(* as a program utxo is spent on chain.  It needs decryptIndexStorage to   *)
(* give every note its true index, across the leaves it skips.             *)
StableProgramUtxosNotSpent ==
    (pc = "idle" /\ result = "ok" /\ ~moved) =>
        \A p \in DOMAIN programBalances :
            \A c \in ProgramUtxoArray(p) : c \notin nullified

=============================================================================
