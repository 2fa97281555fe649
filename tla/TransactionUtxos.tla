--------------------------- MODULE TransactionUtxos ---------------------------
(***************************************************************************)
(* The transaction builder of light-sdk-ts (lib/src/transaction.js): a     *)
(* Transaction object is constructed, prepareTransactionFull checks the    *)
(* request, prepareUtxos pads, shuffles and classifies the notes,          *)
(* prepareTransaction fetches merkle indices, draws the nonces, encrypts   *)
(* the outputs and builds the circuit input, and getRootIndex looks the    *)
(* local root up on chain.  Notes are records with an id (their            *)
(* commitment), a sequence of asset keys and a sequence of amounts; an     *)
(* asset pubkey handed to the builder is a BN object: a key and an object  *)
(* identity.  Randomness (Math.random in shuffle, randomBytes in newNonce) *)
(* is a nondeterministic choice.                                           *)
(***************************************************************************)
EXTENDS Naturals, Integers, Sequences, FiniteSets
LOCAL INSTANCE FiniteSetsExt
LOCAL INSTANCE Functions

CONSTANTS
    FeeAsset,       \* FEE_ASSET, the key of the native asset
    EmptyUtxo,      \* new Utxo({poseidon}): the padding note
    ConfigIn,       \* config.in
    ConfigOut,      \* config.out
    FIELD,          \* FIELD_SIZE, taken small
    Nonces,         \* values nacl.randomBytes can return
    Params,         \* requests to prepareTransactionFull
    None,           \* an absent (null or undefined) argument
    MaxTx,          \* number of Transaction objects built
    MaxShuffle      \* longest sequence ShuffleUniform is checked for

VARIABLES pc, tx, usedNonces, built
vars == <<pc, tx, usedNonces, built>>

Elems(s) == {s[i] : i \in DOMAIN s}
Key(apk, a) == apk[a].key

(* JS `x < y` on two BN objects and `amount.toString() > "0"` compare the  *)
(* decimal strings of the numbers character by character.                 *)
RECURSIVE Digits(_)
Digits(n) == IF n < 10 THEN <<48 + n>> ELSE Digits(n \div 10) \o <<48 + (n % 10)>>
Decimal(n) == IF n < 0 THEN <<45>> \o Digits(-n) ELSE Digits(n)
RECURSIVE JsStringLess(_, _)
JsStringLess(s, t) ==
    IF s = <<>> THEN t # <<>>
    ELSE IF t = <<>> THEN FALSE
    ELSE IF Head(s) # Head(t) THEN Head(s) < Head(t)
    ELSE JsStringLess(Tail(s), Tail(t))
BNLess(x, y) == JsStringLess(Decimal(x), Decimal(y))

(* bn.js mod keeps the sign of the dividend.                               *)
BNMod(x, m) == IF x >= 0 THEN x % m ELSE -((-x) % m)

(* shuffle: Fisher-Yates, rs[k] the randomIndex drawn while currentIndex   *)
(* is k.                                                                   *)
Swap(s, i, j) == [s EXCEPT ![i] = s[j], ![j] = s[i]]
(* Mutant: currentIndex decremented before randomIndex is drawn.          *)
RECURSIVE FisherYatesDecrementFirst(_, _, _)
FisherYatesDecrementFirst(s, k, rs) ==
    IF k = 0 THEN s
    ELSE FisherYatesDecrementFirst(
            Swap(s, k, (IF k = 1 THEN 0 ELSE rs[k] % (k - 1)) + 1), k - 1, rs)
RECURSIVE FisherYates(_, _, _)
FisherYates(s, k, rs) ==
    IF k = 0 THEN s ELSE FisherYates(Swap(s, k, rs[k] + 1), k - 1, rs)
ShuffleChoices(n) == {rs \in [1..n -> 0..n-1] : \A k \in 1..n : rs[k] < k}
Shuffle(s, rs) == FisherYates(s, Len(s), rs)

(* Mutant: the padding loop stops one note short.                         *)
PadShort(s, n) ==
    IF Len(s) < n THEN s \o [i \in 1..(n - Len(s) - 1) |-> EmptyUtxo] ELSE s
Pad(s, n) == s \o [i \in 1..(n - Len(s)) |-> EmptyUtxo]

(* getExternalAmount(k): outputs minus inputs of slot k, over the notes    *)
(* whose slot k holds assetPubkeys[k].                                     *)
SlotSum(s, k, apk) ==
    MapThenSumSet(LAMBDA j : s[j].amounts[k],
                  {j \in DOMAIN s : s[j].assets[k] = Key(apk, k)})
(* Mutant: inputs minus outputs.                                          *)
GetExternalAmountSwapped(k, ins, outs, apk) == SlotSum(ins, k, apk) - SlotSum(outs, k, apk)
GetExternalAmount(k, ins, outs, apk) == SlotSum(outs, k, apk) - SlotSum(ins, k, apk)

(* getIndices: flag i of row a is set for the first slot i holding         *)
(* assetPubkeys[a] while amounts[a] prints above "0".                      *)
(* the slot flags of one row: only the first slot of M is flagged.        *)
FirstFlags(n, M) == [i \in 1..n |-> i \in M /\ \A j \in M : i <= j]
(* Mutant: without the !tmpInIndices1.includes("1") test.                 *)
IndicesOfNoFirstOnly(u, apk) ==
    [a \in 1..3 |-> [i \in 1..Len(u.assets) |->
        u.assets[i] = Key(apk, a) /\ JsStringLess(Decimal(0), Decimal(u.amounts[a]))]]
IndicesOf(u, apk) ==
    [a \in 1..3 |-> FirstFlags(Len(u.assets), {i \in 1..Len(u.assets) :
        u.assets[i] = Key(apk, a) /\ JsStringLess(Decimal(0), Decimal(u.amounts[a]))})]
GetIndices(s, apk) == [j \in DOMAIN s |-> IndicesOf(s[j], apk)]
(* amounts[a] past the end of a note's amounts is undefined: .toString()   *)
(* throws a TypeError as soon as the asset test before it holds.           *)
IndicesTypeError(s, apk) ==
    \E u \in Elems(s), a \in 1..3 :
        \E i \in 1..Len(u.assets) : u.assets[i] = Key(apk, a) /\ a > Len(u.amounts)

(* prepareTransactionFull's own checks, in code order.                     *)
FullError(p, relayerIsPayer) ==
    CASE Key(p.apk, 1) # FeeAsset                        -> "feeAsset"
      [] p.action = "DEPOSIT" /\ ~relayerIsPayer          -> "relayerNotPayer"
      [] p.action = "WITHDRAWAL" /\ ~p.recipient          -> "recipient"
      [] p.action = "WITHDRAWAL" /\ ~p.recipientFee       -> "recipientFee"
      [] OTHER                                           -> "none"

(* prepareUtxos' throws, in code order; ins and outs are already padded.   *)
UtxosError(p, ins, outs) ==
    CASE Len(p.inputs) > ConfigIn \/ Len(p.outputs) > ConfigOut -> "count"
      [] p.action = "DEPOSIT"
            /\ BNLess(GetExternalAmount(2, ins, outs, p.apk), 0) -> "extAmount"
      [] Len(p.apk) # 3                                  -> "assetsLength"
      [] p.apk[1] = p.apk[2] \/ p.apk[2] = p.apk[3]
            \/ p.apk[1] = p.apk[3]                       -> "assetsDistinct"
      [] IndicesTypeError(ins \o outs, p.apk)            -> "TypeError"
      [] OTHER                                           -> "none"

(* prepareTransaction's throws: an input with an amount is looked up in    *)
(* the local merkle tree; this.relayerFee is only set by the WITHDRAWAL    *)
(* branch of prepareTransactionFull when a fee is given.                   *)
NonZero(u) == \E j \in DOMAIN u.amounts : u.amounts[j] > 0
TransactionError(p, ins) ==
    CASE \E u \in Elems(ins) : NonZero(u) /\ u.id \notin p.tree -> "notFound"
      [] p.action # "DEPOSIT"
            /\ ~(p.action = "WITHDRAWAL" /\ p.relayerFee # None) -> "TypeError"
      [] OTHER                                                -> "none"

PathIndex(u, p) == IF NonZero(u) THEN u.id ELSE 0

(* const nonces = new Array(this.config.out).fill(newNonce())             *)
DrawNonces(n) == [i \in 1..ConfigOut |-> n]

Init ==
    /\ pc = "idle"
    /\ tx = [relayerIsPayer |-> TRUE, shuffle |-> TRUE]
    /\ usedNonces = {}
    /\ built = 0

(* new Transaction({...}): relayerPubkey defaults to the payer's key.      *)
Construct ==
    /\ pc \in {"idle", "done", "error"}
    /\ built < MaxTx
    /\ \E relayerIsPayer, shuffleEnabled \in BOOLEAN :
          tx' = [relayerIsPayer |-> relayerIsPayer, shuffle |-> shuffleEnabled]
    /\ pc' = "new"
    /\ built' = built + 1
    /\ UNCHANGED usedNonces

(* prepareTransactionFull up to the await of getRootIndex: its checks,     *)
(* prepareUtxos and prepareTransaction.                                    *)
Prepare(p, rIn, rOut, n) ==
    LET padIn   == Pad(p.inputs, ConfigIn)
        padOut  == Pad(p.outputs, ConfigOut)
        ins     == IF tx.shuffle THEN Shuffle(padIn, rIn) ELSE padIn
        outs    == IF tx.shuffle THEN Shuffle(padOut, rOut) ELSE padOut
        ext     == GetExternalAmount(2, ins, outs, p.apk)
        fee     == GetExternalAmount(1, ins, outs, p.apk)
        err1    == FullError(p, tx.relayerIsPayer)
        err2    == UtxosError(p, ins, outs)
        err3    == TransactionError(p, ins)
        nonces  == DrawNonces(n)
    IN
    IF err1 # "none" \/ err2 # "none" \/ err3 # "none"
    THEN /\ pc' = "error"
         /\ UNCHANGED <<tx, usedNonces>>
    ELSE /\ pc' = "prepared"
         /\ usedNonces' = usedNonces \cup {n}
         /\ tx' = [relayerIsPayer |-> tx.relayerIsPayer, shuffle |-> tx.shuffle,
                   request |-> p, inputUtxos |-> ins, outputUtxos |-> outs,
                   externalAmount |-> ext, feeAmount |-> fee,
                   inIndices |-> GetIndices(ins, p.apk),
                   outIndices |-> GetIndices(outs, p.apk),
                   inPathIndices |-> [j \in DOMAIN ins |-> PathIndex(ins[j], p)],
                   encrypted |-> IF p.encrypted THEN <<>>
                                 ELSE [i \in DOMAIN outs |->
                                        [note |-> outs[i].id, nonce |-> nonces[i]]],
                   publicAmount |-> BNMod(ext + FIELD, FIELD),
                   publicFee |-> BNMod(fee + FIELD, FIELD),
                   rootIndex |-> "undefined"]

PrepareTransactionFull ==
    /\ pc = "new"
    /\ \E p \in Params, rIn \in ShuffleChoices(ConfigIn),
          rOut \in ShuffleChoices(ConfigOut), n \in Nonces \ usedNonces :
          Prepare(p, rIn, rOut, n)
    /\ UNCHANGED built

(* getRootIndex and the asserts after it: this.rootIndex is set only when  *)
(* the local root is among the on-chain roots, and left as it was          *)
(* otherwise.                                                              *)
GetRootIndex ==
    /\ pc = "prepared"
    /\ \E onChain \in BOOLEAN :
          tx' = [tx EXCEPT !.rootIndex = IF onChain THEN "found" ELSE @]
    /\ pc' = "done"
    /\ UNCHANGED <<usedNonces, built>>

Next == Construct \/ PrepareTransactionFull \/ GetRootIndex

Spec == Init /\ [][Next]_vars

-----------------------------------------------------------------------------
(* Reference definitions.                                                  *)

(* externalAmount of spec section 4.1: matched by asset identity, on the   *)
(* notes of the request as given, before padding and shuffling.            *)
RefExternal(k, ins, outs, apk) ==
    LET Sum(s) == MapThenSumSet(LAMBDA pr : s[pr[1]].amounts[pr[2]],
                    {pr \in (DOMAIN s) \X (1..2) :
                        pr[2] \in DOMAIN s[pr[1]].assets
                        /\ s[pr[1]].assets[pr[2]] = Key(apk, k)})
    IN Sum(outs) - Sum(ins)

(* The asset index the circuit needs: slot i of a note is flagged for      *)
(* assetPubkeys[a] when it holds that asset with a positive amount of its  *)
(* own, first such slot only.                                              *)
RefIndices(s, apk) ==
    [j \in DOMAIN s |-> [a \in 1..3 |-> FirstFlags(Len(s[j].assets),
        {i \in 1..Len(s[j].assets) : s[j].assets[i] = Key(apk, a) /\ s[j].amounts[i] > 0})]]

Prepared == pc \in {"prepared", "done"}

-----------------------------------------------------------------------------
(* Properties.                                                             *)

(* Every variable has its type, and a prepared transaction carries exactly *)
(* config.in inputs and config.out outputs after prepareUtxos' padding.    *)
TypeOK ==
    /\ pc \in {"idle", "new", "prepared", "done", "error"}
    /\ built \in 0..MaxTx
    /\ usedNonces \subseteq Nonces
    /\ tx.relayerIsPayer \in BOOLEAN /\ tx.shuffle \in BOOLEAN
    /\ Prepared =>
         /\ tx.request \in Params
         /\ Len(tx.inputUtxos) = ConfigIn /\ Len(tx.outputUtxos) = ConfigOut
         /\ tx.publicAmount \in Int /\ tx.publicFee \in Int
         /\ tx.rootIndex \in {"undefined", "found"}

(* shuffle (transaction.js 1148-1162) draws each of the n! orders of n     *)
(* notes from exactly one sequence of Math.random results, so the order    *)
(* is a uniform random permutation (spec section 4.5: shuffling is         *)
(* mandatory and uniform); the inputs of a prepared transaction are one    *)
(* such order of the request's inputs padded to config.in.                *)
ShuffleUniform ==
    Prepared =>
      /\ \A n \in 1..MaxShuffle :
           LET s     == [i \in 1..n |-> i]
               Image == {Shuffle(s, rs) : rs \in ShuffleChoices(n)}
           IN /\ Image = {f \in [1..n -> 1..n] : IsInjective(f)}
              /\ Cardinality(Image) = Cardinality(ShuffleChoices(n))
      /\ \E f \in [1..ConfigIn -> 1..ConfigIn] :
           /\ IsInjective(f)
           /\ tx.inputUtxos = [i \in 1..ConfigIn |-> Pad(tx.request.inputs, ConfigIn)[f[i]]]

(* A prepared transaction's publicAmount and feeAmount are the external    *)
(* amounts of the request, computed by asset identity before the notes     *)
(* were padded and shuffled, wrapped into [0, FIELD) (spec section 4.1);   *)
(* and a DEPOSIT is never prepared with a negative external amount,        *)
(* although prepareUtxos tests that with JS `<` on two BN objects.         *)
ExternalAmountsEncoded ==
    Prepared =>
        LET r == tx.request IN
        /\ tx.publicAmount \in 0..FIELD-1 /\ tx.publicFee \in 0..FIELD-1
        /\ (tx.publicAmount - RefExternal(2, r.inputs, r.outputs, r.apk)) % FIELD = 0
        /\ (tx.publicFee - RefExternal(1, r.inputs, r.outputs, r.apk)) % FIELD = 0
        /\ r.action = "DEPOSIT" => RefExternal(2, r.inputs, r.outputs, r.apk) >= 0

(* The inIndices and outIndices getIndices builds (it tests amounts[a] of  *)
(* asset row a where the slot is i, and compares amounts as strings) are   *)
(* the asset indices of the reference for every note that is prepared.     *)
IndicesMatchReference ==
    Prepared =>
        /\ tx.inIndices = RefIndices(tx.inputUtxos, tx.request.apk)
        /\ tx.outIndices = RefIndices(tx.outputUtxos, tx.request.apk)

(* Every output note is encrypted under a nonce of its own (spec section   *)
(* 4.2: a fresh nonce per note); prepareTransaction fills one newNonce()   *)
(* into every slot of nonces.                                              *)
OutputNoncesDistinct ==
    Prepared =>
        \A i, j \in DOMAIN tx.encrypted :
            i # j => tx.encrypted[i].nonce # tx.encrypted[j].nonce
==============================================================================
