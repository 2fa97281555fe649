----------------------------- MODULE MergeUtxos -----------------------------
(***************************************************************************)
(* Consolidating inbox notes into the account: User.mergeAllUtxos and      *)
(* User.mergeUtxos in light-zk.js/src/wallet/user.ts.                      *)
(*                                                                         *)
(* Both calls first sync the inbox and the balance (getUtxoInbox,          *)
(* getBalance), select the input notes, build the parameters of a          *)
(* transfer to self and send it.  The model keeps, per asset, the         *)
(* spendable notes of the balance and of the inbox as sequences in the    *)
(* insertion order of the Map they come from, since the order decides     *)
(* which notes survive the cap.  A call is one step: the wallet is used   *)
(* by one caller here; the interleaving of calls is UserTx's subject.     *)
(*                                                                         *)
(* Notes of the balance are numbers from OwnIds, inbox notes come from     *)
(* InboxNotes with a fixed asset and amount.  A sent merge spends its      *)
(* inputs and creates one output of the asset and, for mergeAllUtxos of a *)
(* non-SOL asset that spent SOL notes, a separate SOL output              *)
(* (separateSolUtxo); the output notes are built by                       *)
(* TransactionParameters.getTxParams, whose code is not part of the       *)
(* sources, so that part is modelled from the spec.                       *)
(***************************************************************************)
EXTENDS Naturals, Sequences, FiniteSets, TLC
LOCAL INSTANCE FiniteSetsExt
LOCAL INSTANCE Functions
LOCAL INSTANCE SequencesExt

CONSTANTS
    Assets,         \* asset keys; "SOL" is PublicKey(0), the fee asset
    InboxNotes,     \* commitments of notes that may arrive in the inbox
    NoteAsset,      \* NoteAsset[n]: the asset of inbox note n
    NoteAmount,     \* NoteAmount[n]: n.amounts[assetIndex]
    OwnIds,         \* identities of the balance's own notes
    Commitments,    \* the commitment lists mergeUtxos may be called with
    Cap             \* the 10 of "inUtxos.length > 10"

VARIABLES
    bal,        \* bal[a]: utxos of this.balance.tokenBalances.get(a)
    inbox,      \* inbox[a]: utxos of this.inboxBalance.tokenBalances.get(a)
    arrived,    \* inbox notes delivered so far
    merged,     \* inbox notes spent by a sent merge
    last        \* the last call: its kind, asset, selection and result

vars == <<bal, inbox, arrived, merged, last>>

Kinds == {"none", "mergeAll", "merge"}

Results == {"ok", "EMPTY_INBOX", "NO_COMMITMENTS_PROVIDED",
            "COMMITMENT_NOT_FOUND", "TOO_MANY_COMMITMENTS",
            "SEND_TRANSACTION_FAILED"}

\* An inboxBalance.tokenBalances entry exists once a note of the asset has
\* been added to it, and is never deleted.
InboxDefined(a) == \E n \in arrived : NoteAsset[n] = a

\* The notes of a sequence, as a set.
Elems(s) == {s[i] : i \in DOMAIN s}

\* The own notes in use, and the next free identity for an output.
UsedIds == UNION {Elems(bal[a]) : a \in Assets}
FreshIds == OwnIds \ UsedIds

Init ==
    /\ \E k \in [Assets -> 0..2] :
         bal = [a \in Assets |->
                  [i \in 1..k[a] |->
                     i + (IF a = "SOL" THEN 0 ELSE k["SOL"])]]
    /\ inbox = [a \in Assets |-> <<>>]
    /\ arrived = {}
    /\ merged = {}
    /\ last = [kind |-> "none", asset |-> "SOL", ins |-> <<>>,
               pool |-> <<>>, cs |-> <<>>, result |-> "ok"]

(***************************************************************************)
(* Selection of mergeAllUtxos.  The inbox is sorted by descending amount   *)
(* (Array.prototype.sort with b - a, which is stable, so ties keep their  *)
(* Map order); inUtxos is the asset's own utxos, the SOL utxos and the    *)
(* sorted inbox when the asset is not SOL, otherwise the SOL utxos and    *)
(* the inbox; more than Cap of them are cut to the first Cap.             *)
(***************************************************************************)
\* Insertion of x into s sorted by amount, after the notes it does not
\* beat, so equal amounts keep their order; descending or ascending.
RECURSIVE InsertByAmount(_, _, _)
InsertByAmount(x, s, descending) ==
    IF s = <<>> THEN <<x>>
    ELSE IF (descending /\ NoteAmount[x] > NoteAmount[Head(s)])
            \/ (~descending /\ NoteAmount[x] < NoteAmount[Head(s)])
         THEN <<x>> \o s
         ELSE <<Head(s)>> \o InsertByAmount(x, Tail(s), descending)

\* Insertion sort of s: each note goes after the earlier ones it does not
\* beat, so the sort is stable like Array.prototype.sort.
RECURSIVE SortByAmount(_, _)
SortByAmount(s, descending) ==
    IF s = <<>> THEN <<>>
    ELSE InsertByAmount(Last(s), SortByAmount(Front(s), descending), descending)

\* Fault variant of SortInbox: the comparator written a - b (ascending).
SortInboxAscending(s) == SortByAmount(s, FALSE)

SortInbox(s) == SortByAmount(s, TRUE)

CutToCap(s) == IF Len(s) > Cap THEN SubSeq(s, 1, Cap) ELSE s

MergeAllInputs(a) ==
    CutToCap(IF a # "SOL"
             THEN bal[a] \o bal["SOL"] \o SortInbox(inbox[a])
             ELSE bal["SOL"] \o SortInbox(inbox[a]))

(***************************************************************************)
(* A sent merge: its inputs are nullified, so the next getBalance and     *)
(* getUtxoInbox drop them, and its outputs are new notes of the balance.  *)
(***************************************************************************)
\* Fault variant of SpendInputs: the balance is not refreshed after the
\* merge, so the own inputs stay listed as spendable.
SpendInputsNoRefresh(ins, a, solOut) ==
    LET spent == Elems(ins)
        out == Min(FreshIds)
    IN  /\ Cardinality(FreshIds) >= 2
        /\ bal' = [bal EXCEPT ![a] = Append(@, out)]
        /\ inbox' = [b \in Assets |-> SelectSeq(inbox[b], LAMBDA n : n \notin spent)]
        /\ merged' = merged \cup (spent \cap InboxNotes)

SpendInputs(ins, a, solOut) ==
    LET spent == Elems(ins)
        kept == [b \in Assets |-> SelectSeq(bal[b], LAMBDA n : n \notin spent)]
        out1 == Min(FreshIds)
        out2 == Min(FreshIds \ {out1})
    IN  /\ Cardinality(FreshIds) >= 2
        /\ bal' = IF solOut
                  THEN [kept EXCEPT ![a] = Append(@, out1), !["SOL"] = Append(@, out2)]
                  ELSE [kept EXCEPT ![a] = Append(@, out1)]
        /\ inbox' = [b \in Assets |-> SelectSeq(inbox[b], LAMBDA n : n \notin spent)]
        /\ merged' = merged \cup (spent \cap InboxNotes)

Record(kind, a, ins, pool, cs, result) ==
    last' = [kind |-> kind, asset |-> a, ins |-> ins, pool |-> pool,
             cs |-> cs, result |-> result]

(***************************************************************************)
(* mergeAllUtxos(asset), user.ts 1086-1150.  After the two syncs it throws *)
(* EMPTY_INBOX when the inbox has no balance for the asset or it is empty; *)
(* otherwise it sends the merge of MergeAllInputs.  A send that throws     *)
(* (transactWithParameters rejects) changes nothing.                      *)
(***************************************************************************)
MergeAllEmpty(a) ==
    /\ ~InboxDefined(a) \/ inbox[a] = <<>>
    /\ Record("mergeAll", a, <<>>, inbox[a], <<>>, "EMPTY_INBOX")
    /\ UNCHANGED <<bal, inbox, arrived, merged>>

MergeAllSent(a) ==
    LET ins == MergeAllInputs(a)
    IN  /\ InboxDefined(a) /\ inbox[a] # <<>>
        /\ SpendInputs(ins, a, a # "SOL" /\ Elems(ins) \cap Elems(bal["SOL"]) # {})
        /\ Record("mergeAll", a, ins, inbox[a], <<>>, "ok")
        /\ UNCHANGED arrived

MergeAllSendFails(a) ==
    /\ InboxDefined(a) /\ inbox[a] # <<>>
    /\ Record("mergeAll", a, MergeAllInputs(a), inbox[a], <<>>,
              "SEND_TRANSACTION_FAILED")
    /\ UNCHANGED <<bal, inbox, arrived, merged>>

(***************************************************************************)
(* mergeUtxos(commitments, asset), user.ts 1158-1229: the checks in code   *)
(* order, then the merge of the asset's own utxos and the listed inbox     *)
(* notes, one per listed commitment.                                       *)
(***************************************************************************)
MergeUtxosInputs(a, cs) == bal[a] \o cs

\* Fault variant of MergeUtxosError: the cap test written >= Cap.
MergeUtxosErrorAtCap(a, cs) ==
    CASE Len(cs) = 0 -> "NO_COMMITMENTS_PROVIDED"
      [] ~InboxDefined(a) -> "EMPTY_INBOX"
      [] \E i \in DOMAIN cs : cs[i] \notin Elems(inbox[a]) -> "COMMITMENT_NOT_FOUND"
      [] Len(MergeUtxosInputs(a, cs)) >= Cap -> "TOO_MANY_COMMITMENTS"
      [] OTHER -> "ok"

MergeUtxosError(a, cs) ==
    CASE Len(cs) = 0 -> "NO_COMMITMENTS_PROVIDED"
      [] ~InboxDefined(a) -> "EMPTY_INBOX"
      [] \E i \in DOMAIN cs : cs[i] \notin Elems(inbox[a]) -> "COMMITMENT_NOT_FOUND"
      [] Len(MergeUtxosInputs(a, cs)) > Cap -> "TOO_MANY_COMMITMENTS"
      [] OTHER -> "ok"

MergeUtxosRejected(a, cs) ==
    /\ MergeUtxosError(a, cs) # "ok"
    /\ Record("merge", a, MergeUtxosInputs(a, cs), inbox[a], cs, MergeUtxosError(a, cs))
    /\ UNCHANGED <<bal, inbox, arrived, merged>>

MergeUtxosSent(a, cs) ==
    /\ MergeUtxosError(a, cs) = "ok"
    /\ SpendInputs(MergeUtxosInputs(a, cs), a, FALSE)
    /\ Record("merge", a, MergeUtxosInputs(a, cs), inbox[a], cs, "ok")
    /\ UNCHANGED arrived

\* Fault variant of Receive: a note already delivered is added again.
ReceiveNoArrivedCheck(n) ==
    /\ inbox' = [inbox EXCEPT ![NoteAsset[n]] = Append(@, n)]
    /\ arrived' = arrived \cup {n}
    /\ UNCHANGED <<bal, merged, last>>

\* Environment: a note addressed to the account lands in the inbox; the
\* next getUtxoInbox adds it to inboxBalance in arrival order, once, since
\* addUtxo is keyed by commitment.
Receive(n) ==
    /\ n \notin arrived
    /\ inbox' = [inbox EXCEPT ![NoteAsset[n]] = Append(@, n)]
    /\ arrived' = arrived \cup {n}
    /\ UNCHANGED <<bal, merged, last>>

Next ==
    \/ \E n \in InboxNotes : Receive(n)
    \/ \E a \in Assets :
         \/ MergeAllEmpty(a)
         \/ MergeAllSent(a)
         \/ MergeAllSendFails(a)
         \/ \E cs \in Commitments : MergeUtxosRejected(a, cs) \/ MergeUtxosSent(a, cs)

\* The caller repeats mergeAllUtxos for every asset ("loops in steps of 9
\* or 10"), and a merge that can be sent eventually is.
Fairness == \A a \in Assets : WF_vars(MergeAllSent(a))

Spec == Init /\ [][Next]_vars /\ Fairness

-----------------------------------------------------------------------------
TypeOK ==
    /\ bal \in [Assets -> Seq(OwnIds)]
    /\ inbox \in [Assets -> Seq(InboxNotes)]
    /\ arrived \subseteq InboxNotes
    /\ merged \subseteq arrived
    /\ last.kind \in Kinds /\ last.asset \in Assets /\ last.result \in Results
    /\ \A a \in Assets : IsInjective(bal[a]) /\ IsInjective(inbox[a])

\* mergeAllUtxos merges the largest inbox notes first: when the cap cuts
\* the sorted inbox, no inbox note left out is larger than one merged.
LargestInboxFirst ==
    (last.kind = "mergeAll" /\ last.result = "ok") =>
        \A x \in Elems(last.pool) \cap Elems(last.ins) :
            \A y \in Elems(last.pool) \ Elems(last.ins) :
                NoteAmount[x] >= NoteAmount[y]

\* A merge sent by mergeUtxos spends every note at most once.
MergeUtxosInputsDistinct ==
    (last.kind = "merge" /\ last.result = "ok") => IsInjective(last.ins)

\* The cap of the merge: no merge is sent with more than Cap inputs, and
\* mergeUtxos refuses with TOO_MANY_COMMITMENTS only a selection that is
\* over the cap, so exactly Cap inputs go through.
CapRespected ==
    /\ last.result = "ok" => Len(last.ins) <= Cap
    /\ last.result = "TOO_MANY_COMMITMENTS" => Len(last.ins) > Cap

\* Every note that lands in the inbox is eventually merged into the
\* balance by the repeated mergeAllUtxos, although the cap may leave it out
\* of several merges in a row.
InboxEventuallyMerged ==
    \A n \in InboxNotes : n \in arrived ~> n \in merged

====
