-------------------------- MODULE TokenUtxoBalance --------------------------
(***************************************************************************)
(* The per-asset note ledger of the wallet: class TokenUtxoBalance in      *)
(* light-zk.js/src/wallet/buildBalance.ts.                                 *)
(*                                                                         *)
(* A TokenUtxoBalance keeps three maps keyed by commitment, utxos          *)
(* (spendable), committedUtxos (leaf still queued on chain) and            *)
(* spentUtxos (nullifier on chain), and two running totals that are        *)
(* updated incrementally by addUtxo and moveToSpentUtxos.  A map keyed by  *)
(* commitment is modelled as the set of its keys: the value stored under a *)
(* commitment is the note with that commitment, so Amounts gives it.       *)
(*                                                                         *)
(* The operators below are used by SyncState; TokenUtxoBalanceCalls lets  *)
(* an arbitrary caller issue any sequence of the two methods.              *)
(***************************************************************************)
EXTENDS Naturals, FiniteSets
LOCAL INSTANCE FiniteSetsExt

CONSTANTS
    Notes,      \* commitments of the notes that may be stored
    Amounts     \* Amounts[c] = [sol |-> amounts[0], spl |-> amounts[1]]

\* The three maps of a TokenUtxoBalance; VariableType in the source.
VariableType == {"utxos", "committedUtxos", "spentUtxos"}

TokenUtxoBalanceType ==
    [utxos: SUBSET Notes, committedUtxos: SUBSET Notes, spentUtxos: SUBSET Notes,
     totalBalanceSol: Nat, totalBalanceSpl: Nat]

\* constructor: empty maps, zero totals.
EmptyTokenUtxoBalance ==
    [utxos |-> {}, committedUtxos |-> {}, spentUtxos |-> {},
     totalBalanceSol |-> 0, totalBalanceSpl |-> 0]

(***************************************************************************)
(* addUtxo(commitment, utxo, attribute): stores the note under the map     *)
(* named by attribute.  Only a first insertion into utxos removes the      *)
(* commitment from committedUtxos and adds the note's amounts to the       *)
(* totals; no other map is touched.                                        *)
(***************************************************************************)
\* Fault variant of AddUtxo: the utxoExists guard dropped, so a note that
\* is re-filed under utxos is counted again.
AddUtxoNoExistsCheck(tb, c, attribute) ==
    IF attribute = "utxos"
    THEN [tb EXCEPT !.utxos = @ \cup {c},
                    !.committedUtxos = @ \ {c},
                    !.totalBalanceSol = @ + Amounts[c].sol,
                    !.totalBalanceSpl = @ + Amounts[c].spl]
    ELSE [tb EXCEPT ![attribute] = @ \cup {c}]

AddUtxo(tb, c, attribute) ==
    LET utxoExists == c \in tb[attribute]
    IN  IF attribute = "utxos" /\ ~utxoExists
        THEN [tb EXCEPT !.utxos = @ \cup {c},
                        !.committedUtxos = @ \ {c},
                        !.totalBalanceSol = @ + Amounts[c].sol,
                        !.totalBalanceSpl = @ + Amounts[c].spl]
        ELSE [tb EXCEPT ![attribute] = @ \cup {c}]

(***************************************************************************)
(* moveToSpentUtxos(commitment): throws UTXO_UNDEFINED unless the          *)
(* commitment is in utxos; otherwise subtracts the amounts and moves it    *)
(* to spentUtxos.  CanMoveToSpent is the condition under which it does     *)
(* not throw.                                                              *)
(***************************************************************************)
\* Fault variant of CanMoveToSpent: the UTXO_UNDEFINED check dropped.
CanMoveToSpentAlways(tb, c) == TRUE

CanMoveToSpent(tb, c) == c \in tb.utxos

\* Fault variant of MoveToSpentUtxos: the delete from utxos forgotten.
MoveToSpentUtxosKeepUtxo(tb, c) ==
    [tb EXCEPT !.totalBalanceSol = @ - Amounts[c].sol,
               !.totalBalanceSpl = @ - Amounts[c].spl,
               !.spentUtxos = @ \cup {c}]

MoveToSpentUtxos(tb, c) ==
    [tb EXCEPT !.totalBalanceSol = @ - Amounts[c].sol,
               !.totalBalanceSpl = @ - Amounts[c].spl,
               !.spentUtxos = @ \cup {c},
               !.utxos = @ \ {c}]

\* The totals a TokenUtxoBalance should hold: the sums over its utxos.
SumSol(S) == MapThenSumSet(LAMBDA c : Amounts[c].sol, S)
SumSpl(S) == MapThenSumSet(LAMBDA c : Amounts[c].spl, S)

\* Balance conservation for one TokenUtxoBalance.
Conserved(tb) ==
    /\ tb.totalBalanceSol = SumSol(tb.utxos)
    /\ tb.totalBalanceSpl = SumSpl(tb.utxos)

=============================================================================
