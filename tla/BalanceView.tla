----------------------------- MODULE BalanceView -----------------------------
(***************************************************************************)
(* What the wallet's Balance promises about the chain it mirrors, stated   *)
(* without the synchronizer's awaits (spec.md sections 3, 4.3 and 4.4).    *)
(*                                                                         *)
(* The chain is seen through three growing sets of notes: published (its  *)
(* transaction is in the log), confirmed (its leaves are in the merkle     *)
(* tree) and nullified (its nullifier account exists).  The Balance keeps  *)
(* one book per mint with the three maps of a TokenBalance, spendable      *)
(* (utxos), queued (committedUtxos) and spent (spentUtxos), and its two    *)
(* running totals, plus the aggregate native total.                        *)
(*                                                                         *)
(* A note is filed under its mint in one step, and only in a class the     *)
(* chain supports at that moment: spendable once confirmed, queued once    *)
(* published, spent once nullified; a note already spent is never filed    *)
(* as spendable again; filing as spendable is idempotent.  A spendable     *)
(* note leaves the spendable map only by promotion to spent, after its     *)
(* nullifier exists.  The running totals of a book are the sums over its   *)
(* spendable notes, and the aggregate total is recomputed as a whole.      *)
(***************************************************************************)
EXTENDS Naturals, FiniteSets
LOCAL INSTANCE FiniteSetsExt

CONSTANTS
    Notes,      \* commitments of the notes the account can decrypt
    Amounts,    \* Amounts[c] = [sol |-> native amount, spl |-> token amount]
    KeyOf,      \* KeyOf[c]: the mint a note is filed under
    Tracked,    \* notes with a non-zero amount that are not program notes
    Native      \* the native mint, whose book exists from the start

VARIABLES published, confirmed, nullified, books, totalSol

vars == <<published, confirmed, nullified, books, totalSol>>

SumSol(S) == MapThenSumSet(LAMBDA c : Amounts[c].sol, S)
SumSpl(S) == MapThenSumSet(LAMBDA c : Amounts[c].spl, S)

\* A book holding the given maps, its totals derived from the spendable map.
Book(u, q, s) ==
    [utxos |-> u, committedUtxos |-> q, spentUtxos |-> s,
     totalBalanceSol |-> SumSol(u), totalBalanceSpl |-> SumSpl(u)]

EmptyBook == Book({}, {}, {})

\* The book of mint a, an empty one if the Balance has none yet.
BookOf(a) == IF a \in DOMAIN books THEN books[a] ELSE EmptyBook

\* books with the book of mint a set to b, added if absent.
SetBook(a, b) == [m \in DOMAIN books \cup {a} |-> IF m = a THEN b ELSE books[m]]

Init ==
    /\ published = {} /\ confirmed = {} /\ nullified = {}
    /\ books = [m \in {Native} |-> EmptyBook]
    /\ totalSol = 0

-----------------------------------------------------------------------------
(* The chain.                                                              *)

Publish(S) ==
    /\ S # {} /\ S \subseteq Notes \ published
    /\ published' = published \cup S
    /\ UNCHANGED <<confirmed, nullified, books, totalSol>>

Confirm(S) ==
    /\ S # {} /\ S \subseteq published \ confirmed
    /\ confirmed' = confirmed \cup S
    /\ UNCHANGED <<published, nullified, books, totalSol>>

Spend(c) ==
    /\ c \in confirmed \ nullified
    /\ nullified' = nullified \cup {c}
    /\ UNCHANGED <<published, confirmed, books, totalSol>>

-----------------------------------------------------------------------------
(* The Balance.                                                            *)

FileSpendable(c) ==
    LET b == BookOf(KeyOf[c]) IN
    /\ c \in Tracked /\ c \in confirmed
    /\ c \notin b.spentUtxos
    /\ books' = SetBook(KeyOf[c],
                  IF c \in b.utxos THEN b
                  ELSE Book(b.utxos \cup {c}, b.committedUtxos \ {c}, b.spentUtxos))
    /\ UNCHANGED <<published, confirmed, nullified, totalSol>>

FileQueued(c) ==
    LET b == BookOf(KeyOf[c]) IN
    /\ c \in Tracked /\ c \in published
    /\ books' = SetBook(KeyOf[c], Book(b.utxos, b.committedUtxos \cup {c}, b.spentUtxos))
    /\ UNCHANGED <<published, confirmed, nullified, totalSol>>

FileSpent(c) ==
    LET b == BookOf(KeyOf[c]) IN
    /\ c \in Tracked /\ c \in nullified
    /\ books' = SetBook(KeyOf[c], Book(b.utxos, b.committedUtxos, b.spentUtxos \cup {c}))
    /\ UNCHANGED <<published, confirmed, nullified, totalSol>>

PromoteToSpent(a, c) ==
    /\ a \in DOMAIN books
    /\ c \in books[a].utxos /\ c \in nullified
    /\ books' = [books EXCEPT ![a] = Book(@.utxos \ {c}, @.committedUtxos,
                                           @.spentUtxos \cup {c})]
    /\ UNCHANGED <<published, confirmed, nullified, totalSol>>

Recount ==
    /\ totalSol' = MapThenSumSet(LAMBDA a : books[a].totalBalanceSol, DOMAIN books)
    /\ UNCHANGED <<published, confirmed, nullified, books>>

Next ==
    \/ \E S \in SUBSET Notes : Publish(S) \/ Confirm(S)
    \/ \E c \in Notes : Spend(c) \/ FileSpendable(c) \/ FileQueued(c) \/ FileSpent(c)
    \/ \E a \in DOMAIN books, c \in Notes : PromoteToSpent(a, c)
    \/ Recount

Spec == Init /\ [][Next]_vars

=============================================================================
