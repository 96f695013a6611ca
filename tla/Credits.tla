------------------------------- MODULE Credits -------------------------------
(***************************************************************************)
(* The credit store of src/app/credits.py: one authoritative balance per   *)
(* account and an append-only ledger.  Each definition below that changes  *)
(* a variable is ONE MongoDB operation on ONE document, which is the unit  *)
(* of atomicity the code relies on; grant and try_debit are two of them in *)
(* a row (move the balance, then append the ledger row), and the modules   *)
(* that extend this one put every other handler's steps in between.        *)
(*                                                                         *)
(* An account document that does not exist yet is a balance of 0: every    *)
(* path upserts it (get_account) right before it reads or moves it.        *)
(***************************************************************************)
EXTENDS Integers, FiniteSets

CONSTANTS Users,      \* accounts
          Refs,       \* what a movement is for: a usage record or a payment
          Opening,    \* balance_units of each account when the model starts
          MaxFailures \* bound: how many operations fail in a behaviour

ASSUME CreditsAssumption == Opening \in [Users -> Nat] /\ MaxFailures \in Nat

VARIABLES balance,    \* credit_accounts.balance_units, may be negative
          purchased,  \* credit_accounts.lifetime_purchased_units
          ledger,     \* the rows of credit_ledger
          moves,      \* history: every movement the balance really made
          forfeited,  \* history: what closing an account wrote off
          failures    \* history: how many operations have failed

creditVars == <<balance, purchased, ledger, moves, forfeited, failures>>

Kinds == {"purchase", "signup_bonus", "usage"}

\* A ledger row.  units is signed, after is balance_after_units.
Row == [user: Users, ref: Refs, kind: Kinds, units: Int, after: Int]

CreditsInit ==
  /\ balance = Opening
  /\ purchased = [u \in Users |-> 0]
  /\ ledger = {}
  /\ moves = {}
  /\ forfeited = [u \in Users |-> 0]
  /\ failures = 0

\* Mistake: find_one_and_update is asked for the document before the update.
RowForBefore(u, r, k, n) ==
  [user |-> u, ref |-> r, kind |-> k, units |-> n, after |-> balance[u]]

\* The row that records moving u's balance by n now: the balance it shows is
\* the one find_one_and_update returned (return_document=True), not a later
\* read.
RowFor(u, r, k, n) ==
  [user |-> u, ref |-> r, kind |-> k, units |-> n, after |-> balance[u] + n]

\* One $inc on the account document.
Move(u, r, k, n) ==
  /\ balance' = [balance EXCEPT ![u] = @ + n]
  /\ moves' = moves \cup {RowFor(u, r, k, n)}

\* grant, up to its ledger append: add credits, and count a purchase in the
\* lifetime figure in the same update.
Grant(u, r, k, n) ==
  /\ n > 0
  /\ Move(u, r, k, n)
  /\ purchased' = [purchased EXCEPT ![u] = IF k = "purchase" THEN @ + n ELSE @]
  /\ UNCHANGED <<ledger, forfeited, failures>>

\* Mistake: the balance is compared with zero instead of with the price.
CoversAnything(u, n) == balance[u] > 0

\* The filter of try_debit's conditional update.
Covers(u, n) == balance[u] >= n

\* try_debit, up to its ledger append: check and decrement in one update.
TryDebit(u, r, n) ==
  /\ Covers(u, n)
  /\ Move(u, r, "usage", -n)
  /\ UNCHANGED <<purchased, ledger, forfeited, failures>>

\* debit_allowing_negative, up to its ledger append.
DebitAllowingNegative(u, r, n) ==
  /\ Move(u, r, "usage", -n)
  /\ UNCHANGED <<purchased, ledger, forfeited, failures>>

\* Mistake: the row shows the balance there is when it is appended.
AppendLedgerReread(row) ==
  /\ ledger' = ledger \cup {[row EXCEPT !.after = balance[row.user]]}
  /\ UNCHANGED <<balance, purchased, moves, forfeited, failures>>

\* _append_ledger.
AppendLedger(row) ==
  /\ ledger' = ledger \cup {row}
  /\ UNCHANGED <<balance, purchased, moves, forfeited, failures>>

\* The last write of delete_account: the balance is set to zero and no
\* ledger row says so.
ZeroBalance(u) ==
  /\ balance' = [balance EXCEPT ![u] = 0]
  /\ forfeited' = [forfeited EXCEPT ![u] = @ + balance[u]]
  /\ UNCHANGED <<purchased, ledger, moves, failures>>

\* An operation fails: it raises, or the worker stops in the middle of it.  What
\* its handler wrote before stays, and nobody resumes a handler that has died.
Failure ==
  /\ failures < MaxFailures
  /\ failures' = failures + 1
  /\ UNCHANGED <<balance, purchased, ledger, moves, forfeited>>

-----------------------------------------------------------------------------
CreditsTypeOK ==
  /\ balance \in [Users -> Int]
  /\ purchased \in [Users -> Nat]
  /\ ledger \in SUBSET Row
  /\ moves \in SUBSET Row
  /\ forfeited \in [Users -> Int]
  /\ failures \in 0..MaxFailures
=============================================================================
