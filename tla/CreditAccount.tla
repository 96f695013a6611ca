---------------------------- MODULE CreditAccount ----------------------------
(***************************************************************************)
(* What a customer is promised of the credit store, with no handlers, no   *)
(* steps in between and no failures: the balance moves in single,          *)
(* indivisible movements; whatever a movement is for moves it once and     *)
(* never again; a debit never takes the balance below zero while the       *)
(* balance is enforced; and the figure recorded with a movement is the     *)
(* balance it left.  Closing an account empties it.                        *)
(***************************************************************************)
EXTENDS Integers

CONSTANTS Users, Refs, Opening

VARIABLES balance, moves,
          enforced   \* an account may not be overdrawn

Init ==
  /\ balance = Opening
  /\ moves = {}
  /\ enforced \in BOOLEAN

\* Nothing has been moved for r yet.
Fresh(r) == \A m \in moves : m.ref # r

Apply(u, r, k, n) ==
  /\ r \in Refs
  /\ Fresh(r)
  /\ enforced /\ n <= 0 => balance[u] + n >= 0
  /\ balance' = [balance EXCEPT ![u] = @ + n]
  /\ moves' = moves \cup 
       {[user |-> u, ref |-> r, kind |-> k, units |-> n, after |-> balance[u] + n]}
  /\ UNCHANGED enforced

Close(u) ==
  /\ balance' = [balance EXCEPT ![u] = 0]
  /\ UNCHANGED <<moves, enforced>>

\* Some movement of user u: the one that was not there before.
Movement(u) ==
  \E m \in moves' : m \notin moves /\ m.user = u /\ Apply(u, m.ref, m.kind, m.units)

Next == \E u \in Users : Movement(u) \/ Close(u)

Spec == Init /\ [][Next]_<<balance, moves, enforced>>
=============================================================================
