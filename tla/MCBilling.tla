------------------------------ MODULE MCBilling ------------------------------
(***************************************************************************)
(* Billing for TLC.  One account with two calls, one top-up and its        *)
(* closure; the balance covers one of the calls, and the top-up another.   *)
(***************************************************************************)
EXTENDS Billing, TLC

CONSTANTS c1, c2, p1, g1, h1, u1

MCCalls == {c1, c2}
MCPayments == {p1}
MCRefs == MCCalls \cup MCPayments
MCOpening == (u1 :> 3)
MCOffers == {[units |-> 2, plan |-> "pro"]}
Symmetry == Permutations(MCCalls)
=============================================================================
