---------------------------- MODULE MCSettlement ----------------------------
(***************************************************************************)
(* Settlement for TLC.  Two top-ups and two gateway payments, so that a    *)
(* payment can be reported for the wrong one, and two handlers, so that    *)
(* two reports of one payment, or of two, overlap.                         *)
(***************************************************************************)
EXTENDS Settlement, TLC

CONSTANTS p1, p2, g1, g2, h1, h2, u1

MCPayments == {p1, p2}
MCOnePayment == {p1}
MCOpening == (u1 :> 1)
Pack == [units |-> 2, plan |-> "pro"]
Crumb == [units |-> 0, plan |-> NoPlan]
MCOffers == {Pack, Crumb}
MCPacks == {Pack}
Symmetry == Permutations({p1, p2}) \cup Permutations({g1, g2}) \cup Permutations({h1, h2})
=============================================================================
