----------------------------- MODULE MCMetering -----------------------------
(***************************************************************************)
(* Metering for TLC.  Three calls, so that a call, its retry and a third   *)
(* one that competes for the same credits overlap; the balance covers      *)
(* one of them at the dearer price and not two; another customer may use   *)
(* the same key.                                                           *)
(***************************************************************************)
EXTENDS Metering, TLC

CONSTANTS c1, c2, c3, u1, u2, k1

MCCalls == {c1, c2, c3}
MCOpening == (u1 :> 3) @@ (u2 :> 2)
Symmetry == Permutations(MCCalls)
=============================================================================
