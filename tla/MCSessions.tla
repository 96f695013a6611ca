----------------------------- MODULE MCSessions -----------------------------
(***************************************************************************)
(* Sessions for TLC: two refresh tokens, which are two sign-ins or one and *)
(* its renewal; two handlers that overlap in every way; two handlers that  *)
(* end sessions, so that each way to do so meets itself and the others.    *)
(***************************************************************************)
EXTENDS Sessions, TLC

CONSTANTS t1, t2, h1, h2

MCTokens == {t1, t2}
MCSlots == {h1, h2}
Symmetry == Permutations(MCTokens) \cup Permutations(MCSlots)
=============================================================================
