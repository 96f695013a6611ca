--------------------------- MODULE MCVerification ----------------------------
(* The instance of Verification that TLC checks.                             *)
EXTENDS Verification, TLC

CONSTANTS s1, s2, a1, a2, n1, n2

LimitedKeys == ({"send", "guess"} \X Numbers) \cup ({"otp"} \X Accounts)
Limits == [send |-> 1, guess |-> 1, otp |-> 1]
Same == Permutations(Slots) \cup Permutations(Accounts)
=============================================================================
