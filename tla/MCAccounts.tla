----------------------------- MODULE MCAccounts ------------------------------
(* The instance of Accounts that TLC checks.                                 *)
EXTENDS Accounts, TLC

CONSTANTS s1, s2, u1, u2, k1, k2, q1, q2

Same == Permutations(Slots) \cup Permutations(Users) \cup Permutations(Keys)
          \cup Permutations(Projects)

(* March begins, and April has just begun: 31 days and a minute apart, so    *)
(* that what was recorded at the one is in the month and the period before.  *)
Calendar == <<31, 28, 31, 30, 31>>
Instants == <<59 * Day, 90 * Day + 1>>

(* A model priced apart for what goes in and what comes out: a call is due   *)
(* 2.5 of the last decimal for the one, 1.75 for the other, so 4 in all.     *)
Models == (<<"chat_agent", "thodu">> :> [rate |-> 1500, per |-> 1000, split |-> TRUE,
                                         input |-> 1250, output |-> 1750, increment |-> 0])
(* One engine serves both, through two providers; one call does not say which. *)
Call(model, apart, input, output, provider) ==
  [service |-> "chat_agent", model |-> model, apart |-> apart, input |-> input, output |-> output,
   engine |-> "cb_thodu", provider |-> provider, consumed |-> input + output]
Reported == {Call("none", FALSE, 2, 0, "(unreported)"), Call("thodu", TRUE, 2, 1, "upstream")}
=============================================================================
