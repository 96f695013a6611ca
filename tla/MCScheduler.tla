----------------------------- MODULE MCScheduler -----------------------------
(* The instances of Scheduler that TLC checks.                               *)
EXTENDS Scheduler

CONSTANTS w1, w2, o1, u1, u2

Nudges == <<"onboarding_nudges">>
Dailies == <<"onboarding_nudges", "verification_reminders">>
=============================================================================
