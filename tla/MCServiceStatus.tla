--------------------------- MODULE MCServiceStatus ---------------------------
(* The instance of ServiceStatus that TLC checks.                            *)
EXTENDS ServiceStatus

CONSTANTS r1, p1, g1

PollsTts == <<"tts">>
=============================================================================
