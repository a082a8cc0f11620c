---------------------------- MODULE MCIdleSuspend ----------------------------
(* Instances of IdleSuspend for TLC, with the numbers in the configs: the   *)
(* timeout is 30 polls and MaxFails 10 in the code.                         *)
EXTENDS IdleSuspend

\* The latest time the properties tell apart: every suspend has failed.
LongEnough == (MaxFails + 2) * Timeout + 1
=============================================================================
