------------------------------ MODULE MCStartup ------------------------------
(* Instances of Startup for TLC: the numbers are in the configs.  The code   *)
(* has 10 retries of 10 seconds and bounds neither boots nor SSDs.          *)
EXTENDS Startup

\* Up to three SSDs: none, one, and several, of which not all are needed to
\* tell "all" from "the first two".
SomeSsds == 3
=============================================================================
