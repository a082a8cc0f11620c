----------------------------- MODULE MCSshConfig -----------------------------
(* Instances of SshConfig for TLC.                                         *)
EXTENDS SshConfig

CONSTANTS h1, h2

UserWords == {"a", "b"}
SomeHosts == {{}, {h1}, {h1, h2}}
=============================================================================
