------------------------------ MODULE MCTunnel ------------------------------
(* Instances of Tunnel for TLC: two names, on ports of their own or on one. *)
EXTENDS Tunnel, TLC

CONSTANTS n1, n2, s1, s2, p1, p2, p3, p4, p5, port

TwoNames == {n1, n2}
OneSession == {s1}
TwoSessions == {s1, s2}
ThreePids == {p1, p2, p3}
FourPids == {p1, p2, p3, p4}
FivePids == {p1, p2, p3, p4, p5}

OwnPorts == [n \in TwoNames |-> n]
OnePort == [n \in TwoNames |-> port]

PidSymmetry == Permutations(Pids)
Symmetries == Permutations(Pids) \union Permutations(Sessions) \union Permutations(Names)
=============================================================================
