-------------------------- MODULE MCInstanceConfigs --------------------------
(* Instances of InstanceConfigs for TLC: two names and "default".          *)
EXTENDS InstanceConfigs, TLC

CONSTANTS n1, n2, s1, s2

TwoNames == {n1, n2}
NamesAndDefault == {n1, n2, Default}
OneSession == {s1}
TwoSessions == {s1, s2}
SomePorts == {1, 4}
NoPorts == {}
TopPort == {65535}

NameSymmetry == Permutations(TwoNames)
FullSymmetry == NameSymmetry \union Permutations(TwoSessions)
=============================================================================
