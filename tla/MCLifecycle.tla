----------------------------- MODULE MCLifecycle -----------------------------
(* Instances of Lifecycle for TLC: two names, two disks.                   *)
EXTENDS Lifecycle, TLC

CONSTANTS n1, n2, d1, d2, s1, s2

TwoNames == {n1, n2}
TwoDisks == {d1, d2}
OneSession == {s1}
TwoSessions == {s1, s2}

\* Users pass any --pd-name.
FreeNaming == TwoNames \X TwoDisks

\* Nobody passes --pd-name: the disk of n is "<n>-pd".
OwnNaming == {<<n1, d1>>, <<n2, d2>>}

\* Names and disks are interchangeable under FreeNaming, two sessions always.
NamingSymmetry == Permutations(TwoNames) \union Permutations(TwoDisks)
SessionSymmetry == Permutations(TwoSessions)
FreeSymmetry == NamingSymmetry \union SessionSymmetry
=============================================================================
