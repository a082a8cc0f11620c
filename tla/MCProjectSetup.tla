--------------------------- MODULE MCProjectSetup ---------------------------
(* Instances of ProjectSetup for TLC: two sessions at a time, an image with *)
(* a plain name or one from another registry.                               *)
EXTENDS ProjectSetup, TLC

CONSTANTS s1, s2, own

TwoSessions == {s1, s2}
ThreeAccounts == 1 .. 3
OwnAccount == {own}

OnHub == [host |-> << >>, port |-> << >>, path |-> <<"w", "/", "w">>, tag |-> <<"w", ".", "w">>,
          digest |-> FALSE]
Elsewhere == [OnHub EXCEPT !.host = <<"w", ".", "w">>]
TwoImages == {OnHub, Elsewhere}

\* The user's own account works (one that does not ends a create where a
\* registry that says no does), and the registry has at most one of the name
\* that is meant and the name that is asked for (with both, creates do what they
\* do with the second).
SettledInit ==
  /\ Init
  /\ account[own] = "effective"
  /\ readable # {} => readable = {image} \/ readable = {Requested[image]}

SettledSpec == SettledInit /\ [][Next]_vars /\ Fairness
=============================================================================
