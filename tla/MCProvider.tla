----------------------------- MODULE MCProvider -----------------------------
(* Instances of Provider for TLC. *)
EXTENDS Provider, TLC

CONSTANTS c1, c2, h1, h2, h3, n1, n2, n3, a1

TwoCallers == {c1, c2}
TwoHolds == {h1, h2}
ThreeHolds == {h1, h2, h3}
TwoConfs == {n1, n2}
ThreeConfs == {n1, n2, n3}
OneActivity == {a1}

TwoSeats == [a \in Activities |-> 2]

Symmetry == Permutations(Callers) \cup Permutations(Holds) \cup Permutations(Confs)
=============================================================================
