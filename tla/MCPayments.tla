----------------------------- MODULE MCPayments -----------------------------
(* Instances of Payments for TLC. *)
EXTENDS Payments, TLC

CONSTANTS w1, w2, p1, o1, o2, r1, r2

TwoRequests == {w1, w2}
OnePlan == {p1}
TwoOrders == {o1, o2}
TwoRuns == {r1, r2}

Symmetry == Permutations(Requests) \cup Permutations(Orders) \cup Permutations(Runs)
=============================================================================
