-------------------------- MODULE MCPlanLifecycle --------------------------
(* Instances of PlanLifecycle for TLC. *)
EXTENDS PlanLifecycle, TLC

CONSTANTS w1, w2, t1, t2, k1, k2, c1, c2

OneRequest == {w1}
TwoRequests == {w1, w2}
OneTask == {t1}
TwoTasks == {t1, t2}
OneTerms == {k1}
TwoTerms == {k1, k2}
OneCandidate == {c1}
TwoCandidates == {c1, c2}

Symmetry == Permutations(Requests) \cup Permutations(Tasks) \cup Permutations(Terms)
=============================================================================
