--------------------------- MODULE ConfirmedRuns ---------------------------
(***************************************************************************)
(* What the intent gate promises (parse_confirm, agents/views.py:309-311:  *)
(* "a gate that keeps the pipeline from running on a misunderstanding"):   *)
(* the card shown under an id never changes, a user agrees to a card as it *)
(* was shown, and what a run searches for is what was agreed to.           *)
(***************************************************************************)
CONSTANTS Ids, RunIds

VARIABLES
    shown,      \* the pairs of an id and the card shown under it
    agreed,     \* those of them the user agreed to
    started     \* the pairs of a run and the fields it searches for

vars == <<shown, agreed, started>>

Init ==
    /\ shown = {}
    /\ agreed = {}
    /\ started = {}

\* Any card may be shown, under an id of its own.
Show ==
    /\ \E s \in shown' \ shown :
          /\ s[1] \in Ids
          /\ \A earlier \in shown : earlier[1] # s[1]
          /\ shown' = shown \cup {s}
    /\ UNCHANGED <<agreed, started>>

Agree ==
    /\ \E s \in shown : agreed' = agreed \cup {s}
    /\ UNCHANGED <<shown, started>>

Start(r) ==
    /\ \A earlier \in started : earlier[1] # r
    /\ \E s \in agreed : started' = started \cup {<<r, s[2].fields>>}
    /\ UNCHANGED <<shown, agreed>>

Next == Show \/ Agree \/ \E r \in RunIds : Start(r)

Spec == Init /\ [][Next]_vars
=============================================================================
