----------------------------- MODULE StockLedger -----------------------------
(***************************************************************************)
(* What the activity supplier promises (provider/models.py:4-14), apart    *)
(* from clocks, transactions and locks: seats are given to a hold only     *)
(* while enough are left, a hold either becomes a sale or lapses, a sale   *)
(* may be returned, and no seat is taken twice.                            *)
(***************************************************************************)
EXTENDS Integers, FiniteSets

CONSTANTS Activities, Stock, Holds, Quantities, None

VARIABLE ledger   \* ledger[h]: the state, activity and quantity of hold h

Free == [state |-> "free", activity |-> None, qty |-> 0]

Taking(a) ==
    {h \in Holds : ledger[h].activity = a /\ ledger[h].state \in {"held", "sold"}}

Taken(a) == Cardinality(UNION {{h} \X (1 .. ledger[h].qty) : h \in Taking(a)})

Init == ledger = [h \in Holds |-> Free]

\* A hold whose call was slow may have lapsed before the caller hears of it.
Hold(h) ==
    /\ ledger[h] = Free
    /\ \E a \in Activities, q \in Quantities \ {0}, s \in {"held", "lapsed"} :
          /\ Taken(a) + q <= Stock[a]
          /\ ledger' = [ledger EXCEPT ![h] = [state |-> s, activity |-> a, qty |-> q]]

Move(h, from, to) ==
    /\ ledger[h].state = from
    /\ ledger' = [ledger EXCEPT ![h].state = to]

Sell(h) == Move(h, "held", "sold")

Return(h) == Move(h, "sold", "returned")

\* Time takes the holds that expire together.
Lapse(S) ==
    /\ \A h \in S : ledger[h].state = "held"
    /\ ledger' = [h \in Holds |->
                     IF h \in S THEN [ledger[h] EXCEPT !.state = "lapsed"] ELSE ledger[h]]

Next ==
    \/ \E h \in Holds : Hold(h) \/ Sell(h) \/ Return(h)
    \/ \E S \in SUBSET Holds : Lapse(S)

Spec == Init /\ [][Next]_ledger

\* The promise itself.
NoSeatTakenTwice == \A a \in Activities : Taken(a) <= Stock[a]
=============================================================================
