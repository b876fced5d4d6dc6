--------------------------- MODULE ProviderProofs ---------------------------
(***************************************************************************)
(* Proofs about Provider, for every number of callers, holds, activities   *)
(* and quantities, every stock and every hold lifetime: its invariants,    *)
(* and that with prompt reserves (PromptSpec) it never oversells and       *)
(* implements StockLedger.                                                 *)
(***************************************************************************)
EXTENDS Provider, FiniteSetTheorems, TLAPS

-----------------------------------------------------------------------------
(* Counting seats                                                          *)

\* The seats of one hold of quantity n are n.
LEMMA OneHoldSeats ==
    ASSUME NEW h, NEW n \in Nat
    PROVE  IsFiniteSet({h} \X (1 .. n)) /\ Cardinality({h} \X (1 .. n)) = n
<1> DEFINE I == 1 .. n
<1>1. IsFiniteSet(I) /\ Cardinality(I) = IF 1 > n THEN 0 ELSE n - 1 + 1
  <2>1. 1 \in Int /\ n \in Int
    OBVIOUS
  <2> QED
    BY <2>1, FS_Interval
<1>2. Cardinality(I) = n
  BY <1>1
<1>3. IsFiniteSet({h}) /\ Cardinality({h}) = 1
  BY FS_Singleton
<1>4. IsFiniteSet({h} \X I) /\ Cardinality({h} \X I) = 1 * n
  <2> HIDE DEF I
  <2> QED
    BY <1>1, <1>2, <1>3, FS_Product
<1> QED
  BY <1>4

\* The seats of finitely many holds are finitely many.
LEMMA SeatsFinite ==
    ASSUME NEW row, NEW S, IsFiniteSet(S), \A h \in S : row[h].qty \in Nat
    PROVE  IsFiniteSet(Seats(row, S)) /\ Cardinality(Seats(row, S)) \in Nat
<1> DEFINE Of(h) == {h} \X (1 .. row[h].qty)
           Parts == {Of(h) : h \in S}
<1>1. IsFiniteSet(Parts)
  <2> DEFINE f == [h \in S |-> Of(h)]
  <2>1. f \in Surjection(S, Parts)
    BY DEF Surjection
  <2> QED
    BY <2>1, FS_Surjection
<1>2. \A P \in Parts : IsFiniteSet(P)
  <2> TAKE P \in Parts
  <2>1. PICK h \in S : P = Of(h)
    OBVIOUS
  <2>2. row[h].qty \in Nat
    OBVIOUS
  <2> QED
    BY <2>1, <2>2, OneHoldSeats
<1>3. Seats(row, S) = UNION Parts
  BY DEF Seats
<1> QED
  <2> HIDE DEF Parts
  <2> QED
    BY <1>1, <1>2, <1>3, FS_UNION, FS_CardinalityType

\* Fewer holds take no more seats.
LEMMA SeatsMonotone ==
    ASSUME NEW row, NEW T, IsFiniteSet(T), \A h \in T : row[h].qty \in Nat,
           NEW S \in SUBSET T
    PROVE  Cardinality(Seats(row, S)) <= Cardinality(Seats(row, T))
<1>1. Seats(row, S) \subseteq Seats(row, T)
  BY DEF Seats
<1>2. IsFiniteSet(Seats(row, T))
  BY SeatsFinite
<1> QED
  BY <1>1, <1>2, FS_Subset

\* A further hold takes no more seats than its quantity.
LEMMA SeatsAdd ==
    ASSUME NEW row, NEW S, IsFiniteSet(S), \A g \in S : row[g].qty \in Nat,
           NEW h, row[h].qty \in Nat
    PROVE  Cardinality(Seats(row, S \cup {h})) <= Cardinality(Seats(row, S)) + row[h].qty
<1> DEFINE New == {h} \X (1 .. row[h].qty)
<1>1. Seats(row, S \cup {h}) = Seats(row, S) \cup New
  BY DEF Seats
<1>2. IsFiniteSet(New) /\ Cardinality(New) = row[h].qty
  BY OneHoldSeats
<1>3. IsFiniteSet(Seats(row, S)) /\ Cardinality(Seats(row, S)) \in Nat
  BY SeatsFinite
<1> HIDE DEF New
<1>4. /\ IsFiniteSet(Seats(row, S) \cap New)
      /\ Cardinality(Seats(row, S) \cap New) \in Nat
  BY <1>2, <1>3, FS_Intersection, FS_CardinalityType
<1>5. Cardinality(Seats(row, S) \cup New) =
        Cardinality(Seats(row, S)) + Cardinality(New) - Cardinality(Seats(row, S) \cap New)
  BY <1>2, <1>3, FS_Union
<1>6. Cardinality(Seats(row, S \cup {h})) =
        Cardinality(Seats(row, S)) + row[h].qty - Cardinality(Seats(row, S) \cap New)
  BY <1>1, <1>2, <1>5
<1> QED
  BY <1>3, <1>4, <1>6

\* Only the quantities of the holds themselves matter.
LEMMA SeatsSame ==
    ASSUME NEW row1, NEW row2, NEW S, \A h \in S : row1[h].qty = row2[h].qty
    PROVE  Seats(row1, S) = Seats(row2, S)
BY DEF Seats

\* Fewer holds, whose rows have not changed, take no more seats than before.
LEMMA SeatsShrink ==
    ASSUME NEW row1, NEW row2, NEW T \in SUBSET Holds, \A h \in T : row1[h].qty \in Nat,
           NEW S \in SUBSET T, \A h \in S : row2[h].qty = row1[h].qty
    PROVE  /\ Cardinality(Seats(row2, S)) <= Cardinality(Seats(row1, T))
           /\ Cardinality(Seats(row2, S)) \in Nat
           /\ Cardinality(Seats(row1, T)) \in Nat
<1>1. IsFiniteSet(T) /\ IsFiniteSet(S)
  <2>1. IsFiniteSet(T)
    BY ProviderAssumption, FS_Subset
  <2> QED
    BY <2>1, FS_Subset
<1>2. Seats(row2, S) = Seats(row1, S)
  BY SeatsSame
<1>3. Cardinality(Seats(row1, S)) <= Cardinality(Seats(row1, T))
  BY <1>1, SeatsMonotone
<1>4. Cardinality(Seats(row1, S)) \in Nat /\ Cardinality(Seats(row1, T)) \in Nat
  BY <1>1, SeatsFinite
<1> QED
  BY <1>2, <1>3, <1>4

-----------------------------------------------------------------------------
(* The invariant                                                           *)

\* The holds that occupy stock have rows with quantities.
LEMMA OccupyingRows ==
    ASSUME TypeOK, NEW a, NEW t
    PROVE  /\ Occupying(a, t) \subseteq Holds
           /\ \A h \in Occupying(a, t) : hold[h] \in HoldRow /\ hold[h].qty \in Nat
BY DEF TypeOK, Occupying, Occupies, HoldRow

\* SoldWithinStock survives a step that changes no row and adds no occupant.
LEMMA SoldShrinks ==
    ASSUME TypeOK, SoldWithinStock, UNCHANGED hold,
           \A a \in Activities : (Occupying(a, now) \ late)' \subseteq Occupying(a, now) \ late
    PROVE  SoldWithinStock'
<1> SUFFICES ASSUME NEW a \in Activities
             PROVE  Cardinality(Seats(hold, Occupying(a, now) \ late))' <= Stock[a]
  BY DEF SoldWithinStock
<1> DEFINE T == Occupying(a, now) \ late
           S == (Occupying(a, now) \ late)'
<1>1. T \in SUBSET Holds /\ \A h \in T : hold[h].qty \in Nat
  BY OccupyingRows
<1>2. S \in SUBSET T
  OBVIOUS
<1>3. Cardinality(Seats(hold, T)) <= Stock[a]
  BY DEF SoldWithinStock
<1>4. Stock[a] \in Nat
  BY ProviderAssumption
<1> HIDE DEF S, T
<1>5. /\ Cardinality(Seats(hold, S)) <= Cardinality(Seats(hold, T))
      /\ Cardinality(Seats(hold, S)) \in Nat
      /\ Cardinality(Seats(hold, T)) \in Nat
  BY <1>1, <1>2, SeatsShrink
<1>6. Cardinality(Seats(hold, S)) <= Stock[a]
  BY <1>3, <1>4, <1>5
<1>7. Seats(hold, Occupying(a, now) \ late)' = Seats(hold, S)
  BY DEF S, Seats
<1> QED
  BY <1>6, <1>7

\* What activity a has consumed at t does not grow in a step that adds it no occupant
\* and leaves the rows of its occupants alone.
LEMMA ConsumedShrinks ==
    ASSUME TypeOK, NEW a, NEW t,
           Occupying(a, t)' \subseteq Occupying(a, t),
           \A h \in Occupying(a, t)' : hold'[h] = hold[h]
    PROVE  /\ ConsumedQty(a, t)' <= ConsumedQty(a, t)
           /\ ConsumedQty(a, t)' \in Nat
           /\ ConsumedQty(a, t) \in Nat
<1> DEFINE T == Occupying(a, t)
           S == Occupying(a, t)'
<1>1. T \in SUBSET Holds /\ \A h \in T : hold[h].qty \in Nat
  BY OccupyingRows
<1>2. S \in SUBSET T /\ \A h \in S : hold'[h].qty = hold[h].qty
  OBVIOUS
<1> HIDE DEF S, T
<1>3. /\ Cardinality(Seats(hold', S)) <= Cardinality(Seats(hold, T))
      /\ Cardinality(Seats(hold', S)) \in Nat
      /\ Cardinality(Seats(hold, T)) \in Nat
  BY <1>1, <1>2, SeatsShrink
<1>4. ConsumedQty(a, t)' = Cardinality(Seats(hold', S))
  BY DEF S, ConsumedQty, Seats
<1>5. ConsumedQty(a, t) = Cardinality(Seats(hold, T))
  BY DEF T, ConsumedQty
<1> QED
  BY <1>3, <1>4, <1>5

\* The quantity that is taken is a number.
LEMMA ConsumedIsNat ==
    ASSUME TypeOK, NEW a, NEW t
    PROVE  ConsumedQty(a, t) \in Nat
<1>1. Occupying(a, t) \in SUBSET Holds /\ \A h \in Occupying(a, t) : hold[h].qty \in Nat
  BY OccupyingRows
<1>2. IsFiniteSet(Occupying(a, t))
  BY <1>1, ProviderAssumption, FS_Subset
<1> QED
  BY <1>1, <1>2, SeatsFinite DEF ConsumedQty

\* With no calls and no rows everything holds.
LEMMA InitInv == Init => Inv
<1> SUFFICES ASSUME Init PROVE Inv
  OBVIOUS
<1>1. TypeOK
  BY DEF Init, TypeOK, PCs
<1>2. LocksHeld /\ RequestsOK /\ RowsOK /\ ChecksStillHold
  BY DEF Init, LocksHeld, RequestsOK, RowsOK, ChecksStillHold, Reserving
<1>3. SoldWithinStock
  <2> SUFFICES ASSUME NEW a \in Activities
               PROVE  Cardinality(Seats(hold, Occupying(a, now) \ late)) <= Stock[a]
    BY DEF SoldWithinStock
  <2>1. Seats(hold, Occupying(a, now) \ late) = {}
    BY DEF Init, Occupying, Occupies, Seats
  <2>2. Cardinality({}) = 0
    BY FS_EmptySet
  <2> QED
    BY <2>1, <2>2, ProviderAssumption
<1>4. OneConfirmationPerHold /\ ConflictOnlyAfterCancel
  BY DEF Init, OneConfirmationPerHold, ConflictOnlyAfterCancel
<1> QED
  BY <1>1, <1>2, <1>3, <1>4 DEF Inv

\* A call that returns touches no other call and no other call's locks.
LEMMA ReturnFacts ==
    ASSUME TypeOK, NEW c \in Callers, Return(c)
    PROVE  /\ pc' \in [Callers -> PCs]
           /\ req' \in [Callers -> Request \cup {None}]
           /\ activityLock' \in [Activities -> Callers \cup {None}]
           /\ holdLock' \in [Holds -> Callers \cup {None}]
           /\ pc'[c] = "idle"
           /\ \A d \in Callers \ {c} : pc'[d] = pc[d] /\ req'[d] = req[d]
           /\ \A d \in Callers \ {c} :
                 /\ \A a \in Activities : activityLock[a] = d => activityLock'[a] = d
                 /\ \A h \in Holds : holdLock[h] = d => holdLock'[h] = d
BY DEF TypeOK, Return, PCs

\* Calls that return or stay put, over rows that grow, keep their locks and requests.
LEMMA ReturnKeeps ==
    ASSUME Inv, NEW c \in Callers, Return(c), now' = now,
           \A h \in Holds : hold[h] # None => hold'[h] = hold[h]
    PROVE  LocksHeld' /\ RequestsOK'
<1> USE ReturnFacts DEF Inv
<1>1. LocksHeld'
  <2> SUFFICES ASSUME NEW d \in Callers, pc'[d] # "idle"
               PROVE  /\ pc'[d] \in {"reserve_wait_activity", "reserve_insert"} =>
                            holdLock'[req'[d].hold] = d
                      /\ pc'[d] \in {"hold_insert", "reserve_insert"} =>
                            activityLock'[req'[d].activity] = d
    BY DEF LocksHeld
  <2>1. d \in Callers \ {c}
    OBVIOUS
  <2>2. pc'[d] = pc[d] /\ req'[d] = req[d]
    BY <2>1
  <2>3. req[d] \in Request /\ req[d].activity \in Activities
    BY <2>2 DEF RequestsOK, Request
  <2>4. pc[d] \in {"reserve_wait_activity", "reserve_insert"} => req[d].hold \in Holds
    BY DEF RequestsOK, Reserving
  <2> QED
    BY <2>1, <2>2, <2>3, <2>4 DEF LocksHeld
<1>2. RequestsOK'
  BY DEF RequestsOK, Reserving
<1> QED
  BY <1>1, <1>2

\* Time passing expires holds, and frees what they take.
LEMMA TickInv == Inv /\ Tick => Inv'
<1> SUFFICES ASSUME Inv, Tick PROVE Inv'
  OBVIOUS
<1> USE DEF Inv, Tick, rows, locks, calls, history
<1>1. now \in Nat /\ now' \in Nat /\ now <= now'
  BY DEF TypeOK
<1>2. TypeOK'
  BY <1>1 DEF TypeOK
<1>3. LocksHeld' /\ RowsOK' /\ OneConfirmationPerHold' /\ ConflictOnlyAfterCancel'
  BY DEF LocksHeld, RowsOK, OneConfirmationPerHold, ConflictOnlyAfterCancel
<1>4. RequestsOK'
  BY <1>1 DEF RequestsOK, Request
<1>5. ChecksStillHold'
  BY DEF ChecksStillHold, ConsumedQty, Seats, Occupying, Occupies
<1>6. SoldWithinStock'
  <2>1. \A a \in Activities : (Occupying(a, now) \ late)' \subseteq Occupying(a, now) \ late
    BY <1>1 DEF Occupying, Occupies, TypeOK, HoldRow
  <2> QED
    BY <2>1, SoldShrinks
<1> QED
  BY <1>2, <1>3, <1>4, <1>5, <1>6

\* A step that leaves the clock and the tables alone and moves one call only.
LEMMA CallStepKeeps ==
    ASSUME Inv, UNCHANGED <<now, rows, conflict, late>>
    PROVE  SoldWithinStock' /\ ConflictOnlyAfterCancel'
           /\ \A a, t : ConsumedQty(a, t)' = ConsumedQty(a, t)
BY DEF Inv, rows, SoldWithinStock, ConflictOnlyAfterCancel, ConsumedQty, Seats,
       Occupying, Occupies

\* A call for a hold begins.
LEMMA BeginHoldInv ==
    ASSUME Inv, NEW c \in Callers, NEW a \in Activities, NEW q \in Quantities,
           BeginHold(c, a, q)
    PROVE  Inv'
<1> USE DEF Inv, BeginHold, Goto
<1>1. TypeOK'
  BY ProviderAssumption DEF TypeOK, PCs, Request, rows, locks, history
<1>2. SoldWithinStock' /\ ConflictOnlyAfterCancel'
      /\ \A b, t : ConsumedQty(b, t)' = ConsumedQty(b, t)
  BY CallStepKeeps DEF history
<1>3. LocksHeld' /\ RowsOK' /\ OneConfirmationPerHold'
  BY DEF TypeOK, LocksHeld, RowsOK, OneConfirmationPerHold, rows, locks, history
<1>4. RequestsOK'
  <2> SUFFICES ASSUME NEW d \in Callers
               PROVE  /\ pc'[d] # "idle" => req'[d] \in Request /\ req'[d].at <= now
                      /\ pc'[d] \in {"hold_wait", "hold_insert"} => req'[d].qty \in Quantities \ {0}
                      /\ pc'[d] \in Reserving =>
                            /\ req'[d].hold \in Holds
                            /\ hold[req'[d].hold] # None
                            /\ hold[req'[d].hold].activity = req'[d].activity
    BY DEF RequestsOK, rows
  <2>1. CASE d = c
    <3>1. req'[d] = [activity |-> a, hold |-> None, qty |-> q, at |-> now] /\ pc'[d] = "hold_wait"
      BY <2>1 DEF TypeOK
    <3>2. req'[d] \in Request /\ req'[d].at <= now
      BY <3>1, ProviderAssumption DEF TypeOK, Request
    <3> QED
      BY <3>1, <3>2 DEF Reserving
  <2>2. CASE d # c
    BY <2>2 DEF RequestsOK, TypeOK
  <2> QED
    BY <2>1, <2>2
<1>5. ChecksStillHold'
  BY <1>2 DEF TypeOK, ChecksStillHold, rows
<1> QED
  BY <1>1, <1>2, <1>3, <1>4, <1>5

\* A call that has the lock looks at what is left.
LEMMA CheckStockInv ==
    ASSUME Inv, NEW c \in Callers, CheckStock(c)
    PROVE  Inv'
<1> DEFINE a == req[c].activity
<1> USE DEF Inv
<1>1. UNCHANGED <<now, rows, history>> /\ pc[c] = "hold_wait" /\ activityLock[a] = None
  BY DEF CheckStock
<1>2. /\ SoldWithinStock' /\ ConflictOnlyAfterCancel'
      /\ \A b, t : ConsumedQty(b, t)' = ConsumedQty(b, t)
  BY <1>1, CallStepKeeps DEF history
<1>3. RowsOK' /\ OneConfirmationPerHold'
  BY <1>1 DEF RowsOK, OneConfirmationPerHold, rows, history
<1>4. req[c] \in Request
  BY <1>1 DEF RequestsOK
<1>5. CASE Return(c)
  <2>1. TypeOK'
    BY <1>1, <1>5, ReturnFacts DEF TypeOK, rows, history
  <2>2. LocksHeld' /\ RequestsOK'
    BY <1>1, <1>5, ReturnKeeps DEF rows
  <2>3. ChecksStillHold'
    BY <1>1, <1>2, <1>5, ReturnFacts DEF ChecksStillHold, rows
  <2> QED
    BY <1>2, <1>3, <2>1, <2>2, <2>3
<1>6. CASE /\ Stock[a] - ConsumedQty(a, req[c].at) >= req[c].qty
           /\ activityLock' = [activityLock EXCEPT ![a] = c]
           /\ Goto(c, "hold_insert")
           /\ UNCHANGED <<holdLock, req>>
  <2>1. TypeOK'
    BY <1>1, <1>6 DEF TypeOK, PCs, Goto, rows, history
  <2>2. \A b \in Activities : ConsumedQty(b, req[c].at) \in Nat
    BY ConsumedIsNat
  <2>3. a \in Activities /\ Stock[a] \in Nat /\ req[c].qty \in Nat
    BY <1>4, ProviderAssumption DEF Request
  <2>4. ConsumedQty(a, req[c].at) + req[c].qty <= Stock[a]
    BY <1>6, <2>2, <2>3
  <2>5. LocksHeld'
    BY <1>1, <1>4, <1>6, ProviderAssumption DEF LocksHeld, RequestsOK, TypeOK, Goto, Request
  <2>6. RequestsOK'
    BY <1>1, <1>6 DEF RequestsOK, TypeOK, Goto, Reserving, rows
  <2>7. ChecksStillHold'
    BY <1>1, <1>2, <1>6, <2>4 DEF ChecksStillHold, TypeOK, Goto, rows
  <2> QED
    BY <1>2, <1>3, <2>1, <2>5, <2>6, <2>7
<1> QED
  BY <1>5, <1>6 DEF CheckStock

\* A hold is inserted for the seats that were checked to fit: its activity's
\* row has been locked since the check, so nobody else took them.
LEMMA CommitHoldInv ==
    ASSUME Inv, NEW c \in Callers, NEW h \in Holds, CommitHold(c, h)
    PROVE  Inv'
<1> DEFINE a == req[c].activity
           at == req[c].at
           q == req[c].qty
           new == [activity |-> a, qty |-> q, expires |-> at + TTL]
<1> USE DEF Inv
<1>1. /\ pc[c] = "hold_insert" /\ hold[h] = None /\ Return(c)
      /\ hold' = [hold EXCEPT ![h] = new]
      /\ UNCHANGED <<now, status, conf, told, conflict, late>>
  BY DEF CommitHold, history
<1>2. /\ a \in Activities /\ q \in Nat /\ at \in Nat /\ at <= now /\ now \in Nat
      /\ new \in HoldRow /\ h \notin late /\ status[h] = "none"
  <2>1. req[c] \in Request /\ at <= now
    BY <1>1 DEF RequestsOK
  <2> QED
    BY <1>1, <2>1, ProviderAssumption DEF Request, HoldRow, RowsOK, TypeOK
<1>3. /\ hold'[h] = new
      /\ \A g \in Holds \ {h} : hold'[g] = hold[g]
      /\ \A g \in Holds : hold[g] # None => hold'[g] = hold[g]
  BY <1>1 DEF TypeOK
<1>4. new # None
  BY <1>2, ProviderAssumption DEF HoldRow
<1> HIDE DEF new
<1>5. TypeOK'
  BY <1>1, <1>2, ReturnFacts DEF TypeOK
<1>6. LocksHeld' /\ RequestsOK'
  BY <1>1, <1>3, ReturnKeeps
<1>7. RowsOK' /\ OneConfirmationPerHold' /\ ConflictOnlyAfterCancel'
  BY <1>1, <1>3, <1>4 DEF RowsOK, OneConfirmationPerHold, ConflictOnlyAfterCancel
<1>8. ASSUME NEW b \in Activities \ {a}, NEW t
      PROVE  /\ ConsumedQty(b, t)' <= ConsumedQty(b, t)
             /\ ConsumedQty(b, t)' \in Nat /\ ConsumedQty(b, t) \in Nat
  <2>1. h \notin Occupying(b, t)'
    BY <1>3 DEF Occupying, Occupies, new
  <2>2. Occupying(b, t)' \subseteq Occupying(b, t)
    BY <1>1, <1>3, <2>1 DEF Occupying, Occupies
  <2>3. \A g \in Occupying(b, t)' : hold'[g] = hold[g]
    BY <1>3, <2>1 DEF Occupying
  <2> QED
    BY <2>2, <2>3, ConsumedShrinks
<1>9. ChecksStillHold'
  <2> SUFFICES ASSUME NEW d \in Callers, pc'[d] # "idle"
               PROVE  /\ pc'[d] = "hold_insert" =>
                            ConsumedQty(req[d].activity, req[d].at)' + req'[d].qty
                                <= Stock[req'[d].activity]
                      /\ pc'[d] = "reserve_insert" => status'[req'[d].hold] # "confirmed"
    BY DEF ChecksStillHold
  <2>1. d # c /\ pc'[d] = pc[d] /\ req'[d] = req[d]
    BY <1>1, ReturnFacts
  <2>2. ASSUME pc'[d] = "hold_insert"
        PROVE  ConsumedQty(req[d].activity, req[d].at)' + req'[d].qty <= Stock[req'[d].activity]
    <3>1. req[d] \in Request
      BY <2>1, <2>2 DEF RequestsOK
    <3>2. activityLock[req[d].activity] = d /\ activityLock[a] = c
      BY <1>1, <2>1, <2>2 DEF LocksHeld
    <3>3. req[d].activity \in Activities \ {a} /\ req[d].qty \in Nat
      BY <2>1, <3>1, <3>2 DEF Request
    <3>4. ConsumedQty(req[d].activity, req[d].at) + req[d].qty <= Stock[req[d].activity]
      BY <2>1, <2>2 DEF ChecksStillHold
    <3>5. Stock[req[d].activity] \in Nat
      BY <3>3, ProviderAssumption
    <3>6. PICK b, t : b = req[d].activity /\ t = req[d].at
      OBVIOUS
    <3>7. /\ ConsumedQty(b, t)' <= ConsumedQty(b, t)
          /\ ConsumedQty(b, t)' \in Nat /\ ConsumedQty(b, t) \in Nat
      BY <3>3, <3>6, <1>8
    <3>8. ConsumedQty(req[d].activity, req[d].at)' = ConsumedQty(b, t)'
      BY <2>1, <3>6 DEF ConsumedQty, Seats, Occupying, Occupies
    <3>9. ConsumedQty(req[d].activity, req[d].at) = ConsumedQty(b, t)
      BY <3>6
    <3> QED
      BY <2>1, <3>3, <3>4, <3>5, <3>6, <3>7, <3>8, <3>9
  <2>3. pc'[d] = "reserve_insert" => status'[req'[d].hold] # "confirmed"
    BY <1>1, <2>1 DEF ChecksStillHold
  <2> QED
    BY <2>2, <2>3
<1>10. SoldWithinStock'
  <2> SUFFICES ASSUME NEW b \in Activities
               PROVE  Cardinality(Seats(hold, Occupying(b, now) \ late))' <= Stock[b]
    BY DEF SoldWithinStock
  <2> DEFINE S == (Occupying(b, now) \ late)'
             T == Occupying(b, now) \ late
  <2>1. S \ {h} \subseteq T
    BY <1>1, <1>3 DEF Occupying, Occupies
  <2>2. T \in SUBSET Holds /\ (\A g \in T : hold[g].qty \in Nat) /\ h \notin T
    BY <1>1, OccupyingRows DEF Occupying, Occupies
  <2>3. Cardinality(Seats(hold, T)) <= Stock[b] /\ Stock[b] \in Nat
    BY ProviderAssumption DEF SoldWithinStock
  <2>4. Seats(hold, Occupying(b, now) \ late)' = Seats(hold', S)
    BY DEF Seats
  <2>5. S \ {h} \in SUBSET T /\ \A g \in S \ {h} : hold'[g].qty = hold[g].qty
    BY <1>3, <2>1, <2>2
  <2>6. CASE b # a
    <3>1. S = S \ {h}
      BY <1>3, <2>6 DEF Occupying, Occupies, new
    <3> HIDE DEF S, T
    <3>2. /\ Cardinality(Seats(hold', S \ {h})) <= Cardinality(Seats(hold, T))
          /\ Cardinality(Seats(hold', S \ {h})) \in Nat
          /\ Cardinality(Seats(hold, T)) \in Nat
      BY <2>2, <2>5, SeatsShrink
    <3>3. Cardinality(Seats(hold', S)) <= Stock[b]
      BY <2>3, <3>1, <3>2
    <3> QED
      BY <2>4, <3>3
  <2>7. CASE b = a
    <3> DEFINE U == Occupying(a, at)
    <3>1. U \in SUBSET Holds /\ (\A g \in U : hold[g].qty \in Nat) /\ h \notin U
      BY <1>1, OccupyingRows DEF Occupying, Occupies
    <3>2. T \subseteq U
      BY <1>2, <2>7 DEF Occupying, Occupies, TypeOK, HoldRow
    <3>3. S \ {h} \in SUBSET U /\ \A g \in S \ {h} : hold'[g].qty = hold[g].qty
      BY <2>5, <3>2
    <3>4. Cardinality(Seats(hold, U)) + q <= Stock[a]
      BY <1>1 DEF ChecksStillHold, ConsumedQty
    <3>5. S \subseteq (S \ {h}) \cup {h}
      OBVIOUS
    <3>6. hold'[h].qty = q /\ hold'[h].qty \in Nat
      BY <1>2, <1>3 DEF new
    <3> HIDE DEF S, T, U
    <3>7. /\ Cardinality(Seats(hold', S \ {h})) <= Cardinality(Seats(hold, U))
          /\ Cardinality(Seats(hold', S \ {h})) \in Nat
          /\ Cardinality(Seats(hold, U)) \in Nat
      BY <3>1, <3>3, SeatsShrink
    <3>8. IsFiniteSet(S \ {h}) /\ (\A g \in S \ {h} : hold'[g].qty \in Nat)
      <4>1. S \ {h} \in SUBSET Holds
        BY <3>1, <3>3
      <4> QED
        BY <3>1, <3>3, <4>1, ProviderAssumption, FS_Subset
    <3>9. Cardinality(Seats(hold', (S \ {h}) \cup {h})) <= Cardinality(Seats(hold', S \ {h})) + hold'[h].qty
      BY <3>6, <3>8, SeatsAdd
    <3>10. IsFiniteSet((S \ {h}) \cup {h}) /\ \A g \in (S \ {h}) \cup {h} : hold'[g].qty \in Nat
      BY <3>6, <3>8, FS_AddElement
    <3>11. Cardinality(Seats(hold', S)) <= Cardinality(Seats(hold', (S \ {h}) \cup {h}))
      BY <3>5, <3>10, SeatsMonotone
    <3>12. /\ Cardinality(Seats(hold', S)) \in Nat
           /\ Cardinality(Seats(hold', (S \ {h}) \cup {h})) \in Nat
      <4>1. IsFiniteSet(S) /\ \A g \in S : hold'[g].qty \in Nat
        BY <3>5, <3>10, FS_Subset
      <4> QED
        BY <3>10, <4>1, SeatsFinite
    <3>13. Cardinality(Seats(hold', S)) <= Stock[a]
      BY <1>2, <2>3, <2>7, <3>4, <3>6, <3>7, <3>9, <3>11, <3>12
    <3> QED
      BY <2>4, <2>7, <3>13
  <2> QED
    BY <2>6, <2>7
<1> QED
  BY <1>5, <1>6, <1>7, <1>9, <1>10

\* A call for a reservation begins.
LEMMA BeginReserveInv ==
    ASSUME Inv, NEW c \in Callers, NEW h \in Holds, BeginReserve(c, h)
    PROVE  Inv'
<1> USE DEF Inv, BeginReserve, Goto
<1>1. hold[h] \in HoldRow
  BY DEF TypeOK
<1>2. TypeOK'
  BY <1>1 DEF TypeOK, PCs, Request, HoldRow, rows, locks, history
<1>3. SoldWithinStock' /\ ConflictOnlyAfterCancel'
      /\ \A b, t : ConsumedQty(b, t)' = ConsumedQty(b, t)
  BY CallStepKeeps DEF history
<1>4. LocksHeld' /\ RowsOK' /\ OneConfirmationPerHold'
  BY DEF TypeOK, LocksHeld, RowsOK, OneConfirmationPerHold, rows, locks, history
<1>5. RequestsOK'
  <2> SUFFICES ASSUME NEW d \in Callers
               PROVE  /\ pc'[d] # "idle" => req'[d] \in Request /\ req'[d].at <= now
                      /\ pc'[d] \in {"hold_wait", "hold_insert"} => req'[d].qty \in Quantities \ {0}
                      /\ pc'[d] \in Reserving =>
                            /\ req'[d].hold \in Holds
                            /\ hold[req'[d].hold] # None
                            /\ hold[req'[d].hold].activity = req'[d].activity
    BY DEF RequestsOK, rows
  <2>1. CASE d = c
    <3>1. /\ req'[d] = [activity |-> hold[h].activity, hold |-> h, qty |-> hold[h].qty, at |-> now]
          /\ pc'[d] = "reserve_wait_hold"
      BY <2>1 DEF TypeOK
    <3>2. req'[d] \in Request /\ req'[d].at <= now
      BY <1>1, <3>1 DEF TypeOK, Request, HoldRow
    <3> QED
      BY <3>1, <3>2
  <2>2. CASE d # c
    BY <2>2 DEF RequestsOK, TypeOK
  <2> QED
    BY <2>1, <2>2
<1>6. ChecksStillHold'
  BY <1>3 DEF TypeOK, ChecksStillHold, rows
<1> QED
  BY <1>2, <1>3, <1>4, <1>5, <1>6

\* It locks the hold's row.
LEMMA LockHoldInv ==
    ASSUME Inv, NEW c \in Callers, LockHold(c)
    PROVE  Inv'
<1> USE DEF Inv, LockHold, Goto
<1>1. req[c] \in Request /\ req[c].hold \in Holds
  BY DEF RequestsOK, Reserving
<1>2. TypeOK'
  BY <1>1 DEF TypeOK, PCs, rows, history
<1>3. SoldWithinStock' /\ ConflictOnlyAfterCancel'
      /\ \A b, t : ConsumedQty(b, t)' = ConsumedQty(b, t)
  BY CallStepKeeps DEF history
<1>4. RowsOK' /\ OneConfirmationPerHold'
  BY DEF RowsOK, OneConfirmationPerHold, rows, history
<1>5. LocksHeld'
  BY <1>1, ProviderAssumption DEF TypeOK, LocksHeld, RequestsOK, Reserving
<1>6. RequestsOK'
  BY DEF TypeOK, RequestsOK, Reserving, rows
<1>7. ChecksStillHold'
  BY <1>3 DEF TypeOK, ChecksStillHold, rows
<1> QED
  BY <1>2, <1>3, <1>4, <1>5, <1>6, <1>7

\* It sees whether the hold is live and not yet reserved.
LEMMA CheckReservationInv ==
    ASSUME Inv, NEW c \in Callers, CheckReservation(c)
    PROVE  Inv'
<1> DEFINE h == req[c].hold
           a == req[c].activity
<1> USE DEF Inv
<1>1. /\ pc[c] = "reserve_wait_activity" /\ activityLock[a] = None
      /\ UNCHANGED <<now, rows, conflict, late>>
  BY DEF CheckReservation
<1>2. req[c] \in Request /\ h \in Holds /\ a \in Activities
  BY <1>1 DEF RequestsOK, Reserving, Request
<1>3. SoldWithinStock' /\ ConflictOnlyAfterCancel'
      /\ \A b, t : ConsumedQty(b, t)' = ConsumedQty(b, t)
  BY <1>1, CallStepKeeps
<1>4. ASSUME Return(c),
             \/ told' = told
             \/ status[h] = "confirmed" /\ told' = [told EXCEPT ![h] = @ \cup {conf[h]}]
      PROVE  Inv'
  <2>1. conf[h] \in Confs \cup {None}
    BY <1>2 DEF TypeOK
  <2>2. OneConfirmationPerHold'
    BY <1>1, <1>4 DEF OneConfirmationPerHold, TypeOK, rows
  <2>3. told' \in [Holds -> SUBSET Confs]
    BY <1>2, <1>4, <2>1 DEF TypeOK, RowsOK
  <2>4. TypeOK'
    BY <1>1, <1>4, <2>3, ReturnFacts DEF TypeOK, rows
  <2>5. LocksHeld' /\ RequestsOK'
    BY <1>1, <1>4, ReturnKeeps DEF rows
  <2>6. RowsOK'
    BY <1>1, <1>4 DEF RowsOK, TypeOK, rows
  <2>7. ChecksStillHold'
    BY <1>1, <1>3, <1>4, ReturnFacts DEF ChecksStillHold, rows
  <2> QED
    BY <1>3, <2>2, <2>4, <2>5, <2>6, <2>7
<1>5. CASE /\ status[h] # "confirmed"
           /\ activityLock' = [activityLock EXCEPT ![a] = c]
           /\ Goto(c, "reserve_insert")
           /\ UNCHANGED <<holdLock, req, told>>
  <2>1. TypeOK'
    BY <1>1, <1>5 DEF TypeOK, PCs, Goto, rows
  <2>2. LocksHeld'
    BY <1>1, <1>2, <1>5, ProviderAssumption DEF LocksHeld, RequestsOK, TypeOK, Goto, Request
  <2>3. RequestsOK'
    BY <1>1, <1>5 DEF RequestsOK, TypeOK, Goto, Reserving, rows
  <2>4. RowsOK' /\ OneConfirmationPerHold'
    BY <1>1, <1>5 DEF RowsOK, OneConfirmationPerHold, rows
  <2>5. ChecksStillHold'
    BY <1>1, <1>3, <1>5 DEF ChecksStillHold, TypeOK, Goto, rows
  <2> QED
    BY <1>3, <2>1, <2>2, <2>3, <2>4, <2>5
<1> QED
  BY <1>4, <1>5 DEF CheckReservation

\* A reservation is inserted under the locks of its hold and of its activity:
\* no other call is past its check on either.
LEMMA CommitReserveInv ==
    ASSUME Inv, NEW c \in Callers, NEW n \in Confs, CommitReserve(c, n)
    PROVE  Inv'
<1> DEFINE h == req[c].hold
           a == req[c].activity
<1> USE DEF Inv
<1>1. pc[c] = "reserve_insert" /\ Return(c) /\ UNCHANGED <<now, hold>>
  BY DEF CommitReserve
<1>2. /\ req[c] \in Request /\ h \in Holds /\ a \in Activities
      /\ hold[h] # None /\ hold[h].activity = a
      /\ holdLock[h] = c /\ activityLock[a] = c /\ status[h] # "confirmed"
  BY <1>1 DEF RequestsOK, LocksHeld, ChecksStillHold, Reserving, Request
<1>3. LocksHeld' /\ RequestsOK'
  BY <1>1, ReturnKeeps
<1>4. CASE /\ status[h] = "none"
           /\ status' = [status EXCEPT ![h] = "confirmed"]
           /\ conf' = [conf EXCEPT ![h] = n]
           /\ told' = [told EXCEPT ![h] = @ \cup {n}]
           /\ late' = IF hold[h].expires <= now THEN late \cup {h} ELSE late
           /\ UNCHANGED conflict
  <2>1. TypeOK'
    BY <1>1, <1>2, <1>4, ReturnFacts DEF TypeOK
  <2>2. RowsOK' /\ OneConfirmationPerHold' /\ ConflictOnlyAfterCancel'
    BY <1>1, <1>2, <1>4 DEF RowsOK, OneConfirmationPerHold, ConflictOnlyAfterCancel, TypeOK
  <2>3. SoldWithinStock'
    <3>1. ASSUME NEW b \in Activities, NEW g \in (Occupying(b, now) \ late)'
          PROVE  g \in Occupying(b, now) \ late
      <4>1. CASE g # h
        BY <1>1, <1>4, <3>1, <4>1 DEF Occupying, Occupies, TypeOK
      <4>2. CASE g = h
        <5>1. ~(hold[h].expires <= now) /\ hold[h].expires \in Nat /\ now \in Nat
          BY <1>1, <1>2, <1>4, <3>1, <4>2 DEF TypeOK, HoldRow
        <5>2. hold[h].expires > now
          BY <5>1
        <5> QED
          BY <1>1, <1>2, <1>4, <3>1, <4>2, <5>2 DEF Occupying, Occupies, RowsOK
      <4> QED
        BY <4>1, <4>2
    <3> QED
      BY <1>1, <3>1, SoldShrinks
  <2>4. ChecksStillHold'
    <3> SUFFICES ASSUME NEW d \in Callers, pc'[d] # "idle"
                 PROVE  /\ pc'[d] = "hold_insert" =>
                              ConsumedQty(req[d].activity, req[d].at)' + req'[d].qty
                                  <= Stock[req'[d].activity]
                        /\ pc'[d] = "reserve_insert" => status'[req'[d].hold] # "confirmed"
      BY DEF ChecksStillHold
    <3>1. d # c /\ pc'[d] = pc[d] /\ req'[d] = req[d]
      BY <1>1, ReturnFacts
    <3>2. ASSUME pc[d] = "hold_insert"
          PROVE  ConsumedQty(req[d].activity, req[d].at)' = ConsumedQty(req[d].activity, req[d].at)
      <4>1. PICK b, t : b = req[d].activity /\ t = req[d].at
        OBVIOUS
      <4>2. b # a
        BY <1>2, <3>1, <3>2, <4>1 DEF LocksHeld
      <4>3. Occupying(b, t)' = Occupying(b, t)
        BY <1>1, <1>2, <1>4, <4>2 DEF Occupying, Occupies, TypeOK
      <4>4. ConsumedQty(b, t)' = ConsumedQty(b, t)
        BY <1>1, <4>3 DEF ConsumedQty, Seats
      <4>5. ConsumedQty(req[d].activity, req[d].at)' = ConsumedQty(b, t)'
        BY <3>1, <4>1 DEF ConsumedQty, Seats, Occupying, Occupies
      <4> QED
        BY <4>1, <4>4, <4>5
    <3>3. ASSUME pc[d] = "reserve_insert"
          PROVE  status'[req[d].hold] # "confirmed"
      <4>1. holdLock[req[d].hold] = d /\ req[d].hold \in Holds
        BY <3>3 DEF LocksHeld, RequestsOK, Reserving
      <4>2. req[d].hold # h
        BY <1>2, <3>1, <4>1
      <4> QED
        BY <1>4, <3>3, <4>1, <4>2 DEF ChecksStillHold, TypeOK
    <3>4. ASSUME pc[d] = "hold_insert"
          PROVE  ConsumedQty(req[d].activity, req[d].at)' + req[d].qty <= Stock[req[d].activity]
      <4>1. ConsumedQty(req[d].activity, req[d].at) + req[d].qty <= Stock[req[d].activity]
        BY <3>4 DEF ChecksStillHold
      <4> QED
        BY <3>2, <3>4, <4>1
    <3> QED
      BY <3>1, <3>3, <3>4
  <2> QED
    BY <1>3, <2>1, <2>2, <2>3, <2>4
<1>5. CASE /\ status[h] # "none"
           /\ conflict' = conflict \cup {h}
           /\ UNCHANGED <<status, conf, told, late>>
  <2>1. TypeOK'
    BY <1>1, <1>2, <1>5, ReturnFacts DEF TypeOK
  <2>2. RowsOK' /\ OneConfirmationPerHold'
    BY <1>1, <1>5 DEF RowsOK, OneConfirmationPerHold
  <2>3. ConflictOnlyAfterCancel'
    BY <1>2, <1>5 DEF ConflictOnlyAfterCancel, TypeOK
  <2>4. SoldWithinStock'
    BY <1>1, <1>5 DEF SoldWithinStock, Seats, Occupying, Occupies
  <2>5. \A b, t : ConsumedQty(b, t)' = ConsumedQty(b, t)
    BY <1>1, <1>5 DEF ConsumedQty, Seats, Occupying, Occupies
  <2>6. ChecksStillHold'
    BY <1>1, <1>5, <2>5, ReturnFacts DEF ChecksStillHold
  <2> QED
    BY <1>3, <2>1, <2>2, <2>3, <2>4, <2>6
<1> QED
  BY <1>4, <1>5 DEF CommitReserve

\* A cancel needs no lock of the calls: it only gives seats back.
LEMMA CancelInv ==
    ASSUME Inv, NEW h \in Holds, CancelReservation(h)
    PROVE  Inv'
<1> USE DEF Inv, CancelReservation, locks, calls, history
<1>1. TypeOK'
  BY DEF TypeOK
<1>2. LocksHeld' /\ RequestsOK' /\ RowsOK' /\ OneConfirmationPerHold' /\ ConflictOnlyAfterCancel'
  BY DEF LocksHeld, RequestsOK, RowsOK, OneConfirmationPerHold, ConflictOnlyAfterCancel, TypeOK
<1>3. \A b, t : Occupying(b, t)' \subseteq Occupying(b, t)
  BY DEF Occupying, Occupies, TypeOK
<1>4. SoldWithinStock'
  <2>1. \A b \in Activities : (Occupying(b, now) \ late)' \subseteq Occupying(b, now) \ late
    BY DEF Occupying, Occupies, TypeOK
  <2> QED
    BY <2>1, SoldShrinks
<1>5. ChecksStillHold'
  <2> SUFFICES ASSUME NEW d \in Callers, pc[d] = "hold_insert"
               PROVE  ConsumedQty(req[d].activity, req[d].at)' + req[d].qty
                          <= Stock[req[d].activity]
    BY DEF ChecksStillHold, TypeOK
  <2>1. PICK b, t : b = req[d].activity /\ t = req[d].at
    OBVIOUS
  <2>2. /\ ConsumedQty(b, t)' <= ConsumedQty(b, t)
        /\ ConsumedQty(b, t)' \in Nat /\ ConsumedQty(b, t) \in Nat
    BY <1>3, ConsumedShrinks
  <2>3. ConsumedQty(req[d].activity, req[d].at)' = ConsumedQty(b, t)'
    BY <2>1 DEF ConsumedQty, Seats, Occupying, Occupies
  <2>4. ConsumedQty(b, t) + req[d].qty <= Stock[b]
    BY <2>1 DEF ChecksStillHold
  <2>5. req[d].qty \in Nat /\ Stock[b] \in Nat
    BY <2>1, ProviderAssumption DEF RequestsOK, Request
  <2> QED
    BY <2>1, <2>2, <2>3, <2>4, <2>5
<1> QED
  BY <1>1, <1>2, <1>4, <1>5

\* A call that dies leaves the tables as they were.
LEMMA DropInv ==
    ASSUME Inv, NEW c \in Callers, Drop(c)
    PROVE  Inv'
<1> USE DEF Inv, Drop
<1>1. TypeOK'
  BY ReturnFacts DEF TypeOK, rows, history
<1>2. LocksHeld' /\ RequestsOK'
  BY ReturnKeeps DEF rows
<1>3. RowsOK' /\ OneConfirmationPerHold'
  BY DEF RowsOK, OneConfirmationPerHold, rows, history
<1>4. SoldWithinStock' /\ ConflictOnlyAfterCancel'
      /\ \A b, t : ConsumedQty(b, t)' = ConsumedQty(b, t)
  BY CallStepKeeps DEF history
<1>5. ChecksStillHold'
  BY <1>4, ReturnFacts DEF ChecksStillHold, rows
<1> QED
  BY <1>1, <1>2, <1>3, <1>4, <1>5

\* Every step keeps the invariant.
LEMMA NextInv == Inv /\ [Next]_vars => Inv'
<1> SUFFICES ASSUME Inv, [Next]_vars PROVE Inv'
  OBVIOUS
<1>1. CASE Tick
  BY <1>1, TickInv
<1>2. CASE \E c \in Callers, a \in Activities, q \in Quantities : BeginHold(c, a, q)
  BY <1>2, BeginHoldInv
<1>3. CASE \E c \in Callers : CheckStock(c)
  BY <1>3, CheckStockInv
<1>4. CASE \E c \in Callers, h \in Holds : CommitHold(c, h)
  BY <1>4, CommitHoldInv
<1>5. CASE \E c \in Callers, h \in Holds : BeginReserve(c, h)
  BY <1>5, BeginReserveInv
<1>6. CASE \E c \in Callers : LockHold(c)
  BY <1>6, LockHoldInv
<1>7. CASE \E c \in Callers : CheckReservation(c)
  BY <1>7, CheckReservationInv
<1>8. CASE \E c \in Callers, n \in Confs : CommitReserve(c, n)
  BY <1>8, CommitReserveInv
<1>9. CASE \E c \in Callers : Drop(c)
  BY <1>9, DropInv
<1>10. CASE \E h \in Holds : CancelReservation(h)
  BY <1>10, CancelInv
<1>11. CASE UNCHANGED vars
  <2> USE <1>11 DEF vars, rows, locks, calls, history, Inv
  <2>1. TypeOK' /\ LocksHeld' /\ RequestsOK' /\ RowsOK' /\ OneConfirmationPerHold'
    BY DEF TypeOK, LocksHeld, RequestsOK, RowsOK, OneConfirmationPerHold
  <2>2. SoldWithinStock' /\ ConflictOnlyAfterCancel'
        /\ \A b, t : ConsumedQty(b, t)' = ConsumedQty(b, t)
    BY CallStepKeeps
  <2>3. ChecksStillHold'
    BY <2>2 DEF ChecksStillHold
  <2> QED
    BY <2>1, <2>2, <2>3
<1> QED
  BY <1>1, <1>2, <1>3, <1>4, <1>5, <1>6, <1>7, <1>8, <1>9, <1>10, <1>11 DEF Next

-----------------------------------------------------------------------------
(* Theorems                                                                *)

\* The inductive invariant holds throughout.
THEOREM Invariance == Spec => []Inv
BY InitInv, NextInv, PTL DEF Spec

\* Every variable keeps its type: the rows of provider/models.py stay well formed.
THEOREM TypeCorrect == Spec => []TypeOK
<1>1. Inv => TypeOK
  BY DEF Inv
<1> QED
  BY <1>1, Invariance, PTL

\* hold_activity's lock works: apart from reservations confirmed after their
\* hold's expiry, no activity is ever sold beyond its stock.
THEOREM StockIsNotOversold == Spec => []SoldWithinStock
<1>1. Inv => SoldWithinStock
  BY DEF Inv
<1> QED
  BY <1>1, Invariance, PTL

\* reserve_activity is idempotent: all callers are told one confirmation per hold.
THEOREM ReserveIsIdempotent == Spec => []OneConfirmationPerHold
<1>1. Inv => OneConfirmationPerHold
  BY DEF Inv
<1> QED
  BY <1>1, Invariance, PTL

\* Racing reserves of one hold never meet in the OneToOneField constraint.
THEOREM RacingReservesDoNotConflict == Spec => []ConflictOnlyAfterCancel
<1>1. Inv => ConflictOnlyAfterCancel
  BY DEF Inv
<1> QED
  BY <1>1, Invariance, PTL

-----------------------------------------------------------------------------
(* Prompt reserves are never late                                          *)

\* If nobody dawdles between check and insert, no reservation is late.
LEMMA PromptStep ==
    ASSUME Inv, Inv', NeverLate, [Next /\ TickIsPrompt]_vars
    PROVE  NeverLate'
<1> USE DEF NeverLate
<1> DEFINE InTime(c) ==
      /\ pc[c] \in Reserving /\ hold[req[c].hold].expires > req[c].at =>
            hold[req[c].hold].expires > now
      /\ pc[c] = "reserve_insert" => hold[req[c].hold].expires > req[c].at
<1>1. \A c \in Callers : pc[c] \in Reserving =>
         /\ req[c].hold \in Holds /\ hold[req[c].hold] # None
         /\ hold[req[c].hold].expires \in Nat /\ req[c].at \in Nat
  BY DEF Inv, RequestsOK, TypeOK, HoldRow, Request, Reserving
<1>2. CASE Tick /\ TickIsPrompt
  <2>1. late' = late /\ UNCHANGED <<hold, pc, req>> /\ now' \in Nat
    BY <1>2 DEF Tick, history, rows, calls, Inv, TypeOK
  <2>2. ASSUME NEW c \in Callers PROVE InTime(c)'
    <3>1. pc[c] \in Reserving /\ hold[req[c].hold].expires > req[c].at =>
            ~(hold[req[c].hold].expires <= now')
      BY <1>2, <1>1 DEF TickIsPrompt
    <3> QED
      BY <1>1, <2>1, <3>1
  <2> QED
    BY <2>1, <2>2
<1>3. ASSUME NEW c \in Callers, Return(c), now' = now, late' = {},
             \A h \in Holds : hold[h] # None => hold'[h] = hold[h]
      PROVE  NeverLate'
  <2>1. ASSUME NEW d \in Callers, pc'[d] # "idle"
        PROVE  InTime(d)'
    <3>1. pc'[d] = pc[d] /\ req'[d] = req[d]
      BY <1>3, <2>1, ReturnFacts DEF Inv
    <3>2. pc[d] \in Reserving => hold'[req[d].hold] = hold[req[d].hold]
      BY <1>1, <1>3
    <3> QED
      BY <1>3, <3>1, <3>2 DEF Reserving
  <2>2. ASSUME NEW d \in Callers, pc'[d] = "idle"
        PROVE  InTime(d)'
    BY <2>2 DEF Reserving
  <2> QED
    BY <1>3, <2>1, <2>2
<1>4. ASSUME NEW c \in Callers, UNCHANGED <<now, hold, late>>,
             \A d \in Callers \ {c} : pc'[d] = pc[d] /\ req'[d] = req[d],
             InTime(c)'
      PROVE  NeverLate'
  BY <1>4
<1>5. ASSUME NEW c \in Callers, NEW a \in Activities, NEW q \in Quantities, BeginHold(c, a, q)
      PROVE  NeverLate'
  BY <1>5, <1>4 DEF BeginHold, Goto, rows, history, Inv, TypeOK, Reserving
<1>6. ASSUME NEW c \in Callers, CheckStock(c)
      PROVE  NeverLate'
  <2>1. UNCHANGED <<now, hold, late>>
    BY <1>6 DEF CheckStock, rows, history
  <2>2. CASE Return(c)
    BY <1>3, <2>1, <2>2
  <2>3. CASE Goto(c, "hold_insert") /\ UNCHANGED req
    BY <1>4, <2>1, <2>3 DEF Goto, Inv, TypeOK, Reserving
  <2> QED
    BY <1>6, <2>2, <2>3 DEF CheckStock
<1>7. ASSUME NEW c \in Callers, NEW h \in Holds, CommitHold(c, h)
      PROVE  NeverLate'
  BY <1>7, <1>3 DEF CommitHold, history, Inv, TypeOK
<1>8. ASSUME NEW c \in Callers, NEW h \in Holds, BeginReserve(c, h)
      PROVE  NeverLate'
  <2>1. req'[c].hold = h /\ req'[c].at = now /\ pc'[c] = "reserve_wait_hold"
    BY <1>8 DEF BeginReserve, Goto, Inv, TypeOK
  <2> QED
    BY <1>8, <1>4, <2>1 DEF BeginReserve, Goto, rows, history, Inv, TypeOK
<1>9. ASSUME NEW c \in Callers, LockHold(c)
      PROVE  NeverLate'
  BY <1>9, <1>4 DEF LockHold, Goto, rows, history, Inv, TypeOK, Reserving
<1>10. ASSUME NEW c \in Callers, CheckReservation(c)
       PROVE  NeverLate'
  <2>1. UNCHANGED <<now, hold, late>> /\ pc[c] = "reserve_wait_activity"
    BY <1>10 DEF CheckReservation, rows
  <2>2. CASE Return(c)
    BY <1>3, <2>1, <2>2
  <2>3. CASE /\ hold[req[c].hold].expires > req[c].at
             /\ Goto(c, "reserve_insert") /\ UNCHANGED req
    BY <1>4, <2>1, <2>3 DEF Goto, Inv, TypeOK, Reserving
  <2> QED
    BY <1>10, <2>2, <2>3 DEF CheckReservation
<1>11. ASSUME NEW c \in Callers, NEW n \in Confs, CommitReserve(c, n)
       PROVE  NeverLate'
  <2>1. pc[c] = "reserve_insert" /\ Return(c) /\ UNCHANGED <<now, hold>>
    BY <1>11 DEF CommitReserve
  <2>2. hold[req[c].hold].expires > now /\ hold[req[c].hold].expires \in Nat /\ now \in Nat
    BY <1>1, <2>1 DEF Reserving, Inv, TypeOK
  <2>3. ~(hold[req[c].hold].expires <= now)
    BY <2>2
  <2>4. late' = late
    BY <1>11, <2>3 DEF CommitReserve
  <2> QED
    BY <1>3, <2>1, <2>4
<1>12. ASSUME NEW h \in Holds, CancelReservation(h)
       PROVE  NeverLate'
  BY <1>12 DEF CancelReservation, calls, history
<1>13. ASSUME NEW c \in Callers, Drop(c)
       PROVE  NeverLate'
  BY <1>13, <1>3 DEF Drop, rows, history
<1>14. CASE UNCHANGED vars
  BY <1>14 DEF vars, rows, calls, history
<1> QED
  BY <1>2, <1>5, <1>6, <1>7, <1>8, <1>9, <1>10, <1>11, <1>12, <1>13, <1>14 DEF Next

\* With prompt calls both invariants hold.
LEMMA PromptInvariance == PromptSpec => []Inv /\ []NeverLate
<1>1. Init => NeverLate
  BY DEF Init, NeverLate, Reserving
<1>2. [Next /\ TickIsPrompt]_vars => [Next]_vars
  OBVIOUS
<1>3. Inv /\ Inv' /\ NeverLate /\ [Next /\ TickIsPrompt]_vars => NeverLate'
  BY PromptStep
<1> QED
  BY <1>1, <1>2, <1>3, InitInv, NextInv, PTL DEF PromptSpec

\* Models.py's promise against double selling holds wherever no reserve straddles
\* the expiry of its hold.
THEOREM PromptNeverOversells == PromptSpec => []NoOversell
<1>1. Inv /\ NeverLate => NoOversell
  <2> SUFFICES ASSUME Inv, NeverLate, NEW a \in Activities
               PROVE  ConsumedQty(a, now) <= Stock[a]
    BY DEF NoOversell
  <2>1. Occupying(a, now) \ late = Occupying(a, now)
    BY DEF NeverLate
  <2> QED
    BY <2>1 DEF Inv, SoldWithinStock, ConsumedQty
<1> QED
  BY <1>1, PromptInvariance, PTL

-----------------------------------------------------------------------------
(* Refinement                                                              *)

\* The ledger's view of one hold, spelled out.
LEMMA ViewOf ==
    ASSUME NEW h \in Holds
    PROVE  /\ hold[h] = None => ledgerView[h] = [state |-> "free", activity |-> None, qty |-> 0]
           /\ hold[h] # None =>
                 ledgerView[h] = [state |-> LedgerState(h), activity |-> hold[h].activity,
                                  qty |-> hold[h].qty]
BY DEF ledgerView

\* The ledger's entry of a hold.
LEMMA ViewFields ==
    ASSUME NEW h \in Holds
    PROVE  /\ hold[h] = None => ledgerView[h].state = "free" /\ ledgerView[h].qty = 0
           /\ hold[h] # None =>
                 /\ ledgerView[h].state = LedgerState(h)
                 /\ ledgerView[h].activity = hold[h].activity
                 /\ ledgerView[h].qty = hold[h].qty
<1>1. CASE hold[h] = None
  <2>1. ledgerView[h] = [state |-> "free", activity |-> None, qty |-> 0]
    BY <1>1, ViewOf
  <2> QED
    BY <1>1, <2>1
<1>2. CASE hold[h] # None
  <2>1. ledgerView[h] = [state |-> LedgerState(h), activity |-> hold[h].activity,
                         qty |-> hold[h].qty]
    BY <1>2, ViewOf
  <2> QED
    BY <1>2, <2>1
<1> QED
  BY <1>1, <1>2

\* What the ledger counts as taken is what hold_activity counts as consumed.
LEMMA TakenIsConsumed ==
    ASSUME Inv, NEW a \in Activities
    PROVE  Ledger!Taken(a) = ConsumedQty(a, now)
<1>1. Ledger!Taking(a) = Occupying(a, now)
  <2>1. ASSUME NEW h \in Holds
        PROVE  (ledgerView[h].activity = a /\ ledgerView[h].state \in {"held", "sold"})
                   <=> Occupies(h, a, now)
    <3>1. CASE hold[h] = None
      BY <3>1, ViewFields DEF Occupies
    <3>2. CASE hold[h] # None
      <4>1. /\ status[h] \in {"none", "confirmed", "canceled"}
            /\ hold[h].expires \in Nat /\ now \in Nat
        BY <3>2 DEF Inv, TypeOK, HoldRow
      <4>2. ledgerView[h].activity = hold[h].activity /\ ledgerView[h].state = LedgerState(h)
        BY <3>2, ViewFields
      <4>3. CASE status[h] = "none" /\ hold[h].expires > now
        BY <3>2, <4>2, <4>3 DEF LedgerState, Occupies
      <4>4. CASE status[h] = "none" /\ ~(hold[h].expires > now)
        BY <3>2, <4>2, <4>4 DEF LedgerState, Occupies
      <4>5. CASE status[h] = "confirmed"
        BY <3>2, <4>2, <4>5 DEF LedgerState, Occupies
      <4>6. CASE status[h] = "canceled"
        BY <3>2, <4>2, <4>6 DEF LedgerState, Occupies
      <4> QED
        BY <4>1, <4>3, <4>4, <4>5, <4>6
    <3> QED
      BY <3>1, <3>2
  <2> QED
    BY <2>1 DEF Ledger!Taking, Occupying
<1>2. \A h \in Occupying(a, now) : ledgerView[h].qty = hold[h].qty
  BY ViewFields DEF Occupying, Occupies
<1>3. UNION {{h} \X (1 .. ledgerView[h].qty) : h \in Ledger!Taking(a)}
        = UNION {{h} \X (1 .. hold[h].qty) : h \in Occupying(a, now)}
  BY <1>1, <1>2
<1>4. Ledger!Taken(a) = Cardinality(UNION {{h} \X (1 .. ledgerView[h].qty) : h \in Ledger!Taking(a)})
  BY DEF Ledger!Taken, Ledger!Cardinality, Cardinality, Ledger!IsFiniteSet, IsFiniteSet
<1>5. ConsumedQty(a, now) = Cardinality(UNION {{h} \X (1 .. hold[h].qty) : h \in Occupying(a, now)})
  BY DEF ConsumedQty, Seats
<1> QED
  BY <1>3, <1>4, <1>5

\* A hold whose row, reservation and standing against the clock are as before
\* looks as before.
LEMMA ViewUnchanged ==
    ASSUME NEW h \in Holds, hold'[h] = hold[h], status'[h] = status[h], now' = now
    PROVE  ledgerView'[h] = ledgerView[h]
BY DEF ledgerView, LedgerState

\* Time passing lets holds lapse in the ledger, or changes nothing there.
LEMMA TickRefines ==
    ASSUME Inv, Tick
    PROVE  [Ledger!Next]_ledgerView
<1> DEFINE S == {h \in Holds : /\ ledgerView[h].state = "held"
                               /\ ~(hold[h].expires > now')}
<1>1. UNCHANGED <<hold, status>> /\ now \in Nat /\ now' = now + 1
  BY DEF Tick, rows, Inv, TypeOK
<1>2. ASSUME NEW h \in Holds
      PROVE  ledgerView'[h] = IF h \in S THEN [ledgerView[h] EXCEPT !.state = "lapsed"]
                                         ELSE ledgerView[h]
  <2>1. CASE hold[h] = None
    BY <1>1, <2>1 DEF ledgerView
  <2>2. CASE hold[h] # None
    <3>1. hold[h].expires \in Nat /\ status[h] \in {"none", "confirmed", "canceled"}
      BY <2>2 DEF Inv, TypeOK, HoldRow
    <3>2. ledgerView[h] = [state |-> LedgerState(h), activity |-> hold[h].activity,
                           qty |-> hold[h].qty]
      BY <2>2, ViewOf
    <3>3. ledgerView'[h] = [state |-> LedgerState(h)', activity |-> hold[h].activity,
                            qty |-> hold[h].qty]
      BY <1>1, <2>2 DEF ledgerView
    <3>4. LedgerState(h)' = IF LedgerState(h) = "held" /\ ~(hold[h].expires > now')
                            THEN "lapsed" ELSE LedgerState(h)
      BY <1>1, <3>1 DEF LedgerState
    <3> QED
      BY <3>2, <3>3, <3>4
  <2> QED
    BY <2>1, <2>2
<1>3. ledgerView' = [h \in Holds |-> IF h \in S THEN [ledgerView[h] EXCEPT !.state = "lapsed"]
                                                ELSE ledgerView[h]]
  BY <1>2 DEF ledgerView
<1>4. Ledger!Lapse(S)
  BY <1>3 DEF Ledger!Lapse
<1> QED
  BY <1>4 DEF Ledger!Next

\* A new hold is one the ledger has room for.
LEMMA CommitHoldRefines ==
    ASSUME Inv, NEW c \in Callers, NEW h \in Holds, CommitHold(c, h)
    PROVE  Ledger!Next
<1> DEFINE a == req[c].activity
           q == req[c].qty
           s == IF req[c].at + TTL > now THEN "held" ELSE "lapsed"
<1>1. /\ pc[c] = "hold_insert" /\ hold[h] = None /\ UNCHANGED <<now, status>>
      /\ hold' = [hold EXCEPT ![h] = [activity |-> a, qty |-> q, expires |-> req[c].at + TTL]]
  BY DEF CommitHold
<1>2. /\ req[c] \in Request /\ q \in Quantities \ {0} /\ req[c].at <= now
      /\ status[h] = "none" /\ a \in Activities
  BY <1>1 DEF Inv, RequestsOK, RowsOK, Request
<1>3. Ledger!Taken(a) + q <= Stock[a]
  <2>1. ConsumedQty(a, req[c].at) + q <= Stock[a]
    BY <1>1 DEF Inv, ChecksStillHold
  <2>2. Occupying(a, now) \subseteq Occupying(a, req[c].at)
    BY <1>2 DEF Occupying, Occupies, Inv, TypeOK, HoldRow, Request
  <2>3. /\ Occupying(a, req[c].at) \in SUBSET Holds
        /\ \A g \in Occupying(a, req[c].at) : hold[g].qty \in Nat
    BY OccupyingRows DEF Inv
  <2>4. /\ ConsumedQty(a, now) <= ConsumedQty(a, req[c].at)
        /\ ConsumedQty(a, now) \in Nat /\ ConsumedQty(a, req[c].at) \in Nat
    BY <2>2, <2>3, SeatsShrink DEF ConsumedQty
  <2>5. q \in Nat /\ Stock[a] \in Nat
    BY <1>2, ProviderAssumption DEF Request
  <2>6. Ledger!Taken(a) = ConsumedQty(a, now)
    BY <1>2, TakenIsConsumed
  <2> QED
    BY <2>1, <2>4, <2>5, <2>6
<1>4. [activity |-> a, qty |-> q, expires |-> req[c].at + TTL] # None
  BY <1>2, ProviderAssumption DEF Request
<1>5. ledgerView'[h] = [state |-> s, activity |-> a, qty |-> q]
  <2>1. hold'[h] = [activity |-> a, qty |-> q, expires |-> req[c].at + TTL]
    BY <1>1 DEF Inv, TypeOK
  <2>2. LedgerState(h)' = s
    BY <1>1, <1>2, <2>1 DEF LedgerState
  <2> QED
    BY <1>4, <2>1, <2>2 DEF ledgerView
<1>6. \A g \in Holds \ {h} : ledgerView'[g] = ledgerView[g]
  BY <1>1, ViewUnchanged DEF Inv, TypeOK
<1>7. ledgerView' = [ledgerView EXCEPT ![h] = [state |-> s, activity |-> a, qty |-> q]]
  BY <1>5, <1>6 DEF ledgerView
<1>8. ledgerView[h] = Ledger!Free
  BY <1>1, ViewOf DEF Ledger!Free
<1>9. s \in {"held", "lapsed"}
  OBVIOUS
<1> HIDE DEF s
<1>10. Ledger!Hold(h)
  BY <1>2, <1>3, <1>7, <1>8, <1>9 DEF Ledger!Hold
<1> QED
  BY <1>10 DEF Ledger!Next

\* A reservation in time confirms a held entry.
LEMMA CommitReserveRefines ==
    ASSUME Inv, NeverLate, NEW c \in Callers, NEW n \in Confs, CommitReserve(c, n)
    PROVE  [Ledger!Next]_ledgerView
<1>1. pc[c] = "reserve_insert" /\ UNCHANGED <<now, hold>>
  BY DEF CommitReserve
<1>2. PICK h \in Holds : h = req[c].hold /\ hold[h] # None /\ hold[h].expires > now
  BY <1>1 DEF Inv, RequestsOK, NeverLate, Reserving
<1>3. CASE status[h] = "none" /\ status' = [status EXCEPT ![h] = "confirmed"]
  <2>1. ledgerView[h].state = "held"
    BY <1>2, <1>3, ViewFields DEF LedgerState
  <2>2. ledgerView'[h] = [ledgerView[h] EXCEPT !.state = "sold"]
    <3>1. LedgerState(h)' = "sold"
      BY <1>2, <1>3 DEF LedgerState, Inv, TypeOK
    <3>2. ledgerView'[h] = [state |-> LedgerState(h)', activity |-> hold[h].activity,
                            qty |-> hold[h].qty]
      BY <1>1, <1>2 DEF ledgerView
    <3>3. ledgerView[h] = [state |-> LedgerState(h), activity |-> hold[h].activity,
                           qty |-> hold[h].qty]
      BY <1>2, ViewOf
    <3> QED
      BY <3>1, <3>2, <3>3
  <2>3. \A g \in Holds \ {h} : ledgerView'[g] = ledgerView[g]
    BY <1>1, <1>3, ViewUnchanged DEF Inv, TypeOK
  <2>4. ledgerView' = [ledgerView EXCEPT ![h].state = "sold"]
    BY <2>2, <2>3 DEF ledgerView
  <2>5. Ledger!Sell(h)
    BY <2>1, <2>4 DEF Ledger!Sell, Ledger!Move
  <2> QED
    BY <1>2, <2>5 DEF Ledger!Next
<1>4. CASE UNCHANGED status
  BY <1>1, <1>4 DEF ledgerView, LedgerState
<1> QED
  BY <1>2, <1>3, <1>4 DEF CommitReserve

\* A cancellation cancels it.
LEMMA CancelRefines ==
    ASSUME Inv, NEW h \in Holds, CancelReservation(h)
    PROVE  [Ledger!Next]_ledgerView
<1>1. /\ status[h] \in {"confirmed", "canceled"} /\ UNCHANGED <<now, hold>>
      /\ status' = [status EXCEPT ![h] = "canceled"]
  BY DEF CancelReservation, Inv, TypeOK
<1>2. hold[h] # None
  BY <1>1 DEF Inv, RowsOK
<1>3. CASE status[h] = "confirmed"
  <2>1. ledgerView[h].state = "sold"
    BY <1>2, <1>3, ViewFields DEF LedgerState
  <2>2. ledgerView'[h] = [ledgerView[h] EXCEPT !.state = "returned"]
    <3>1. LedgerState(h)' = "returned"
      BY <1>1 DEF LedgerState, Inv, TypeOK
    <3>2. ledgerView'[h] = [state |-> LedgerState(h)', activity |-> hold[h].activity,
                            qty |-> hold[h].qty]
      BY <1>1, <1>2 DEF ledgerView
    <3>3. ledgerView[h] = [state |-> LedgerState(h), activity |-> hold[h].activity,
                           qty |-> hold[h].qty]
      BY <1>2, ViewOf
    <3> QED
      BY <3>1, <3>2, <3>3
  <2>3. \A g \in Holds \ {h} : ledgerView'[g] = ledgerView[g]
    BY <1>1, ViewUnchanged DEF Inv, TypeOK
  <2>4. ledgerView' = [ledgerView EXCEPT ![h].state = "returned"]
    BY <2>2, <2>3 DEF ledgerView
  <2>5. Ledger!Return(h)
    BY <2>1, <2>4 DEF Ledger!Return, Ledger!Move
  <2> QED
    BY <2>5 DEF Ledger!Next
<1>4. CASE status[h] = "canceled"
  <2>1. status' = status
    BY <1>1, <1>4 DEF Inv, TypeOK
  <2> QED
    BY <1>1, <2>1 DEF ledgerView, LedgerState
<1> QED
  BY <1>1, <1>3, <1>4

\* A step that leaves the clock, the holds and their reservations alone is
\* invisible in the ledger.
LEMMA Invisible ==
    ASSUME UNCHANGED <<now, hold, status>>
    PROVE  ledgerView' = ledgerView
BY DEF ledgerView, LedgerState

\* Without a reserve that straddles its hold's expiry, the locking calls of
\* services.py implement the supplier's abstract ledger, which gives no seat twice.
THEOREM LedgerRefinement == PromptSpec => ImplementsStockLedger
<1>1. Init => Ledger!Init
  BY DEF Init, Ledger!Init, Ledger!Free, ledgerView
<1>2. ASSUME Inv, NeverLate, [Next /\ TickIsPrompt]_vars
      PROVE  [Ledger!Next]_ledgerView
  <2> USE DEF rows
  <2>1. CASE Tick
    BY <1>2, <2>1, TickRefines
  <2>2. CASE \E c \in Callers, h \in Holds : CommitHold(c, h)
    BY <1>2, <2>2, CommitHoldRefines
  <2>3. CASE \E c \in Callers, n \in Confs : CommitReserve(c, n)
    BY <1>2, <2>3, CommitReserveRefines
  <2>4. CASE \E h \in Holds : CancelReservation(h)
    BY <1>2, <2>4, CancelRefines
  <2>5. CASE \E c \in Callers, a \in Activities, q \in Quantities : BeginHold(c, a, q)
    BY <2>5, Invisible DEF BeginHold
  <2>6. CASE \E c \in Callers : CheckStock(c)
    BY <2>6, Invisible DEF CheckStock
  <2>7. CASE \E c \in Callers, h \in Holds : BeginReserve(c, h)
    BY <2>7, Invisible DEF BeginReserve
  <2>8. CASE \E c \in Callers : LockHold(c)
    BY <2>8, Invisible DEF LockHold
  <2>9. CASE \E c \in Callers : CheckReservation(c)
    BY <2>9, Invisible DEF CheckReservation
  <2>10. CASE \E c \in Callers : Drop(c)
    BY <2>10, Invisible DEF Drop
  <2>11. CASE UNCHANGED vars
    BY <2>11, Invisible DEF vars
  <2> QED
    BY <1>2, <2>1, <2>2, <2>3, <2>4, <2>5, <2>6, <2>7, <2>8, <2>9, <2>10, <2>11 DEF Next
<1> QED
  BY <1>1, <1>2, PromptInvariance, PTL DEF PromptSpec, ImplementsStockLedger, Ledger!Spec

=============================================================================
