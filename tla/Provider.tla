------------------------------ MODULE Provider ------------------------------
(***************************************************************************)
(* The activity supplier's stock ledger: provider/services.py over the     *)
(* tables of provider/models.py.                                           *)
(*                                                                         *)
(* Several processes (one MCP server per agent loop, Django's shell, the   *)
(* race demo) call hold_activity, reserve_activity and cancel_reservation  *)
(* on one PostgreSQL database.  A call reads the clock, then opens a       *)
(* transaction and waits for row locks (SELECT ... FOR UPDATE), then       *)
(* writes; each of these is a step here, so that other calls, cancels and  *)
(* the clock move in between.  The stock of an activity is never           *)
(* decremented: what is left is computed from the holds and reservations   *)
(* at the caller's clock reading, and a hold lapses by being compared with *)
(* that reading, never by being deleted.                                   *)
(***************************************************************************)
EXTENDS Integers, FiniteSets

CONSTANTS
    Callers,      \* the processes that call the ledger
    Activities,   \* rows of Activity
    Stock,        \* Stock[a]: Activity.stock, which no code changes
    Holds,        \* the hold_ids a run can hand out
    Confs,        \* the confirmation numbers a run can hand out
    Quantities,   \* the quantities callers ask for
    TTL,          \* HOLD_TTL_MINUTES, in ticks of the clock
    MaxTime,      \* bound: the clock stops here
    None          \* no row, no request, nobody

ASSUME ProviderAssumption ==
    /\ IsFiniteSet(Holds)
    /\ Stock \in [Activities -> Nat]
    /\ Quantities \subseteq Nat
    /\ TTL \in Nat
    /\ MaxTime \in Nat
    /\ None \notin Callers \cup Holds \cup Confs
    /\ None \notin [activity : Activities, qty : Nat, expires : Nat]

VARIABLES
    now,          \* the wall clock timezone.now() reads
    hold,         \* hold[h]: the ActivityHold row, None before it is inserted
    status,       \* status[h]: of the ActivityReservation of h, "none" if there is none
    conf,         \* conf[h]: its confirmation number
    activityLock, \* the caller whose transaction locks the Activity row
    holdLock,     \* the caller whose transaction locks the ActivityHold row
    pc, req,      \* where a call is, and its arguments and clock reading
    told,         \* history: told[h], the confirmations reserve_activity returned for h
    conflict,     \* history: holds whose reserve ended in an IntegrityError
    late          \* history: holds confirmed when they had already expired

rows  == <<hold, status, conf>>
locks == <<activityLock, holdLock>>
calls == <<pc, req>>
history == <<told, conflict, late>>
vars == <<now, rows, locks, calls, history>>

HoldRow == [activity : Activities, qty : Nat, expires : Nat]
Request == [activity : Activities, hold : Holds \cup {None}, qty : Nat, at : Nat]
PCs == {"idle", "hold_wait", "hold_insert",
        "reserve_wait_hold", "reserve_wait_activity", "reserve_insert"}

-----------------------------------------------------------------------------
(* The holds that occupy stock at clock reading t: the confirmed ones for  *)
(* good, those without a reservation until they expire, the canceled ones  *)
(* not at all.  Quantities are added up by counting seats <<h, i>>.         *)

Occupies(h, a, t) ==
    /\ hold[h] # None
    /\ hold[h].activity = a
    /\ \/ status[h] = "confirmed"
       \/ status[h] = "none" /\ hold[h].expires > t

Occupying(a, t) == {h \in Holds : Occupies(h, a, t)}

Seats(row, S) == UNION {{h} \X (1 .. row[h].qty) : h \in S}

ConsumedQty(a, t) == Cardinality(Seats(hold, Occupying(a, t)))

-----------------------------------------------------------------------------
Init ==
    /\ now = 0
    /\ hold = [h \in Holds |-> None]
    /\ status = [h \in Holds |-> "none"]
    /\ conf = [h \in Holds |-> None]
    /\ activityLock = [a \in Activities |-> None]
    /\ holdLock = [h \in Holds |-> None]
    /\ pc = [c \in Callers |-> "idle"]
    /\ req = [c \in Callers |-> None]
    /\ told = [h \in Holds |-> {}]
    /\ conflict = {}
    /\ late = {}

\* The clock moves while calls wait for locks.
Tick ==
    /\ now < MaxTime
    /\ now' = now + 1
    /\ UNCHANGED <<rows, locks, calls, history>>

Goto(c, to) == pc' = [pc EXCEPT ![c] = to]

\* Faulty variant of Return: the lock of the hold row outlives the call.
ReturnKeepsHoldLock(c) ==
    /\ pc' = [pc EXCEPT ![c] = "idle"]
    /\ req' = [req EXCEPT ![c] = None]
    /\ activityLock' = [a \in Activities |->
                           IF activityLock[a] = c THEN None ELSE activityLock[a]]
    /\ UNCHANGED holdLock

\* The call of c ends (answer, ProviderError or other exception): the
\* transaction is over, and with it every lock it held.
Return(c) ==
    /\ pc' = [pc EXCEPT ![c] = "idle"]
    /\ req' = [req EXCEPT ![c] = None]
    /\ activityLock' = [a \in Activities |->
                           IF activityLock[a] = c THEN None ELSE activityLock[a]]
    /\ holdLock' = [h \in Holds |-> IF holdLock[h] = c THEN None ELSE holdLock[h]]

-----------------------------------------------------------------------------
(* Faulty variants of the actions below, one per mistake the properties are *)
(* there to catch; no specification uses them.                              *)

\* The Activity row is read without SELECT ... FOR UPDATE.
CheckStockUnlocked(c) ==
    /\ pc[c] = "hold_wait"
    /\ \/ /\ Stock[req[c].activity] - ConsumedQty(req[c].activity, req[c].at) < req[c].qty
          /\ Return(c)
       \/ /\ Stock[req[c].activity] - ConsumedQty(req[c].activity, req[c].at) >= req[c].qty
          /\ Goto(c, "hold_insert")
          /\ UNCHANGED <<locks, req>>
    /\ UNCHANGED <<now, rows, history>>

\* Any seat left is enough, whatever the quantity.
CheckStockAnySeat(c) ==
    /\ pc[c] = "hold_wait"
    /\ activityLock[req[c].activity] = None
    /\ IF Stock[req[c].activity] > ConsumedQty(req[c].activity, req[c].at)
       THEN /\ activityLock' = [activityLock EXCEPT ![req[c].activity] = c]
            /\ Goto(c, "hold_insert")
            /\ UNCHANGED <<holdLock, req>>
       ELSE Return(c)
    /\ UNCHANGED <<now, rows, history>>

\* The existing reservation is not looked up before the insert.
CheckReservationBlind(c) ==
    /\ pc[c] = "reserve_wait_activity"
    /\ activityLock[req[c].activity] = None
    /\ IF hold[req[c].hold].expires <= req[c].at
       THEN Return(c)
       ELSE /\ activityLock' = [activityLock EXCEPT ![req[c].activity] = c]
            /\ Goto(c, "reserve_insert")
            /\ UNCHANGED <<holdLock, req>>
    /\ UNCHANGED <<now, rows, history>>

\* The expiry of the hold is not looked at.
CheckReservationExpired(c) ==
    /\ pc[c] = "reserve_wait_activity"
    /\ activityLock[req[c].activity] = None
    /\ IF status[req[c].hold] = "confirmed"
       THEN /\ told' = [told EXCEPT ![req[c].hold] = @ \cup {conf[req[c].hold]}]
            /\ Return(c)
       ELSE /\ activityLock' = [activityLock EXCEPT ![req[c].activity] = c]
            /\ Goto(c, "reserve_insert")
            /\ UNCHANGED <<holdLock, req, told>>
    /\ UNCHANGED <<now, rows, conflict, late>>

\* update_or_create instead of create: a canceled row is confirmed again.
CommitReserveAgain(c, n) ==
    /\ pc[c] = "reserve_insert"
    /\ \A g \in Holds : conf[g] # n
    /\ status' = [status EXCEPT ![req[c].hold] = "confirmed"]
    /\ conf' = [conf EXCEPT ![req[c].hold] = n]
    /\ told' = [told EXCEPT ![req[c].hold] = @ \cup {n}]
    /\ Return(c)
    /\ UNCHANGED <<now, hold, conflict, late>>

\* The row is saved with a misspelt status.
CancelMisspelt(h) ==
    /\ status[h] # "none"
    /\ status' = [status EXCEPT ![h] = "cancelled"]
    /\ UNCHANGED <<now, hold, conf, locks, calls, history>>

-----------------------------------------------------------------------------
(* hold_activity                                                           *)

\* Bound: a hold call starts only while an unused hold_id is left for it.
HoldIdLeft ==
    Cardinality({c \in Callers : pc[c] \in {"hold_wait", "hold_insert"}})
        < Cardinality({h \in Holds : hold[h] = None})

\* A quantity below 1 is refused at once; otherwise the clock is read, and
\* only then does the transaction begin.
BeginHold(c, a, q) ==
    /\ pc[c] = "idle"
    /\ q >= 1
    /\ HoldIdLeft
    /\ Goto(c, "hold_wait")
    /\ req' = [req EXCEPT ![c] = [activity |-> a, hold |-> None, qty |-> q, at |-> now]]
    /\ UNCHANGED <<now, rows, locks, history>>

\* The Activity row is locked, and the stock left is computed at the clock
\* reading taken before the wait.
CheckStock(c) ==
    /\ pc[c] = "hold_wait"
    /\ LET a == req[c].activity
           available == Stock[a] - ConsumedQty(a, req[c].at)
       IN  /\ activityLock[a] = None
           /\ \/ /\ available < req[c].qty
                 /\ Return(c)
              \/ /\ available >= req[c].qty
                 /\ activityLock' = [activityLock EXCEPT ![a] = c]
                 /\ Goto(c, "hold_insert")
                 /\ UNCHANGED <<holdLock, req>>
    /\ UNCHANGED <<now, rows, history>>

CommitHold(c, h) ==
    /\ pc[c] = "hold_insert"
    /\ hold[h] = None
    /\ hold' = [hold EXCEPT ![h] = [activity |-> req[c].activity,
                                    qty      |-> req[c].qty,
                                    expires  |-> req[c].at + TTL]]
    /\ Return(c)
    /\ UNCHANGED <<now, status, conf, history>>

-----------------------------------------------------------------------------
(* reserve_activity                                                        *)

BeginReserve(c, h) ==
    /\ pc[c] = "idle"
    /\ hold[h] # None
    /\ Goto(c, "reserve_wait_hold")
    /\ req' = [req EXCEPT ![c] = [activity |-> hold[h].activity, hold |-> h,
                                  qty |-> hold[h].qty, at |-> now]]
    /\ UNCHANGED <<now, rows, locks, history>>

\* SELECT ... JOIN activity FOR UPDATE locks the hold row, then the Activity row.
LockHold(c) ==
    /\ pc[c] = "reserve_wait_hold"
    /\ holdLock[req[c].hold] = None
    /\ holdLock' = [holdLock EXCEPT ![req[c].hold] = c]
    /\ Goto(c, "reserve_wait_activity")
    /\ UNCHANGED <<now, rows, activityLock, req, history>>

\* With both rows locked: a confirmed reservation is returned as it is, a
\* hold expired at the clock reading is refused, any other goes on.
CheckReservation(c) ==
    /\ pc[c] = "reserve_wait_activity"
    /\ LET h == req[c].hold
           a == req[c].activity
       IN  /\ activityLock[a] = None
           /\ \/ /\ status[h] = "confirmed"
                 /\ told' = [told EXCEPT ![h] = @ \cup {conf[h]}]
                 /\ Return(c)
              \/ /\ status[h] # "confirmed"
                 /\ hold[h].expires <= req[c].at
                 /\ Return(c)
                 /\ UNCHANGED told
              \/ /\ status[h] # "confirmed"
                 /\ hold[h].expires > req[c].at
                 /\ activityLock' = [activityLock EXCEPT ![a] = c]
                 /\ Goto(c, "reserve_insert")
                 /\ UNCHANGED <<holdLock, req, told>>
    /\ UNCHANGED <<now, rows, conflict, late>>

\* The reservation is inserted with a fresh confirmation.  The OneToOneField
\* rejects a second reservation of the hold, whatever the status of the
\* first: the IntegrityError is not a ProviderError and leaves the call.
CommitReserve(c, n) ==
    /\ pc[c] = "reserve_insert"
    /\ LET h == req[c].hold
       IN  \/ /\ status[h] = "none"
              /\ \A g \in Holds : conf[g] # n
              /\ status' = [status EXCEPT ![h] = "confirmed"]
              /\ conf' = [conf EXCEPT ![h] = n]
              /\ told' = [told EXCEPT ![h] = @ \cup {n}]
              /\ late' = IF hold[h].expires <= now THEN late \cup {h} ELSE late
              /\ UNCHANGED conflict
           \/ /\ status[h] # "none"
              /\ conflict' = conflict \cup {h}
              /\ UNCHANGED <<status, conf, told, late>>
    /\ Return(c)
    /\ UNCHANGED <<now, hold>>

-----------------------------------------------------------------------------
\* cancel_reservation: one row locked, set and saved, whatever its status was.
\* It takes no lock that hold_activity or reserve_activity waits for.
CancelReservation(h) ==
    /\ status[h] # "none"
    /\ status' = [status EXCEPT ![h] = "canceled"]
    /\ UNCHANGED <<now, hold, conf, locks, calls, history>>

\* The calling process dies or loses its connection: the transaction is
\* rolled back and its locks are released.
Drop(c) ==
    /\ pc[c] # "idle"
    /\ Return(c)
    /\ UNCHANGED <<now, rows, history>>

Next ==
    \/ Tick
    \/ \E c \in Callers :
          \/ \E a \in Activities, q \in Quantities : BeginHold(c, a, q)
          \/ CheckStock(c)
          \/ \E h \in Holds : CommitHold(c, h) \/ BeginReserve(c, h)
          \/ LockHold(c)
          \/ CheckReservation(c)
          \/ \E n \in Confs : CommitReserve(c, n)
          \/ Drop(c)
    \/ \E h \in Holds : CancelReservation(h)

Spec == Init /\ [][Next]_vars

\* PostgreSQL queues the waiters of a row lock, so a wait that is possible
\* again and again is granted (SF); a granted transaction goes on (WF).
Fairness ==
    \A c \in Callers :
        /\ SF_vars(CheckStock(c))
        /\ SF_vars(LockHold(c))
        /\ SF_vars(CheckReservation(c))
        /\ WF_vars(\E h \in Holds : CommitHold(c, h))
        /\ WF_vars(\E n \in Confs : CommitReserve(c, n))

-----------------------------------------------------------------------------
TypeOK ==
    /\ now \in Nat
    /\ hold \in [Holds -> HoldRow \cup {None}]
    /\ status \in [Holds -> {"none", "confirmed", "canceled"}]
    /\ conf \in [Holds -> Confs \cup {None}]
    /\ activityLock \in [Activities -> Callers \cup {None}]
    /\ holdLock \in [Holds -> Callers \cup {None}]
    /\ pc \in [Callers -> PCs]
    /\ req \in [Callers -> Request \cup {None}]
    /\ told \in [Holds -> SUBSET Confs]
    /\ conflict \subseteq Holds
    /\ late \subseteq Holds

\* "Prevents double selling" (provider/models.py:7-8): at no time do live holds and
\* confirmed reservations take more than the stock.
NoOversell ==
    \A a \in Activities : ConsumedQty(a, now) <= Stock[a]

\* What the locking does guarantee: without the reservations that a
\* reserve_activity confirmed from a clock reading older than the hold's
\* expiry, live holds and confirmed reservations never exceed the stock,
\* however the calls, the clock and the cancels interleave.
SoldWithinStock ==
    \A a \in Activities :
        Cardinality(Seats(hold, Occupying(a, now) \ late)) <= Stock[a]

\* reserve_activity is idempotent (provider/services.py:9-10): however many callers
\* reserve a hold at once or again, they are all told the one confirmation
\* the table holds.
OneConfirmationPerHold ==
    \A h \in Holds : told[h] \subseteq {conf[h]}

\* "Calling again with the same hold_id ... returns the existing
\* confirmation" (provider/services.py:112): a reserve never ends in an IntegrityError.
\* In no run: TLC refutes it, see the README.
ReserveNeverConflicts == conflict = {}

\* The row locks keep concurrent reserves of a hold apart: an IntegrityError
\* surfaces only for a hold whose reservation was canceled.
ConflictOnlyAfterCancel ==
    \A h \in conflict : status[h] = "canceled"

\* No call waits forever: the hold lock, then the activity lock, cannot form a
\* cycle, and every way out of a transaction releases what it locked.
EveryCallReturns ==
    \A c \in Callers : pc[c] # "idle" ~> pc[c] = "idle"

-----------------------------------------------------------------------------
(* What makes the safety properties inductive.                              *)

Reserving == {"reserve_wait_hold", "reserve_wait_activity", "reserve_insert"}

\* A call past its wait holds the locks it waited for.
LocksHeld ==
    \A c \in Callers :
        /\ pc[c] \in {"reserve_wait_activity", "reserve_insert"} => holdLock[req[c].hold] = c
        /\ pc[c] \in {"hold_insert", "reserve_insert"} => activityLock[req[c].activity] = c

\* A running call has its arguments and a clock reading of the past; a hold asks
\* for at least one seat, a reserve is for a hold that exists.
RequestsOK ==
    \A c \in Callers :
        /\ pc[c] # "idle" => req[c] \in Request /\ req[c].at <= now
        /\ pc[c] \in {"hold_wait", "hold_insert"} => req[c].qty \in Quantities \ {0}
        /\ pc[c] \in Reserving =>
              /\ req[c].hold \in Holds
              /\ hold[req[c].hold] # None
              /\ hold[req[c].hold].activity = req[c].activity

\* Only existing holds are reserved, only reserved ones are told or late, and
\* every reservation has its confirmation.
RowsOK ==
    \A h \in Holds :
        /\ hold[h] = None => status[h] = "none"
        /\ status[h] = "none" => told[h] = {} /\ h \notin late
        /\ status[h] # "none" => conf[h] \in Confs

\* What a call found under its locks still holds when it writes: the seats it
\* was granted fit, counted at its own clock reading, and the hold it will
\* reserve has no confirmed reservation.
ChecksStillHold ==
    \A c \in Callers :
        /\ pc[c] = "hold_insert" =>
              ConsumedQty(req[c].activity, req[c].at) + req[c].qty <= Stock[req[c].activity]
        /\ pc[c] = "reserve_insert" => status[req[c].hold] # "confirmed"

Inv ==
    /\ TypeOK
    /\ LocksHeld
    /\ RequestsOK
    /\ RowsOK
    /\ ChecksStillHold
    /\ SoldWithinStock
    /\ OneConfirmationPerHold
    /\ ConflictOnlyAfterCancel

-----------------------------------------------------------------------------
(* An environment in which the clock never passes the expiry of a hold     *)
(* while a reserve of it is under way.  NoOversell holds there, so a stale  *)
(* clock reading is the only way to its violation.                          *)

TickIsPrompt ==
    \A c \in Callers :
        pc[c] \in Reserving =>
            ~(/\ req[c].at < hold[req[c].hold].expires
              /\ hold[req[c].hold].expires <= now')

PromptSpec == Init /\ [][Next /\ TickIsPrompt]_vars

FairPromptSpec == PromptSpec /\ Fairness

\* Why nothing is late there: a reserve that read the clock in time commits in time.
NeverLate ==
    /\ late = {}
    /\ \A c \in Callers :
          /\ pc[c] \in Reserving /\ hold[req[c].hold].expires > req[c].at =>
                hold[req[c].hold].expires > now
          /\ pc[c] = "reserve_insert" => hold[req[c].hold].expires > req[c].at

\* The ledger as its callers see it now: a hold without a reservation is held
\* until the clock reaches its expiry.
LedgerState(h) ==
    IF status[h] = "none"
    THEN IF hold[h].expires > now THEN "held" ELSE "lapsed"
    ELSE IF status[h] = "confirmed" THEN "sold" ELSE "returned"

ledgerView ==
    [h \in Holds |->
        IF hold[h] = None
        THEN [state |-> "free", activity |-> None, qty |-> 0]
        ELSE [state |-> LedgerState(h), activity |-> hold[h].activity, qty |-> hold[h].qty]]

Ledger == INSTANCE StockLedger WITH ledger <- ledgerView

\* Under prompt reserves the calls, each a chain of clock readings, lock waits and
\* writes, are indivisible operations on a ledger that never gives a seat twice.
ImplementsStockLedger == Ledger!Spec

=============================================================================
