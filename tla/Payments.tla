------------------------------ MODULE Payments ------------------------------
(***************************************************************************)
(* Paying for a plan and booking what was paid: payments/views.py, the two *)
(* endpoints of trips/views.py that book by hand, and the worker tasks     *)
(* run_booking and run_flight_ticketing of agents/tasks.py.                *)
(*                                                                         *)
(* payment_prepare checks and then inserts without a lock.                 *)
(* payment_confirm holds the order's row lock while it asks Toss for the   *)
(* approval, puts the booking task on the broker's queue and only then     *)
(* commits the order as DONE; a crash or an exception rolls the row back,  *)
(* but neither the charge nor the queued task.  Toss and the two booking   *)
(* suppliers are external: what they answer is a choice.                   *)
(***************************************************************************)
EXTENDS Integers, FiniteSets

CONSTANTS
    Requests,   \* HTTP requests in progress at once
    Plans,      \* confirmed or confirmable plans, each with a hotel and a flight
    Orders,     \* bound: the order_ids a run can hand out
    Runs,       \* bound: the run_ids a run can hand out
    None

ASSUME PaymentsAssumption ==
    /\ None \notin Requests \cup Plans \cup Orders \cup Runs
    /\ None \notin [plan : Plans, target : {"hotel", "flight"},
                    status : {"READY", "DONE", "ABORTED"}, run : Runs \cup {None}]
    /\ None \notin [plan : Plans, target : {"hotel", "flight"}, order : Orders \cup {None},
                    state : {"queued", "running", "booked", "confirmed", "failed", "lost"}]

VARIABLES
    confirmed,  \* the plans whose status is CONFIRMED
    order,      \* order[o]: the Payment row, None before it is inserted
    orderLock,  \* the request whose transaction locks the Payment row
    charged,    \* the orders Toss has approved
    task,       \* task[r]: the booking task of run r and what became of it
    pc, arg,    \* where a request is, and its plan, target, order and run
    orphaned    \* history: runs queued by a confirm that was then rolled back

vars == <<confirmed, order, orderLock, charged, task, pc, arg, orphaned>>

Targets == {"hotel", "flight"}
OrderRow == [plan : Plans, target : Targets,
             status : {"READY", "DONE", "ABORTED"}, run : Runs \cup {None}]
Task == [plan : Plans, target : Targets, order : Orders \cup {None},
         state : {"queued", "running", "booked", "confirmed", "failed", "lost"}]
Arguments == [plan : Plans, target : Targets, order : Orders \cup {None},
              run : Runs \cup {None}]
PCs == {"idle", "prepare_check", "prepare_insert", "confirm_wait", "confirm_toss",
        "confirm_enqueue", "confirm_save", "book_check", "book_enqueue"}

\* plan.payments.filter(status=DONE, target=target).exists()
Paid(p, t) ==
    \E o \in Orders : /\ order[o] # None
                      /\ order[o].plan = p /\ order[o].target = t
                      /\ order[o].status = "DONE"

-----------------------------------------------------------------------------
Init ==
    /\ confirmed = {}
    /\ order = [o \in Orders |-> None]
    /\ orderLock = [o \in Orders |-> None]
    /\ charged = {}
    /\ task = [r \in Runs |-> None]
    /\ pc = [w \in Requests |-> "idle"]
    /\ arg = [w \in Requests |-> None]
    /\ orphaned = {}

\* plan_confirm, seen from here.
ConfirmPlan(p) ==
    /\ confirmed' = confirmed \cup {p}
    /\ UNCHANGED <<order, orderLock, charged, task, pc, arg, orphaned>>

\* run_local_edit saves its whole row as it read it before the user confirmed it.
ResetPlan(p) ==
    /\ confirmed' = confirmed \ {p}
    /\ UNCHANGED <<order, orderLock, charged, task, pc, arg, orphaned>>

Goto(w, to) == pc' = [pc EXCEPT ![w] = to]

Start(w, to, p, t, o) ==
    /\ pc[w] = "idle"
    /\ Goto(w, to)
    /\ arg' = [arg EXCEPT ![w] = [plan |-> p, target |-> t, order |-> o, run |-> None]]

\* The request is answered or dies; its transaction and its lock are gone.
Return(w) ==
    /\ Goto(w, "idle")
    /\ arg' = [arg EXCEPT ![w] = None]
    /\ orderLock' = [o \in Orders |-> IF orderLock[o] = w THEN None ELSE orderLock[o]]

\* run_booking.delay / run_flight_ticketing.delay: from here on a worker may run it.
Enqueue(r, p, t, o) ==
    /\ task[r] = None
    /\ task' = [task EXCEPT ![r] = [plan |-> p, target |-> t, order |-> o,
                                    state |-> "queued"]]

-----------------------------------------------------------------------------
(* Faulty variants of the actions below, one per mistake the properties are *)
(* there to catch; no specification uses them.                              *)

\* The target is left out of the query: only a paid hotel is noticed.
CheckUnpaidAnyTarget(w) ==
    /\ pc[w] = "prepare_check"
    /\ IF Paid(arg[w].plan, "hotel")
       THEN Return(w)
       ELSE Goto(w, "prepare_insert") /\ UNCHANGED <<arg, orderLock>>
    /\ UNCHANGED <<confirmed, order, charged, task, orphaned>>

\* The order is read without SELECT ... FOR UPDATE.
LockOrderUnlocked(w, amountMatches) ==
    /\ pc[w] = "confirm_wait"
    /\ IF order[arg[w].order].status # "DONE" /\ amountMatches
       THEN Goto(w, "confirm_toss") /\ UNCHANGED <<arg, orderLock>>
       ELSE Return(w)
    /\ UNCHANGED <<confirmed, order, charged, task, orphaned>>

\* The rejection is saved under a status no reader knows.
TossRejectsMisspelt(w) ==
    /\ pc[w] = "confirm_toss"
    /\ order' = [order EXCEPT ![arg[w].order].status = "FAILED"]
    /\ Return(w)
    /\ UNCHANGED <<confirmed, charged, task, orphaned>>

\* A timeout is taken for an approval.
TossSilentApproves(w) ==
    /\ pc[w] = "confirm_toss"
    /\ charged' \in {charged, charged \cup {arg[w].order}}
    /\ Goto(w, "confirm_enqueue")
    /\ UNCHANGED <<confirmed, order, orderLock, task, arg, orphaned>>

\* Any payment of the plan opens the gate.
CheckPaidAnyTarget(w) ==
    /\ pc[w] = "book_check"
    /\ IF \E t \in Targets : Paid(arg[w].plan, t)
       THEN Goto(w, "book_enqueue") /\ UNCHANGED <<arg, orderLock>>
       ELSE Return(w)
    /\ UNCHANGED <<confirmed, order, charged, task, orphaned>>

-----------------------------------------------------------------------------
(* payment_prepare                                                         *)

BeginPrepare(w, p, t) ==
    /\ p \in confirmed
    /\ Start(w, "prepare_check", p, t, None)
    /\ UNCHANGED <<confirmed, order, orderLock, charged, task, orphaned>>

\* 409 when this target of the plan is already paid.
CheckUnpaid(w) ==
    /\ pc[w] = "prepare_check"
    /\ \/ /\ Paid(arg[w].plan, arg[w].target)
          /\ Return(w)
       \/ /\ ~Paid(arg[w].plan, arg[w].target)
          /\ Goto(w, "prepare_insert")
          /\ UNCHANGED <<arg, orderLock>>
    /\ UNCHANGED <<confirmed, order, charged, task, orphaned>>

\* The order is created with a fresh order_id; nothing keeps a second READY
\* order of the same plan and target out.
InsertOrder(w, o) ==
    /\ pc[w] = "prepare_insert"
    /\ order[o] = None
    /\ order' = [order EXCEPT ![o] = [plan |-> arg[w].plan, target |-> arg[w].target,
                                      status |-> "READY", run |-> None]]
    /\ Return(w)
    /\ UNCHANGED <<confirmed, charged, task, orphaned>>

-----------------------------------------------------------------------------
(* payment_confirm                                                         *)

BeginConfirm(w, o) ==
    /\ order[o] # None
    /\ Start(w, "confirm_wait", order[o].plan, order[o].target, o)
    /\ UNCHANGED <<confirmed, order, orderLock, charged, task, orphaned>>

\* With the row locked: a DONE order answers what it answered before, a
\* differing amount is refused, anything else (READY and ABORTED) goes to Toss.
LockOrder(w, amountMatches) ==
    /\ pc[w] = "confirm_wait"
    /\ orderLock[arg[w].order] = None
    /\ \/ /\ order[arg[w].order].status = "DONE" \/ ~amountMatches
          /\ Return(w)
       \/ /\ order[arg[w].order].status # "DONE"
          /\ amountMatches
          /\ orderLock' = [orderLock EXCEPT ![arg[w].order] = w]
          /\ Goto(w, "confirm_toss")
          /\ UNCHANGED arg
    /\ UNCHANGED <<confirmed, order, charged, task, orphaned>>

TossApproves(w) ==
    /\ pc[w] = "confirm_toss"
    /\ charged' = charged \cup {arg[w].order}
    /\ Goto(w, "confirm_enqueue")
    /\ UNCHANGED <<confirmed, order, orderLock, task, arg, orphaned>>

\* An HTTP status of 400 or more is a TossError: the order is saved as ABORTED.
TossRejects(w) ==
    /\ pc[w] = "confirm_toss"
    /\ order' = [order EXCEPT ![arg[w].order].status = "ABORTED"]
    /\ Return(w)
    /\ UNCHANGED <<confirmed, charged, task, orphaned>>

\* No answer in 15 seconds is not a TossError: the transaction is rolled back,
\* and Toss may have approved all the same.
TossSilent(w) ==
    /\ pc[w] = "confirm_toss"
    /\ charged' \in {charged, charged \cup {arg[w].order}}
    /\ Return(w)
    /\ UNCHANGED <<confirmed, order, task, orphaned>>

EnqueuePaid(w, r) ==
    /\ pc[w] = "confirm_enqueue"
    /\ Enqueue(r, arg[w].plan, arg[w].target, arg[w].order)
    /\ arg' = [arg EXCEPT ![w].run = r]
    /\ Goto(w, "confirm_save")
    /\ UNCHANGED <<confirmed, order, orderLock, charged, orphaned>>

CommitPayment(w) ==
    /\ pc[w] = "confirm_save"
    /\ order' = [order EXCEPT ![arg[w].order] =
                    [@ EXCEPT !.status = "DONE", !.run = arg[w].run]]
    /\ Return(w)
    /\ UNCHANGED <<confirmed, charged, task, orphaned>>

-----------------------------------------------------------------------------
(* plan_book (hotel, only for a paid hotel) and plan_ticket_flight (flight, *)
(* "without a payment gate"): both only for a confirmed plan.               *)

BeginBook(w, p) ==
    /\ p \in confirmed
    /\ Start(w, "book_check", p, "hotel", None)
    /\ UNCHANGED <<confirmed, order, orderLock, charged, task, orphaned>>

BeginTicket(w, p) ==
    /\ p \in confirmed
    /\ Start(w, "book_enqueue", p, "flight", None)
    /\ UNCHANGED <<confirmed, order, orderLock, charged, task, orphaned>>

CheckPaid(w) ==
    /\ pc[w] = "book_check"
    /\ \/ /\ Paid(arg[w].plan, "hotel")
          /\ Goto(w, "book_enqueue")
          /\ UNCHANGED <<arg, orderLock>>
       \/ /\ ~Paid(arg[w].plan, "hotel")
          /\ Return(w)
    /\ UNCHANGED <<confirmed, order, charged, task, orphaned>>

EnqueueByHand(w, r) ==
    /\ pc[w] = "book_enqueue"
    /\ Enqueue(r, arg[w].plan, arg[w].target, None)
    /\ Return(w)
    /\ UNCHANGED <<confirmed, order, charged, orphaned>>

\* The web process dies, or Redis, the broker or the database fails it.
Abandon(w) ==
    /\ pc[w] # "idle"
    /\ orphaned' = IF pc[w] = "confirm_save" THEN orphaned \cup {arg[w].run} ELSE orphaned
    /\ Return(w)
    /\ UNCHANGED <<confirmed, order, charged, task>>

-----------------------------------------------------------------------------
(* run_booking and run_flight_ticketing on a worker.                       *)

Move(r, from, to) ==
    /\ task[r] # None
    /\ task[r].state \in from
    /\ task' = [task EXCEPT ![r].state = to]
    /\ UNCHANGED <<confirmed, order, orderLock, charged, pc, arg, orphaned>>

StartTask(r) == Move(r, {"queued"}, "running")

\* The agent's tool calls reached the supplier's confirmation.
SupplierBooks(r) == Move(r, {"running"}, "booked")

\* save_booking records the attempt, CONFIRMED only with a booking number.
SaveBooking(r) == Move(r, {"booked"}, "confirmed") \/ Move(r, {"running", "booked"}, "failed")

\* The task was acknowledged when it started: a worker that dies, or an
\* exception out of the agent loop, loses it with whatever was booked.
LoseTask(r) == Move(r, {"running", "booked"}, "lost")

-----------------------------------------------------------------------------
Next ==
    \/ \E p \in Plans : ConfirmPlan(p) \/ ResetPlan(p)
    \/ \E w \in Requests :
          \/ \E p \in Plans, t \in Targets : BeginPrepare(w, p, t)
          \/ CheckUnpaid(w)
          \/ \E o \in Orders : InsertOrder(w, o) \/ BeginConfirm(w, o)
          \/ \E amountMatches \in BOOLEAN : LockOrder(w, amountMatches)
          \/ TossApproves(w) \/ TossRejects(w) \/ TossSilent(w)
          \/ \E r \in Runs : EnqueuePaid(w, r) \/ EnqueueByHand(w, r)
          \/ CommitPayment(w)
          \/ \E p \in Plans : BeginBook(w, p) \/ BeginTicket(w, p)
          \/ CheckPaid(w)
          \/ Abandon(w)
    \/ \E r \in Runs : StartTask(r) \/ SupplierBooks(r) \/ SaveBooking(r) \/ LoseTask(r)

Spec == Init /\ [][Next]_vars

-----------------------------------------------------------------------------
TypeOK ==
    /\ confirmed \subseteq Plans
    /\ order \in [Orders -> OrderRow \cup {None}]
    /\ orderLock \in [Orders -> Requests \cup {None}]
    /\ charged \subseteq Orders
    /\ task \in [Runs -> Task \cup {None}]
    /\ pc \in [Requests -> PCs]
    /\ arg \in [Requests -> Arguments \cup {None}]
    /\ orphaned \subseteq Runs

Existing == {o \in Orders : order[o] # None}
Queued == {r \in Runs : task[r] # None}

\* "Preventing duplicate payment" (payments/views.py:83), one payment for the
\* hotel and one for the flight of a plan (payments/models.py:41-42).
OnePaymentPerItem ==
    \A o1, o2 \in Existing :
        /\ order[o1].status = "DONE" /\ order[o2].status = "DONE"
        /\ order[o1].plan = order[o2].plan /\ order[o1].target = order[o2].target
        => o1 = o2

\* "Payment is the gate of booking" (payments/views.py:6-7): a task queued for an
\* order belongs to an order recorded as DONE once its confirm is over.  In no run: TLC
\* refutes it, see the README.
PaymentGatesBooking ==
    \A r \in Queued :
        \/ task[r].order = None
        \/ order[task[r].order].status = "DONE"
        \/ \E w \in Requests : pc[w] = "confirm_save" /\ arg[w].run = r

\* An order recorded as DONE was approved by Toss, and the booking it reports
\* is a task for its own plan and target.
DoneIsPaidAndBooked ==
    \A o \in Existing :
        order[o].status = "DONE" =>
            /\ o \in charged
            /\ order[o].run \in Queued
            /\ task[order[o].run].order = o
            /\ task[order[o].run].plan = order[o].plan
            /\ task[order[o].run].target = order[o].target

\* Double clicks and retries queue no second booking for an order: the task of
\* an order is the one its DONE row names or its running confirm is about to
\* name; only a rollback after delay leaves another.
OneRunPerOrder ==
    \A r \in Queued \ orphaned :
        task[r].order # None =>
            \/ /\ order[task[r].order].status = "DONE"
               /\ order[task[r].order].run = r
            \/ /\ order[task[r].order].status # "DONE"
               /\ \E w \in Requests : /\ pc[w] = "confirm_save" /\ arg[w].run = r
                                      /\ orderLock[task[r].order] = w

\* No hotel is booked that nobody paid for (trips/views.py:807): not by
\* plan_book, whatever was paid for the flight, and not by a rolled back confirm.
HotelBookingsArePaid ==
    \A r \in Queued :
        task[r].target = "hotel" =>
            \E o \in charged : order[o].plan = task[r].plan /\ order[o].target = "hotel"

\* A payment that was completed is never reopened, aborted or given another
\* booking, however late a second confirm of the order comes back from Toss.  And
\* what the 409 of payment_prepare does guarantee: once an item is paid, its
\* orders are all DONE and no prepare of it has passed the check, it is never
\* charged again.
Settled(p, t) ==
    /\ Paid(p, t)
    /\ \A o \in Existing : order[o].plan = p /\ order[o].target = t => order[o].status = "DONE"
    /\ \A w \in Requests :
          ~(pc[w] = "prepare_insert" /\ arg[w].plan = p /\ arg[w].target = t)

SettledIsFinal ==
    [][/\ \A o \in Existing : order[o].status = "DONE" => order'[o] = order[o]
       /\ \A p \in Plans, t \in Targets :
             Settled(p, t) =>
                 /\ Settled(p, t)'
                 /\ \A o \in charged' \ charged :
                       ~(order[o].plan = p /\ order[o].target = t)]_vars
=============================================================================
