--------------------------- MODULE PaymentsProofs ---------------------------
(***************************************************************************)
(* What the row lock of payment_confirm and the two checks for a DONE      *)
(* order guarantee, for any requests, plans, orders and runs.  The         *)
(* invariants are not inductive alone: a commit is right because of what   *)
(* its request found and did under the lock, which Inv remembers.          *)
(***************************************************************************)
EXTENDS Payments, TLAPS

Confirming(w) == pc[w] \in {"confirm_wait", "confirm_toss", "confirm_enqueue", "confirm_save"}
Holding(w) == pc[w] \in {"confirm_toss", "confirm_enqueue", "confirm_save"}

\* A confirm is about an order that exists.
RequestsOK ==
    \A w \in Requests :
        /\ pc[w] # "idle" => arg[w] \in Arguments
        /\ Confirming(w) =>
              /\ arg[w].order \in Existing
              /\ order[arg[w].order].plan = arg[w].plan
              /\ order[arg[w].order].target = arg[w].target

\* Past its wait it owns the row, and the row is not DONE.
LocksHeld ==
    \A w \in Requests :
        Holding(w) =>
            /\ orderLock[arg[w].order] = w
            /\ order[arg[w].order].status # "DONE"

\* Past Toss the order is charged, and past delay its task is on the queue.
ConfirmsOK ==
    \A w \in Requests :
        /\ pc[w] \in {"confirm_enqueue", "confirm_save"} => arg[w].order \in charged
        /\ pc[w] = "confirm_save" =>
              /\ arg[w].run \in Queued
              /\ task[arg[w].run].order = arg[w].order
              /\ task[arg[w].run].plan = arg[w].plan
              /\ task[arg[w].run].target = arg[w].target

HotelPaid(p) == \E o \in charged : order[o].plan = p /\ order[o].target = "hotel"

\* What plan_book found paid stays paid.
BooksOK ==
    \A w \in Requests :
        /\ pc[w] = "book_check" => arg[w].target = "hotel"
        /\ pc[w] = "book_enqueue" /\ arg[w].target = "hotel" => HotelPaid(arg[w].plan)

\* A task queued by a confirm is for a charged order, and for what it pays.
TasksOK ==
    \A r \in Queued :
        task[r].order # None =>
            /\ task[r].order \in charged
            /\ order[task[r].order].plan = task[r].plan
            /\ order[task[r].order].target = task[r].target

Inv ==
    /\ TypeOK
    /\ RequestsOK
    /\ LocksHeld
    /\ ConfirmsOK
    /\ BooksOK
    /\ charged \subseteq Existing
    /\ TasksOK
    /\ DoneIsPaidAndBooked
    /\ OneRunPerOrder
    /\ HotelBookingsArePaid

-----------------------------------------------------------------------------
\* Every run that is not orphaned keeps its row or its confirm.
LEMMA OneRunKept ==
    ASSUME Inv,
           \A r \in (Queued \ orphaned)' :
               task'[r].order # None => r \in Queued \ orphaned /\ task'[r] = task[r],
           \A o \in Existing :
               \/ order'[o] = order[o]
               \/ order[o].status # "DONE" /\ order'[o].status # "DONE",
           \A v \in Requests, r \in (Queued \ orphaned)' :
               pc[v] = "confirm_save" /\ arg[v].run = r =>
                   /\ pc'[v] = "confirm_save" /\ arg'[v] = arg[v]
                   /\ \A o \in Orders : orderLock[o] = v => orderLock'[o] = v
    PROVE  OneRunPerOrder'
<1> SUFFICES ASSUME NEW r \in (Queued \ orphaned)', task'[r].order # None
             PROVE  \/ /\ order'[task[r].order].status = "DONE"
                       /\ order'[task[r].order].run = r
                    \/ /\ order'[task[r].order].status # "DONE"
                       /\ \E v \in Requests : /\ pc'[v] = "confirm_save" /\ arg'[v].run = r
                                              /\ orderLock'[task[r].order] = v
  BY DEF OneRunPerOrder
<1>1. r \in Queued \ orphaned /\ task[r].order # None
  OBVIOUS
<1>2. task[r].order \in Existing /\ task[r].order \in Orders
  BY <1>1 DEF Inv, TasksOK, Existing
<1>3. CASE order[task[r].order].status = "DONE"
  BY <1>1, <1>2, <1>3 DEF Inv, OneRunPerOrder
<1>4. CASE order[task[r].order].status # "DONE"
  <2>1. PICK v \in Requests : /\ pc[v] = "confirm_save" /\ arg[v].run = r
                              /\ orderLock[task[r].order] = v
    BY <1>1, <1>4 DEF Inv, OneRunPerOrder
  <2> QED BY <1>2, <1>4, <2>1
<1> QED BY <1>3, <1>4

\* Nothing is paid, queued or in progress at first.
LEMMA InitInv == Init => Inv
<1> SUFFICES ASSUME Init PROVE Inv
  OBVIOUS
<1>1. TypeOK
  BY DEF Init, TypeOK, PCs
<1>2. Existing = {} /\ Queued = {} /\ charged = {}
  BY DEF Init, Existing, Queued
<1>3. RequestsOK /\ LocksHeld /\ ConfirmsOK /\ BooksOK
  BY DEF Init, RequestsOK, LocksHeld, ConfirmsOK, BooksOK, Confirming, Holding
<1> QED
  BY <1>1, <1>2, <1>3 DEF Inv, TasksOK, DoneIsPaidAndBooked, OneRunPerOrder, HotelBookingsArePaid

\* Plans are confirmed, and edits undo it, outside of the invariant.
LEMMA ConfirmPlanInv == ASSUME Inv, NEW p \in Plans, ConfirmPlan(p) PROVE Inv'
<1>1. TypeOK'
  BY DEF ConfirmPlan, Inv, TypeOK, PCs
<1>2. RequestsOK'
  BY DEF ConfirmPlan, Inv, RequestsOK, Confirming, Existing
<1>3. LocksHeld'
  BY DEF ConfirmPlan, Inv, LocksHeld, Holding
<1>4. ConfirmsOK'
  BY DEF ConfirmPlan, Inv, ConfirmsOK, Queued
<1>5. BooksOK'
  BY DEF ConfirmPlan, Inv, BooksOK, HotelPaid
<1>6. (charged \subseteq Existing)'
  BY DEF ConfirmPlan, Inv, Existing
<1>7. TasksOK'
  BY DEF ConfirmPlan, Inv, TasksOK, Queued
<1>8. DoneIsPaidAndBooked'
  BY DEF ConfirmPlan, Inv, DoneIsPaidAndBooked, Existing, Queued
<1>9. OneRunPerOrder'
  BY DEF ConfirmPlan, Inv, OneRunPerOrder, Queued
<1>10. HotelBookingsArePaid'
  BY DEF ConfirmPlan, Inv, HotelBookingsArePaid, Queued
<1> QED BY <1>1, <1>2, <1>3, <1>4, <1>5, <1>6, <1>7, <1>8, <1>9, <1>10 DEF Inv

\* Undoing a confirmation leaves payments and tasks as they are.
LEMMA ResetPlanInv == ASSUME Inv, NEW p \in Plans, ResetPlan(p) PROVE Inv'
<1>1. TypeOK'
  BY DEF ResetPlan, Inv, TypeOK, PCs
<1>2. RequestsOK'
  BY DEF ResetPlan, Inv, RequestsOK, Confirming, Existing
<1>3. LocksHeld'
  BY DEF ResetPlan, Inv, LocksHeld, Holding
<1>4. ConfirmsOK'
  BY DEF ResetPlan, Inv, ConfirmsOK, Queued
<1>5. BooksOK'
  BY DEF ResetPlan, Inv, BooksOK, HotelPaid
<1>6. (charged \subseteq Existing)'
  BY DEF ResetPlan, Inv, Existing
<1>7. TasksOK'
  BY DEF ResetPlan, Inv, TasksOK, Queued
<1>8. DoneIsPaidAndBooked'
  BY DEF ResetPlan, Inv, DoneIsPaidAndBooked, Existing, Queued
<1>9. OneRunPerOrder'
  BY DEF ResetPlan, Inv, OneRunPerOrder, Queued
<1>10. HotelBookingsArePaid'
  BY DEF ResetPlan, Inv, HotelBookingsArePaid, Queued
<1> QED BY <1>1, <1>2, <1>3, <1>4, <1>5, <1>6, <1>7, <1>8, <1>9, <1>10 DEF Inv

\* A request that begins has neither lock nor history.
LEMMA BeginPrepareInv ==
    ASSUME Inv, NEW w \in Requests, NEW p \in Plans, NEW t \in Targets, BeginPrepare(w, p, t)
    PROVE  Inv'
<1>1. TypeOK'
  BY DEF BeginPrepare, Inv, Start, Goto, TypeOK, PCs, Arguments
<1>2. RequestsOK'
  BY DEF BeginPrepare, Inv, Start, Goto, RequestsOK, Confirming, Existing, Arguments, TypeOK
<1>3. LocksHeld'
  BY DEF BeginPrepare, Inv, Start, Goto, LocksHeld, Holding
<1>4. ConfirmsOK'
  BY DEF BeginPrepare, Inv, Start, Goto, ConfirmsOK, Queued
<1>5. BooksOK'
  BY DEF BeginPrepare, Inv, Start, Goto, BooksOK, HotelPaid
<1>6. (charged \subseteq Existing)'
  BY DEF BeginPrepare, Inv, Start, Goto, Existing
<1>7. TasksOK'
  BY DEF BeginPrepare, Inv, Start, Goto, TasksOK, Queued
<1>8. DoneIsPaidAndBooked'
  BY DEF BeginPrepare, Inv, Start, Goto, DoneIsPaidAndBooked, Existing, Queued
<1>9. OneRunPerOrder'
  BY DEF BeginPrepare, Inv, Start, Goto, OneRunPerOrder, Queued
<1>10. HotelBookingsArePaid'
  BY DEF BeginPrepare, Inv, Start, Goto, HotelBookingsArePaid, Queued
<1> QED BY <1>1, <1>2, <1>3, <1>4, <1>5, <1>6, <1>7, <1>8, <1>9, <1>10 DEF Inv

\* payment_prepare looks, and goes on or returns.
LEMMA CheckUnpaidInv == ASSUME Inv, NEW w \in Requests, CheckUnpaid(w) PROVE Inv'
<1>1. TypeOK'
  BY DEF CheckUnpaid, Inv, Goto, Return, Paid, TypeOK, PCs
<1>2. RequestsOK'
  BY DEF CheckUnpaid, Inv, Goto, Return, Paid, RequestsOK, Confirming, Existing, TypeOK
<1>3. LocksHeld'
  BY DEF CheckUnpaid, Inv, Goto, Return, Paid, LocksHeld, Holding, RequestsOK, Confirming,
         Existing, TypeOK
<1>4. ConfirmsOK'
  BY DEF CheckUnpaid, Inv, Goto, Return, Paid, ConfirmsOK, Queued, TypeOK
<1>5. BooksOK'
  BY DEF CheckUnpaid, Inv, Goto, Return, Paid, BooksOK, HotelPaid, TypeOK
<1>6. (charged \subseteq Existing)'
  BY DEF CheckUnpaid, Inv, Goto, Return, Paid, Existing
<1>7. TasksOK'
  BY DEF CheckUnpaid, Inv, Goto, Return, Paid, TasksOK, Queued
<1>8. DoneIsPaidAndBooked'
  BY DEF CheckUnpaid, Inv, Goto, Return, Paid, DoneIsPaidAndBooked, Existing, Queued
<1>9. OneRunPerOrder'
  BY DEF CheckUnpaid, Inv, Goto, Return, Paid, OneRunPerOrder, Queued, ConfirmsOK, TypeOK
<1>10. HotelBookingsArePaid'
  BY DEF CheckUnpaid, Inv, Goto, Return, Paid, HotelBookingsArePaid, Queued
<1> QED BY <1>1, <1>2, <1>3, <1>4, <1>5, <1>6, <1>7, <1>8, <1>9, <1>10 DEF Inv

\* A new row is READY, and no request or task was about it.
LEMMA InsertOrderInv ==
    ASSUME Inv, NEW w \in Requests, NEW o \in Orders, InsertOrder(w, o)
    PROVE  Inv'
<1>1. TypeOK'
  BY DEF InsertOrder, Inv, Return, Goto, TypeOK, PCs, OrderRow, Arguments, RequestsOK
<1>2. RequestsOK'
  BY DEF InsertOrder, Inv, Return, Goto, RequestsOK, Confirming, Existing, TypeOK
<1>3. LocksHeld'
  BY DEF InsertOrder, Inv, Return, Goto, LocksHeld, Holding, RequestsOK, Confirming,
         Existing
<1>4. ConfirmsOK'
  BY DEF InsertOrder, Inv, Return, Goto, ConfirmsOK, Queued
<1>5. BooksOK'
  BY DEF InsertOrder, Inv, Return, Goto, BooksOK, HotelPaid, Existing
<1>6. (charged \subseteq Existing)'
  BY DEF InsertOrder, Inv, Return, Existing
<1>7. TasksOK'
  BY DEF InsertOrder, Inv, Return, TasksOK, Queued, Existing
<1>8. DoneIsPaidAndBooked'
  BY DEF InsertOrder, Inv, Return, DoneIsPaidAndBooked, Existing, Queued
<1>9. OneRunPerOrder'
  <2>1. \A r \in (Queued \ orphaned)' :
            task'[r].order # None => r \in Queued \ orphaned /\ task'[r] = task[r]
    BY DEF InsertOrder, Queued
  <2>2. \A other \in Existing :
            \/ order'[other] = order[other]
            \/ order[other].status # "DONE" /\ order'[other].status # "DONE"
    BY DEF InsertOrder, Existing, Inv, TypeOK, Return, Goto
  <2>3. \A v \in Requests, r \in (Queued \ orphaned)' :
            pc[v] = "confirm_save" /\ arg[v].run = r =>
                /\ pc'[v] = "confirm_save" /\ arg'[v] = arg[v]
                /\ \A other \in Orders : orderLock[other] = v => orderLock'[other] = v
    BY DEF InsertOrder, Inv, TypeOK, Return, Goto
  <2> QED BY <2>1, <2>2, <2>3, OneRunKept
<1>10. HotelBookingsArePaid'
  BY DEF InsertOrder, Inv, Return, HotelBookingsArePaid, Queued, Existing
<1> QED BY <1>1, <1>2, <1>3, <1>4, <1>5, <1>6, <1>7, <1>8, <1>9, <1>10 DEF Inv

\* An order that is confirmed exists.
LEMMA BeginConfirmInv ==
    ASSUME Inv, NEW w \in Requests, NEW o \in Orders, BeginConfirm(w, o)
    PROVE  Inv'
<1>1. TypeOK'
  BY DEF BeginConfirm, Inv, Start, Goto, TypeOK, PCs, OrderRow, Arguments
<1>2. RequestsOK'
  BY DEF BeginConfirm, Inv, Start, Goto, RequestsOK, Confirming, Existing, OrderRow,
         Arguments, TypeOK
<1>3. LocksHeld'
  BY DEF BeginConfirm, Inv, Start, Goto, LocksHeld, Holding
<1>4. ConfirmsOK'
  BY DEF BeginConfirm, Inv, Start, Goto, ConfirmsOK, Queued
<1>5. BooksOK'
  BY DEF BeginConfirm, Inv, Start, Goto, BooksOK, HotelPaid
<1>6. (charged \subseteq Existing)'
  BY DEF BeginConfirm, Inv, Start, Goto, Existing
<1>7. TasksOK'
  BY DEF BeginConfirm, Inv, Start, Goto, TasksOK, Queued
<1>8. DoneIsPaidAndBooked'
  BY DEF BeginConfirm, Inv, Start, Goto, DoneIsPaidAndBooked, Existing, Queued
<1>9. OneRunPerOrder'
  BY DEF BeginConfirm, Inv, Start, Goto, OneRunPerOrder, Queued
<1>10. HotelBookingsArePaid'
  BY DEF BeginConfirm, Inv, Start, Goto, HotelBookingsArePaid, Queued
<1> QED BY <1>1, <1>2, <1>3, <1>4, <1>5, <1>6, <1>7, <1>8, <1>9, <1>10 DEF Inv

\* The lock is free when it is taken, and the row is read under it.
LEMMA LockOrderInv ==
    ASSUME Inv, NEW w \in Requests, NEW b \in BOOLEAN, LockOrder(w, b)
    PROVE  Inv'
<1>1. TypeOK'
  BY DEF LockOrder, Inv, Goto, Return, TypeOK, PCs
<1>2. RequestsOK'
  BY DEF LockOrder, Inv, Goto, Return, RequestsOK, Confirming, Existing, TypeOK
<1>3. LocksHeld'
  BY PaymentsAssumption DEF LockOrder, Inv, Goto, Return, LocksHeld, Holding, RequestsOK,
         Confirming, Existing, TypeOK
<1>4. ConfirmsOK'
  BY DEF LockOrder, Inv, Goto, Return, ConfirmsOK, Queued, TypeOK
<1>5. BooksOK'
  BY DEF LockOrder, Inv, Goto, Return, BooksOK, HotelPaid, TypeOK
<1>6. (charged \subseteq Existing)'
  BY DEF LockOrder, Inv, Goto, Return, Existing
<1>7. TasksOK'
  BY DEF LockOrder, Inv, Goto, Return, TasksOK, Queued
<1>8. DoneIsPaidAndBooked'
  BY DEF LockOrder, Inv, Goto, Return, DoneIsPaidAndBooked, Existing, Queued
<1>9. OneRunPerOrder'
  BY PaymentsAssumption DEF LockOrder, Inv, Goto, Return, OneRunPerOrder, Queued,
         ConfirmsOK, TypeOK
<1>10. HotelBookingsArePaid'
  BY DEF LockOrder, Inv, Goto, Return, HotelBookingsArePaid, Queued
<1> QED BY <1>1, <1>2, <1>3, <1>4, <1>5, <1>6, <1>7, <1>8, <1>9, <1>10 DEF Inv

\* An approval charges the order whose row is locked.
LEMMA TossApprovesInv == ASSUME Inv, NEW w \in Requests, TossApproves(w) PROVE Inv'
<1>1. TypeOK'
  BY DEF TossApproves, Inv, Goto, TypeOK, PCs, RequestsOK, Confirming, Existing
<1>2. RequestsOK'
  BY DEF TossApproves, Inv, Goto, RequestsOK, Confirming, Existing
<1>3. LocksHeld'
  BY DEF TossApproves, Inv, Goto, LocksHeld, Holding
<1>4. ConfirmsOK'
  BY DEF TossApproves, Inv, Goto, ConfirmsOK, Queued
<1>5. BooksOK'
  BY DEF TossApproves, Inv, Goto, BooksOK, HotelPaid
<1>6. (charged \subseteq Existing)'
  BY DEF TossApproves, Inv, Goto, Existing, RequestsOK, Confirming
<1>7. TasksOK'
  BY DEF TossApproves, Inv, Goto, TasksOK, Queued
<1>8. DoneIsPaidAndBooked'
  BY DEF TossApproves, Inv, Goto, DoneIsPaidAndBooked, Existing, Queued
<1>9. OneRunPerOrder'
  BY DEF TossApproves, Inv, Goto, OneRunPerOrder, Queued
<1>10. HotelBookingsArePaid'
  BY DEF TossApproves, Inv, Goto, HotelBookingsArePaid, Queued
<1> QED BY <1>1, <1>2, <1>3, <1>4, <1>5, <1>6, <1>7, <1>8, <1>9, <1>10 DEF Inv

\* Only the row under the lock is aborted, and it was not DONE.
LEMMA TossRejectsInv == ASSUME Inv, NEW w \in Requests, TossRejects(w) PROVE Inv'
<1>1. TypeOK'
  BY DEF TossRejects, Inv, Return, Goto, TypeOK, PCs, OrderRow, RequestsOK, Confirming,
         Existing
<1>2. RequestsOK'
  BY PaymentsAssumption DEF TossRejects, Inv, Return, Goto, RequestsOK, Confirming,
         Existing, OrderRow, Targets, TypeOK
<1>3. LocksHeld'
  BY DEF TossRejects, Inv, Return, Goto, LocksHeld, Holding, RequestsOK, Confirming,
         Existing, TypeOK
<1>4. ConfirmsOK'
  BY DEF TossRejects, Inv, Return, Goto, ConfirmsOK, Queued
<1>5. BooksOK'
  BY DEF TossRejects, Inv, Return, Goto, BooksOK, HotelPaid
<1>6. (charged \subseteq Existing)'
  BY PaymentsAssumption DEF TossRejects, Inv, Return, Existing, OrderRow, Targets, TypeOK
<1>7. TasksOK'
  BY DEF TossRejects, Inv, Return, TasksOK, Queued
<1>8. DoneIsPaidAndBooked'
  BY DEF TossRejects, Inv, Return, DoneIsPaidAndBooked, Existing, Queued
<1>9. OneRunPerOrder'
  <2>1. \A r \in (Queued \ orphaned)' :
            task'[r].order # None => r \in Queued \ orphaned /\ task'[r] = task[r]
    BY DEF TossRejects, Queued
  <2>2. \A o \in Existing :
            \/ order'[o] = order[o]
            \/ order[o].status # "DONE" /\ order'[o].status # "DONE"
    BY DEF TossRejects, Existing, Inv, TypeOK, LocksHeld, Holding, OrderRow
  <2>3. \A v \in Requests, r \in (Queued \ orphaned)' :
            pc[v] = "confirm_save" /\ arg[v].run = r =>
                /\ pc'[v] = "confirm_save" /\ arg'[v] = arg[v]
                /\ \A o \in Orders : orderLock[o] = v => orderLock'[o] = v
    BY DEF TossRejects, Inv, TypeOK, Return, Goto
  <2> QED BY <2>1, <2>2, <2>3, OneRunKept
<1>10. HotelBookingsArePaid'
  BY DEF TossRejects, Inv, Return, HotelBookingsArePaid, Queued
<1> QED BY <1>1, <1>2, <1>3, <1>4, <1>5, <1>6, <1>7, <1>8, <1>9, <1>10 DEF Inv

\* A timeout may charge the order but changes no row.
LEMMA TossSilentInv == ASSUME Inv, NEW w \in Requests, TossSilent(w) PROVE Inv'
<1>1. TypeOK'
  BY DEF TossSilent, Inv, Return, Goto, TypeOK, PCs, RequestsOK, Confirming, Existing
<1>2. RequestsOK'
  BY DEF TossSilent, Inv, Return, Goto, RequestsOK, Confirming, Existing, TypeOK
<1>3. LocksHeld'
  BY DEF TossSilent, Inv, Return, Goto, LocksHeld, Holding, RequestsOK, Confirming,
         Existing, TypeOK
<1>4. ConfirmsOK'
  BY DEF TossSilent, Inv, Return, Goto, ConfirmsOK, Queued
<1>5. BooksOK'
  BY DEF TossSilent, Inv, Return, Goto, BooksOK, HotelPaid
<1>6. (charged \subseteq Existing)'
  BY DEF TossSilent, Inv, Return, Existing, RequestsOK, Confirming
<1>7. TasksOK'
  BY DEF TossSilent, Inv, Return, TasksOK, Queued
<1>8. DoneIsPaidAndBooked'
  BY DEF TossSilent, Inv, Return, DoneIsPaidAndBooked, Existing, Queued
<1>9. OneRunPerOrder'
  <2>1. \A r \in (Queued \ orphaned)' :
            task'[r].order # None => r \in Queued \ orphaned /\ task'[r] = task[r]
    BY DEF TossSilent, Queued
  <2>2. \A o \in Existing :
            \/ order'[o] = order[o]
            \/ order[o].status # "DONE" /\ order'[o].status # "DONE"
    BY DEF TossSilent, Existing
  <2>3. \A v \in Requests, r \in (Queued \ orphaned)' :
            pc[v] = "confirm_save" /\ arg[v].run = r =>
                /\ pc'[v] = "confirm_save" /\ arg'[v] = arg[v]
                /\ \A o \in Orders : orderLock[o] = v => orderLock'[o] = v
    BY DEF TossSilent, Inv, TypeOK, Return, Goto
  <2> QED BY <2>1, <2>2, <2>3, OneRunKept
<1>10. HotelBookingsArePaid'
  BY DEF TossSilent, Inv, Return, HotelBookingsArePaid, Queued
<1> QED BY <1>1, <1>2, <1>3, <1>4, <1>5, <1>6, <1>7, <1>8, <1>9, <1>10 DEF Inv

\* The task queued is for the order under the lock.
LEMMA EnqueuePaidInv ==
    ASSUME Inv, NEW w \in Requests, NEW r \in Runs, EnqueuePaid(w, r)
    PROVE  Inv'
<1>1. TypeOK'
  BY DEF EnqueuePaid, Inv, Goto, Enqueue, TypeOK, PCs, Task, Arguments, RequestsOK
<1>2. RequestsOK'
  BY DEF EnqueuePaid, Inv, Goto, Enqueue, RequestsOK, Confirming, Existing, Arguments
<1>3. LocksHeld'
  BY DEF EnqueuePaid, Inv, Goto, Enqueue, LocksHeld, Holding
<1>4. ConfirmsOK'
  BY PaymentsAssumption DEF EnqueuePaid, Inv, Goto, Enqueue, ConfirmsOK, Queued, Targets,
         Arguments, RequestsOK, TypeOK
<1>5. BooksOK'
  BY DEF EnqueuePaid, Inv, Goto, Enqueue, BooksOK, HotelPaid
<1>6. (charged \subseteq Existing)'
  BY DEF EnqueuePaid, Inv, Goto, Enqueue, Existing
<1>7. TasksOK'
  BY DEF EnqueuePaid, Inv, Goto, Enqueue, TasksOK, Queued, ConfirmsOK, RequestsOK,
         Confirming
<1>8. DoneIsPaidAndBooked'
  BY DEF EnqueuePaid, Inv, Goto, Enqueue, DoneIsPaidAndBooked, Existing, Queued
<1>9. OneRunPerOrder'
  BY DEF EnqueuePaid, Inv, Goto, Enqueue, OneRunPerOrder, Queued, LocksHeld, Holding, TypeOK
<1>10. HotelBookingsArePaid'
  BY DEF EnqueuePaid, Inv, Goto, Enqueue, HotelBookingsArePaid, Queued, ConfirmsOK,
         RequestsOK, Confirming
<1> QED BY <1>1, <1>2, <1>3, <1>4, <1>5, <1>6, <1>7, <1>8, <1>9, <1>10 DEF Inv

\* A task queued by hand has no order.
LEMMA EnqueueByHandInv ==
    ASSUME Inv, NEW w \in Requests, NEW r \in Runs, EnqueueByHand(w, r)
    PROVE  Inv'
<1>1. TypeOK'
  BY DEF EnqueueByHand, Inv, Return, Enqueue, Goto, TypeOK, PCs, Task, Arguments, RequestsOK
<1>2. RequestsOK'
  BY DEF EnqueueByHand, Inv, Return, Enqueue, Goto, RequestsOK, Confirming, Existing, TypeOK
<1>3. LocksHeld'
  BY DEF EnqueueByHand, Inv, Return, Enqueue, Goto, LocksHeld, Holding, RequestsOK,
         Confirming, Existing
<1>4. ConfirmsOK'
  BY DEF EnqueueByHand, Inv, Return, Enqueue, Goto, ConfirmsOK, Queued
<1>5. BooksOK'
  BY DEF EnqueueByHand, Inv, Return, Enqueue, Goto, BooksOK, HotelPaid, TypeOK
<1>6. (charged \subseteq Existing)'
  BY DEF EnqueueByHand, Inv, Return, Enqueue, Existing
<1>7. TasksOK'
  BY DEF EnqueueByHand, Inv, Return, Enqueue, TasksOK, Queued
<1>8. DoneIsPaidAndBooked'
  BY DEF EnqueueByHand, Inv, Return, Enqueue, DoneIsPaidAndBooked, Existing, Queued
<1>9. OneRunPerOrder'
  <2>1. \A q \in (Queued \ orphaned)' :
            task'[q].order # None => q \in Queued \ orphaned /\ task'[q] = task[q]
    BY PaymentsAssumption DEF EnqueueByHand, Queued, Enqueue, Task, Arguments, Inv, TypeOK
  <2>2. \A o \in Existing :
            \/ order'[o] = order[o]
            \/ order[o].status # "DONE" /\ order'[o].status # "DONE"
    BY DEF EnqueueByHand, Existing
  <2>3. \A v \in Requests, q \in (Queued \ orphaned)' :
            pc[v] = "confirm_save" /\ arg[v].run = q =>
                /\ pc'[v] = "confirm_save" /\ arg'[v] = arg[v]
                /\ \A o \in Orders : orderLock[o] = v => orderLock'[o] = v
    BY DEF EnqueueByHand, Inv, TypeOK, Return, Goto
  <2> QED BY <2>1, <2>2, <2>3, OneRunKept
<1>10. HotelBookingsArePaid'
  BY DEF EnqueueByHand, Inv, Return, Enqueue, HotelBookingsArePaid, Queued, BooksOK,
         HotelPaid
<1> QED BY <1>1, <1>2, <1>3, <1>4, <1>5, <1>6, <1>7, <1>8, <1>9, <1>10 DEF Inv

\* The row under the lock becomes DONE and names the run just queued.
LEMMA CommitPaymentInv == ASSUME Inv, NEW w \in Requests, CommitPayment(w) PROVE Inv'
<1> DEFINE o == arg[w].order
           paid == [order[o] EXCEPT !.status = "DONE", !.run = arg[w].run]
<1>1. /\ o \in Existing
      /\ order[o] \in OrderRow
      /\ order[o].plan = arg[w].plan /\ order[o].target = arg[w].target
      /\ arg[w] \in Arguments /\ arg[w].run \in Queued
      /\ task[arg[w].run].order = o
      /\ task[arg[w].run].plan = arg[w].plan /\ task[arg[w].run].target = arg[w].target
      /\ order[o].status # "DONE" /\ orderLock[o] = w
      /\ o \in charged
  BY DEF Inv, TypeOK, RequestsOK, Confirming, LocksHeld, Holding, ConfirmsOK, CommitPayment,
         Existing
<1>2. /\ paid \in OrderRow
      /\ paid.plan = order[o].plan /\ paid.target = order[o].target
      /\ paid.status = "DONE" /\ paid.run = arg[w].run
  BY <1>1 DEF OrderRow, Queued
<1>3. order' = [order EXCEPT ![o] = paid]
  BY DEF CommitPayment
<1>4. /\ UNCHANGED <<confirmed, charged, task, orphaned>>
      /\ Return(w)
      /\ pc[w] = "confirm_save"
  BY DEF CommitPayment
<1>5. Existing' = Existing
  BY <1>1, <1>2, <1>3, PaymentsAssumption DEF Existing, OrderRow, Targets, Inv, TypeOK
<1>6. \A p \in Existing : order'[p].plan = order[p].plan /\ order'[p].target = order[p].target
  BY <1>1, <1>2, <1>3 DEF Existing, Inv, TypeOK
<1> HIDE DEF o, paid
<1>11. TypeOK'
  BY <1>2, <1>3, <1>4 DEF Inv, TypeOK, Return, Goto, PCs
<1>12. RequestsOK'
  BY <1>4, <1>5, <1>6 DEF Inv, TypeOK, RequestsOK, Confirming, Return, Goto
<1>13. LocksHeld'
  <2> SUFFICES ASSUME NEW v \in Requests, Holding(v)'
               PROVE  (orderLock[arg[v].order] = v /\ order[arg[v].order].status # "DONE")'
    BY DEF LocksHeld
  <2>1. v # w /\ Holding(v) /\ arg'[v] = arg[v]
    BY <1>4 DEF Inv, TypeOK, Return, Goto, Holding
  <2>2. orderLock[arg[v].order] = v /\ arg[v].order \in Orders
    BY <2>1 DEF Inv, LocksHeld, RequestsOK, Confirming, Holding, Existing
  <2> QED BY <1>1, <1>3, <1>4, <2>1, <2>2 DEF Inv, LocksHeld, TypeOK, Return
<1>14. ConfirmsOK'
  BY <1>4 DEF Inv, TypeOK, ConfirmsOK, Queued, Return, Goto
<1>15. BooksOK'
  BY <1>4, <1>6 DEF Inv, TypeOK, BooksOK, HotelPaid, Return, Goto
<1>16. (charged \subseteq Existing)'
  BY <1>4, <1>5 DEF Inv
<1>17. TasksOK'
  BY <1>4, <1>6 DEF Inv, TasksOK, Queued
<1>18. DoneIsPaidAndBooked'
  BY <1>1, <1>2, <1>3, <1>4, <1>5 DEF Inv, TypeOK, DoneIsPaidAndBooked, Queued, Existing
<1>19. OneRunPerOrder'
  <2> SUFFICES ASSUME NEW r \in Queued \ orphaned, task[r].order # None
               PROVE  \/ /\ order'[task[r].order].status = "DONE"
                         /\ order'[task[r].order].run = r
                      \/ /\ order'[task[r].order].status # "DONE"
                         /\ \E v \in Requests : /\ pc'[v] = "confirm_save" /\ arg'[v].run = r
                                                /\ orderLock'[task[r].order] = v
    BY <1>4 DEF OneRunPerOrder, Queued
  <2>1. task[r].order \in Existing
    BY DEF Inv, TasksOK
  <2>2. CASE task[r].order = o
    <3>1. arg[w].run = r
      BY <1>1, <2>2 DEF Inv, OneRunPerOrder
    <3> QED BY <1>2, <1>3, <2>1, <2>2, <3>1 DEF Inv, TypeOK, Existing
  <2>3. CASE task[r].order # o
    <3>1. order'[task[r].order] = order[task[r].order]
      BY <1>3, <2>1, <2>3 DEF Inv, TypeOK, Existing
    <3>2. CASE order[task[r].order].status = "DONE"
      BY <3>1, <3>2 DEF Inv, OneRunPerOrder
    <3>3. CASE order[task[r].order].status # "DONE"
      <4>1. PICK v \in Requests : /\ pc[v] = "confirm_save" /\ arg[v].run = r
                                  /\ orderLock[task[r].order] = v
        BY <3>3 DEF Inv, OneRunPerOrder
      <4>2. v # w
        BY <4>1, <2>3 DEF Inv, ConfirmsOK, o
      <4> QED BY <1>4, <3>1, <3>3, <4>1, <4>2, <2>1 DEF Inv, TypeOK, Return, Goto, Existing
    <3> QED BY <3>2, <3>3
  <2> QED BY <2>2, <2>3
<1>20. HotelBookingsArePaid'
  BY <1>4, <1>6 DEF Inv, HotelBookingsArePaid, Queued
<1> QED
  BY <1>11, <1>12, <1>13, <1>14, <1>15, <1>16, <1>17, <1>18, <1>19, <1>20 DEF Inv

\* plan_book is about a hotel.
LEMMA BeginBookInv ==
    ASSUME Inv, NEW w \in Requests, NEW p \in Plans, BeginBook(w, p)
    PROVE  Inv'
<1>1. TypeOK'
  BY DEF BeginBook, Inv, Start, Goto, TypeOK, PCs, Targets, Arguments
<1>2. RequestsOK'
  BY DEF BeginBook, Inv, Start, Goto, RequestsOK, Confirming, Existing, Targets, Arguments,
         TypeOK
<1>3. LocksHeld'
  BY DEF BeginBook, Inv, Start, Goto, LocksHeld, Holding
<1>4. ConfirmsOK'
  BY DEF BeginBook, Inv, Start, Goto, ConfirmsOK, Queued
<1>5. BooksOK'
  BY DEF BeginBook, Inv, Start, Goto, BooksOK, HotelPaid, TypeOK
<1>6. (charged \subseteq Existing)'
  BY DEF BeginBook, Inv, Start, Goto, Existing
<1>7. TasksOK'
  BY DEF BeginBook, Inv, Start, Goto, TasksOK, Queued
<1>8. DoneIsPaidAndBooked'
  BY DEF BeginBook, Inv, Start, Goto, DoneIsPaidAndBooked, Existing, Queued
<1>9. OneRunPerOrder'
  BY DEF BeginBook, Inv, Start, Goto, OneRunPerOrder, Queued
<1>10. HotelBookingsArePaid'
  BY DEF BeginBook, Inv, Start, Goto, HotelBookingsArePaid, Queued
<1> QED BY <1>1, <1>2, <1>3, <1>4, <1>5, <1>6, <1>7, <1>8, <1>9, <1>10 DEF Inv

\* plan_ticket_flight is about a flight.
LEMMA BeginTicketInv ==
    ASSUME Inv, NEW w \in Requests, NEW p \in Plans, BeginTicket(w, p)
    PROVE  Inv'
<1>1. TypeOK'
  BY DEF BeginTicket, Inv, Start, Goto, TypeOK, PCs, Targets, Arguments
<1>2. RequestsOK'
  BY DEF BeginTicket, Inv, Start, Goto, RequestsOK, Confirming, Existing, Targets,
         Arguments, TypeOK
<1>3. LocksHeld'
  BY DEF BeginTicket, Inv, Start, Goto, LocksHeld, Holding
<1>4. ConfirmsOK'
  BY DEF BeginTicket, Inv, Start, Goto, ConfirmsOK, Queued
<1>5. BooksOK'
  BY DEF BeginTicket, Inv, Start, Goto, BooksOK, HotelPaid, TypeOK
<1>6. (charged \subseteq Existing)'
  BY DEF BeginTicket, Inv, Start, Goto, Existing
<1>7. TasksOK'
  BY DEF BeginTicket, Inv, Start, Goto, TasksOK, Queued
<1>8. DoneIsPaidAndBooked'
  BY DEF BeginTicket, Inv, Start, Goto, DoneIsPaidAndBooked, Existing, Queued
<1>9. OneRunPerOrder'
  BY DEF BeginTicket, Inv, Start, Goto, OneRunPerOrder, Queued
<1>10. HotelBookingsArePaid'
  BY DEF BeginTicket, Inv, Start, Goto, HotelBookingsArePaid, Queued
<1> QED BY <1>1, <1>2, <1>3, <1>4, <1>5, <1>6, <1>7, <1>8, <1>9, <1>10 DEF Inv

\* A DONE order of a hotel is a charged one.
LEMMA CheckPaidInv == ASSUME Inv, NEW w \in Requests, CheckPaid(w) PROVE Inv'
<1>1. TypeOK'
  BY DEF CheckPaid, Inv, Goto, Return, Paid, TypeOK, PCs
<1>2. RequestsOK'
  BY DEF CheckPaid, Inv, Goto, Return, Paid, RequestsOK, Confirming, Existing, TypeOK
<1>3. LocksHeld'
  BY DEF CheckPaid, Inv, Goto, Return, Paid, LocksHeld, Holding, RequestsOK, Confirming,
         Existing, TypeOK
<1>4. ConfirmsOK'
  BY DEF CheckPaid, Inv, Goto, Return, Paid, ConfirmsOK, Queued, TypeOK
<1>5. BooksOK'
  BY DEF CheckPaid, Inv, Goto, Return, Paid, BooksOK, HotelPaid, DoneIsPaidAndBooked,
         Existing, TypeOK
<1>6. (charged \subseteq Existing)'
  BY DEF CheckPaid, Inv, Goto, Return, Paid, Existing
<1>7. TasksOK'
  BY DEF CheckPaid, Inv, Goto, Return, Paid, TasksOK, Queued
<1>8. DoneIsPaidAndBooked'
  BY DEF CheckPaid, Inv, Goto, Return, Paid, DoneIsPaidAndBooked, Existing, Queued
<1>9. OneRunPerOrder'
  BY DEF CheckPaid, Inv, Goto, Return, Paid, OneRunPerOrder, Queued, BooksOK, ConfirmsOK,
         TypeOK
<1>10. HotelBookingsArePaid'
  BY DEF CheckPaid, Inv, Goto, Return, Paid, HotelBookingsArePaid, Queued
<1> QED BY <1>1, <1>2, <1>3, <1>4, <1>5, <1>6, <1>7, <1>8, <1>9, <1>10 DEF Inv

\* A request that dies leaves the run it queued among the orphaned.
LEMMA AbandonInv == ASSUME Inv, NEW w \in Requests, Abandon(w) PROVE Inv'
<1>1. TypeOK'
  BY DEF Abandon, Inv, Return, Goto, TypeOK, PCs, ConfirmsOK, Queued
<1>2. RequestsOK'
  BY DEF Abandon, Inv, Return, Goto, RequestsOK, Confirming, Existing, TypeOK
<1>3. LocksHeld'
  BY DEF Abandon, Inv, Return, Goto, LocksHeld, Holding, RequestsOK, Confirming, Existing,
         TypeOK
<1>4. ConfirmsOK'
  BY DEF Abandon, Inv, Return, Goto, ConfirmsOK, Queued, TypeOK
<1>5. BooksOK'
  BY DEF Abandon, Inv, Return, Goto, BooksOK, HotelPaid, TypeOK
<1>6. (charged \subseteq Existing)'
  BY DEF Abandon, Inv, Return, Existing
<1>7. TasksOK'
  BY DEF Abandon, Inv, Return, TasksOK, Queued
<1>8. DoneIsPaidAndBooked'
  BY DEF Abandon, Inv, Return, DoneIsPaidAndBooked, Existing, Queued
<1>9. OneRunPerOrder'
  <2>1. \A r \in (Queued \ orphaned)' :
            task'[r].order # None => r \in Queued \ orphaned /\ task'[r] = task[r]
    BY DEF Abandon, Queued
  <2>2. \A o \in Existing :
            \/ order'[o] = order[o]
            \/ order[o].status # "DONE" /\ order'[o].status # "DONE"
    BY DEF Abandon, Existing
  <2>3. \A v \in Requests, r \in (Queued \ orphaned)' :
            pc[v] = "confirm_save" /\ arg[v].run = r =>
                /\ pc'[v] = "confirm_save" /\ arg'[v] = arg[v]
                /\ \A o \in Orders : orderLock[o] = v => orderLock'[o] = v
    BY DEF Abandon, Inv, TypeOK, Return, Goto
  <2> QED BY <2>1, <2>2, <2>3, OneRunKept
<1>10. HotelBookingsArePaid'
  BY DEF Abandon, Inv, Return, HotelBookingsArePaid, Queued
<1> QED BY <1>1, <1>2, <1>3, <1>4, <1>5, <1>6, <1>7, <1>8, <1>9, <1>10 DEF Inv

\* What becomes of a task changes nothing it was queued for.
LEMMA MoveInv ==
    ASSUME Inv, NEW r \in Runs, NEW from,
           NEW to \in {"queued", "running", "booked", "confirmed", "failed", "lost"},
           Move(r, from, to)
    PROVE  Inv'
<1> DEFINE moved == [plan |-> task[r].plan, target |-> task[r].target,
                     order |-> task[r].order, state |-> to]
<1>1. /\ UNCHANGED <<confirmed, order, orderLock, charged, pc, arg, orphaned>>
      /\ r \in Queued
      /\ task[r] \in Task
  BY DEF Move, Inv, TypeOK, Queued
<1>2. task' = [task EXCEPT ![r] = moved]
  <2>1. task' = [task EXCEPT ![r] = [task[r] EXCEPT !.state = to]]
    BY DEF Move
  <2>2. [task[r] EXCEPT !.state = to] = moved
    BY <1>1 DEF Task
  <2> QED BY <2>1, <2>2
<1>3. moved \in Task
  BY <1>1 DEF Task
<1> HIDE DEF moved
<1>4. TypeOK'
  BY <1>1, <1>2, <1>3 DEF Inv, TypeOK
<1>5. Queued' = Queued
  BY <1>1, <1>2, <1>3, PaymentsAssumption DEF Queued, Task, Targets, Inv, TypeOK
<1>6. \A s \in Queued : /\ task'[s].plan = task[s].plan
                        /\ task'[s].target = task[s].target
                        /\ task'[s].order = task[s].order
  BY <1>1, <1>2 DEF Queued, Inv, TypeOK, moved
<1>7. Existing' = Existing
  BY <1>1 DEF Existing
<1>8. RequestsOK' /\ LocksHeld' /\ BooksOK' /\ (charged \subseteq Existing)'
  BY <1>1, <1>7 DEF Inv, RequestsOK, Confirming, LocksHeld, Holding, BooksOK, HotelPaid
<1>9. ConfirmsOK'
  BY <1>1, <1>5, <1>6 DEF Inv, ConfirmsOK
<1>10. TasksOK' /\ HotelBookingsArePaid'
  BY <1>1, <1>5, <1>6 DEF Inv, TasksOK, HotelBookingsArePaid
<1>11. DoneIsPaidAndBooked'
  BY <1>1, <1>5, <1>6, <1>7 DEF Inv, DoneIsPaidAndBooked
<1>12. OneRunPerOrder'
  BY <1>1, <1>5, <1>6 DEF Inv, OneRunPerOrder
<1> QED BY <1>4, <1>8, <1>9, <1>10, <1>11, <1>12 DEF Inv

\* One case for each action.
LEMMA NextInv == Inv /\ [Next]_vars => Inv'
<1> SUFFICES ASSUME Inv, [Next]_vars PROVE Inv'
  OBVIOUS
<1>1. CASE UNCHANGED vars
  BY <1>1 DEF vars, Inv, TypeOK, RequestsOK, Confirming, LocksHeld, Holding, ConfirmsOK, BooksOK,
              HotelPaid, TasksOK, DoneIsPaidAndBooked, OneRunPerOrder, HotelBookingsArePaid,
              Existing, Queued
<1>2. ASSUME NEW p \in Plans, ConfirmPlan(p) \/ ResetPlan(p) PROVE Inv'
  BY <1>2, ConfirmPlanInv, ResetPlanInv
<1>3. ASSUME NEW w \in Requests, NEW p \in Plans, NEW t \in Targets, BeginPrepare(w, p, t)
      PROVE  Inv'
  BY <1>3, BeginPrepareInv
<1>4. ASSUME NEW w \in Requests,
             CheckUnpaid(w) \/ TossApproves(w) \/ TossRejects(w) \/ TossSilent(w)
             \/ CommitPayment(w) \/ CheckPaid(w) \/ Abandon(w)
      PROVE  Inv'
  BY <1>4, CheckUnpaidInv, TossApprovesInv, TossRejectsInv, TossSilentInv, CommitPaymentInv,
     CheckPaidInv, AbandonInv
<1>5. ASSUME NEW w \in Requests, NEW o \in Orders, InsertOrder(w, o) \/ BeginConfirm(w, o)
      PROVE  Inv'
  BY <1>5, InsertOrderInv, BeginConfirmInv
<1>6. ASSUME NEW w \in Requests, NEW amountMatches \in BOOLEAN, LockOrder(w, amountMatches)
      PROVE  Inv'
  BY <1>6, LockOrderInv
<1>7. ASSUME NEW w \in Requests, NEW r \in Runs, EnqueuePaid(w, r) \/ EnqueueByHand(w, r)
      PROVE  Inv'
  BY <1>7, EnqueuePaidInv, EnqueueByHandInv
<1>8. ASSUME NEW w \in Requests, NEW p \in Plans, BeginBook(w, p) \/ BeginTicket(w, p)
      PROVE  Inv'
  BY <1>8, BeginBookInv, BeginTicketInv
<1>9. ASSUME NEW r \in Runs, StartTask(r) \/ SupplierBooks(r) \/ SaveBooking(r) \/ LoseTask(r)
      PROVE  Inv'
  BY <1>9, MoveInv DEF StartTask, SupplierBooks, SaveBooking, LoseTask
<1> QED
  BY <1>1, <1>2, <1>3, <1>4, <1>5, <1>6, <1>7, <1>8, <1>9 DEF Next

-----------------------------------------------------------------------------
\* Inv holds in every reachable state of the payments and the booking gate.
THEOREM Invariance == Spec => []Inv
<1>1. Init => Inv
  BY InitInv
<1>2. Inv /\ [Next]_vars => Inv'
  BY NextInv
<1> QED BY <1>1, <1>2, PTL DEF Spec

\* Rows, locks, tasks and requests keep their types.
THEOREM TypeCorrectness == Spec => []TypeOK
<1>1. Inv => TypeOK
  BY DEF Inv
<1> QED BY <1>1, Invariance, PTL

\* A DONE order was approved by Toss and names a booking of its own.
THEOREM DoneOrdersArePaid == Spec => []DoneIsPaidAndBooked
<1>1. Inv => DoneIsPaidAndBooked
  BY DEF Inv
<1> QED BY <1>1, Invariance, PTL

\* However many requests confirm an order, it has one booking apart from those a
\* rollback after delay left behind.
THEOREM OrdersAreBookedOnce == Spec => []OneRunPerOrder
<1>1. Inv => OneRunPerOrder
  BY DEF Inv
<1> QED BY <1>1, Invariance, PTL

\* No hotel is booked that nobody paid for.
THEOREM HotelsArePaidFirst == Spec => []HotelBookingsArePaid
<1>1. Inv => HotelBookingsArePaid
  BY DEF Inv
<1> QED BY <1>1, Invariance, PTL

-----------------------------------------------------------------------------
\* What a step may do to rows, charges and prepares.
StepFacts ==
    /\ \A o \in Existing :
          /\ o \in Existing'
          /\ order'[o].plan = order[o].plan /\ order'[o].target = order[o].target
          /\ order[o].status = "DONE" => order'[o] = order[o]
    /\ \A o \in Existing' \ Existing :
          \E w \in Requests : /\ pc[w] = "prepare_insert"
                              /\ arg[w].plan = order'[o].plan
                              /\ arg[w].target = order'[o].target
    /\ \A o \in charged' \ charged : o \in Existing /\ order[o].status # "DONE"
    /\ \A w \in Requests :
          pc'[w] = "prepare_insert" =>
              \/ pc[w] = "prepare_insert" /\ arg'[w] = arg[w]
              \/ ~Paid(arg'[w].plan, arg'[w].target)

\* Only a confirm touches a row that exists, and no step touches a DONE one.
LEMMA StepsKeepToFacts == ASSUME Inv, [Next]_vars PROVE StepFacts
<1> USE DEF StepFacts
<1>1. CASE UNCHANGED vars
  BY <1>1 DEF vars, Existing
<1>2. ASSUME NEW p \in Plans, ConfirmPlan(p) \/ ResetPlan(p) PROVE StepFacts
  BY <1>2 DEF ConfirmPlan, ResetPlan, Existing
<1>3. ASSUME NEW w \in Requests, NEW p \in Plans, NEW t \in Targets, BeginPrepare(w, p, t)
      PROVE  StepFacts
  BY <1>3 DEF BeginPrepare, Start, Goto, Existing, Inv, TypeOK
<1>4. ASSUME NEW w \in Requests, CheckUnpaid(w) \/ CheckPaid(w) \/ Abandon(w) PROVE StepFacts
  BY <1>4 DEF CheckUnpaid, CheckPaid, Abandon, Return, Goto, Existing, Inv, TypeOK
<1>5. ASSUME NEW w \in Requests, TossApproves(w) \/ TossSilent(w) PROVE StepFacts
  BY <1>5 DEF TossApproves, TossSilent, Return, Goto, Existing, Inv, TypeOK, RequestsOK, Confirming,
              LocksHeld, Holding
<1>6. ASSUME NEW w \in Requests, NEW o \in Orders, InsertOrder(w, o) PROVE StepFacts
  BY <1>6 DEF InsertOrder, Return, Goto, Existing, Inv, TypeOK
<1>7. ASSUME NEW w \in Requests, NEW o \in Orders, BeginConfirm(w, o) PROVE StepFacts
  BY <1>7 DEF BeginConfirm, Start, Goto, Existing, Inv, TypeOK
<1>8. ASSUME NEW w \in Requests, NEW amountMatches \in BOOLEAN, LockOrder(w, amountMatches)
      PROVE  StepFacts
  BY <1>8 DEF LockOrder, Return, Goto, Existing, Inv, TypeOK
<1>9. ASSUME NEW w \in Requests, NEW r \in Runs, EnqueuePaid(w, r) \/ EnqueueByHand(w, r)
      PROVE  StepFacts
  BY <1>9 DEF EnqueuePaid, EnqueueByHand, Return, Goto, Existing, Inv, TypeOK
<1>10. ASSUME NEW w \in Requests, NEW p \in Plans, BeginBook(w, p) \/ BeginTicket(w, p)
      PROVE  StepFacts
  BY <1>10 DEF BeginBook, BeginTicket, Start, Goto, Existing, Inv, TypeOK
<1>11. ASSUME NEW w \in Requests, TossRejects(w) \/ CommitPayment(w) PROVE StepFacts
  <2> DEFINE o == arg[w].order
             row == order'[o]
  <2>1. /\ o \in Existing /\ order[o] \in OrderRow
        /\ order[o].status # "DONE"
    BY <1>11 DEF TossRejects, CommitPayment, Inv, TypeOK, RequestsOK, Confirming, LocksHeld, Holding,
                 Existing
  <2>2. /\ row.plan = order[o].plan /\ row.target = order[o].target
        /\ row \in OrderRow
    <3>1. o \in Orders /\ order \in [Orders -> OrderRow \cup {None}]
      BY <2>1 DEF Existing, Inv, TypeOK
    <3>2. CASE TossRejects(w)
      <4>1. row = [order[o] EXCEPT !.status = "ABORTED"]
        BY <3>1, <3>2 DEF TossRejects
      <4> HIDE DEF o, row
      <4> QED BY <2>1, <4>1 DEF OrderRow
    <3>3. CASE CommitPayment(w)
      <4>1. row = [order[o] EXCEPT !.status = "DONE", !.run = arg[w].run]
        BY <3>1, <3>3 DEF CommitPayment
      <4>2. arg[w].run \in Runs
        BY <3>3 DEF CommitPayment, Inv, ConfirmsOK, Queued
      <4> HIDE DEF o, row
      <4> QED BY <2>1, <4>1, <4>2 DEF OrderRow
    <3> QED BY <1>11, <3>2, <3>3
  <2>3. \A other \in Orders : other # o => order'[other] = order[other]
    BY <1>11 DEF TossRejects, CommitPayment, Inv, TypeOK
  <2>4. row # None
    BY <2>2, PaymentsAssumption DEF OrderRow, Targets
  <2>5. charged' = charged /\ \A v \in Requests : pc'[v] = "prepare_insert" => v # w
    BY <1>11 DEF TossRejects, CommitPayment, Return, Goto, Inv, TypeOK
  <2>6. \A v \in Requests : v # w => pc'[v] = pc[v] /\ arg'[v] = arg[v]
    BY <1>11 DEF TossRejects, CommitPayment, Return, Goto, Inv, TypeOK
  <2> HIDE DEF o
  <2> QED BY <2>1, <2>2, <2>3, <2>4, <2>5, <2>6 DEF Existing
<1>12. ASSUME NEW r \in Runs, StartTask(r) \/ SupplierBooks(r) \/ SaveBooking(r) \/ LoseTask(r)
      PROVE  StepFacts
  BY <1>12 DEF StartTask, SupplierBooks, SaveBooking, LoseTask, Move, Existing
<1> QED
  BY <1>1, <1>2, <1>3, <1>4, <1>5, <1>6, <1>7, <1>8, <1>9, <1>10, <1>11, <1>12 DEF Next

\* So no step unsettles an item, or charges another order for it.
LEMMA SettledStays ==
    ASSUME Inv, StepFacts, NEW p \in Plans, NEW t \in Targets, Settled(p, t)
    PROVE  /\ Settled(p, t)'
           /\ \A o \in charged' \ charged : ~(order[o].plan = p /\ order[o].target = t)
<1>1. Paid(p, t)'
  BY DEF StepFacts, Settled, Paid, Existing
<1>2. ASSUME NEW o \in Existing', order'[o].plan = p, order'[o].target = t
      PROVE  order'[o].status = "DONE"
  BY <1>2 DEF StepFacts, Settled
<1>3. ASSUME NEW w \in Requests, pc'[w] = "prepare_insert", arg'[w].plan = p, arg'[w].target = t
      PROVE  FALSE
  BY <1>3 DEF StepFacts, Settled
<1>4. \A o \in charged' \ charged : ~(order[o].plan = p /\ order[o].target = t)
  BY DEF StepFacts, Settled
<1> QED BY <1>1, <1>2, <1>3, <1>4 DEF Settled

\* A completed payment is never reopened, and a settled item never charged again.
THEOREM PaymentsSettle == Spec => SettledIsFinal
<1> DEFINE Final ==
        /\ \A o \in Existing : order[o].status = "DONE" => order'[o] = order[o]
        /\ \A p \in Plans, t \in Targets :
              Settled(p, t) =>
                  /\ Settled(p, t)'
                  /\ \A o \in charged' \ charged :
                        ~(order[o].plan = p /\ order[o].target = t)
<1>1. Inv /\ [Next]_vars => [Final]_vars
  <2> SUFFICES ASSUME Inv, [Next]_vars PROVE Final
    OBVIOUS
  <2>1. StepFacts
    BY StepsKeepToFacts
  <2> QED BY <2>1, SettledStays DEF StepFacts
<1> QED BY <1>1, Invariance, PTL DEF Spec, SettledIsFinal
=============================================================================
