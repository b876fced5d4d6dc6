# TLA+ models of TeamG-Backend

TeamG-Backend plans a trip from a sentence in Korean: Django REST views take
requests, Celery workers run the planning, an LLM chooses among tools of
MCP servers (flights, accommodation, booking, activities), PostgreSQL keeps the
plans, Redis the events of a run, and Toss takes the payments.  The modules here
model the parts of it that keep state or decide something, TLC checks them on
small instances and TLAPS proves the most important results for all instances.
`PROJECT.json` maps every definition to the lines it models, and lists the runs,
the mutants that show each property can fail, the hazards and the theorems.

    tlc -workers 2 -config MCPayments_safety.cfg MCPayments
    tlapm ProviderProofs.tla

## Inventory

| Component | State | Operations | Hard because | Correct when | Module |
|---|---|---|---|---|---|
| Activity supplier (`provider/`) | Activity, ActivityHold, ActivityReservation rows | hold, reserve, cancel, search | concurrent callers under row locks; expiry by clock; retries | stock is never oversold, reserve is idempotent, calls return | `Provider`, `StockLedger` |
| Payments and booking gate (`payments/`, `plan_book`, `plan_ticket_flight`, booking tasks) | Payment rows, queued tasks, charges at Toss | prepare, confirm, book, ticket, run_booking, run_flight_ticketing | check then insert; an external call inside a transaction; queueing before commit; crashes | one payment and one booking per order and item, nothing booked unpaid | `Payments` |
| Plan versions (`trips/`, plan tasks) | TripRequest, Plan rows; queued tasks | create, confirm, edit (local, replan, budget), rollback, select, return leg, delete | whole-row saves of copies an LLM call old; placeholders; failing tasks | versions are preserved, finish, and stay confirmed | `PlanLifecycle` |
| Run events (`agents/trace.py`, `run_stream`) | Redis list and channel of a run, the clients' Last-Event-ID | publish, done, connect, replay, live, reconnect | replay races broadcast; reconnects; the same millisecond | no event twice or out of order, none lost, the stream ends | `RunStream` |
| Itinerary (`agents/itinerary.py`, `plan_editor.py`, parts of `trips/services.py`) | the rows of every version | build, schedule, edit, re-time, roll back | schedules derived again from stored times, after any sequence of edits | where no name is on two rows: no overlaps, nothing before landing, days copied | `Itinerary` |
| Agent loop and search tools (`agents/orchestrator.py`, `accommodation/`, `flight/`) | the conversation, candidates collected from answers | tool calls, answers, failures | an LLM orders the calls; answers replace each other | rooms hold the party, every night has a city, the task ends | `TripSearch` |
| Budget engine (`agents/budget.py`) | the current selection | verdict, greedy upgrades | a sequence of local choices | never over budget, never a dominated choice | `Budget` |
| Intent gate (`agents/views.py` parse, confirm, correct, run; `agents/parser/`) | the parses in the cache, each under an id of its own; the rows of the requests run | parse, answer, correct, confirm, run | the cache is read, then written; entries expire; old ids stay valid; an LLM's answer is repaired by regular expressions | what runs was shown and agreed to; what is missing is asked for, what is made up is marked (unless numbers touch) | `IntentParser`, `IntentGate`, `ConfirmedRuns` |
| Flight ticketing tools (`flight/booking_mcp_server.py`) and hotel booking tools (`booking/mcp_server.py`) in a booking task | quotes, holds and PNRs in process memory, bookings at LiteAPI, what the loop collected, the Booking row | quote, hold, issue; rates, prebook, book; save_booking | expiry, repeated calls, lost answers, the turn limit | the row tells what was sold, a flight is ticketed once, a task leaves its row | `Booking`, `BookingTask` |
| LLM, map and LiteAPI clients, edit router, enrichment | none here | requests to services | outside | | choices of the other models |
| Users, configuration, monitoring, demos, migrations | rows of single statements; declarations | | | | not modelled |

How they interact.  `IntentGate` turns a conversation into the rows of a plan and a
queued run.  `TripSearch` runs inside a Celery task that `PlanLifecycle`
calls the pipeline; what it selects goes to `Itinerary`, and the version that
results is stored by `PlanLifecycle`.  Confirming a version there is `ConfirmPlan`
in `Payments`, and the whole-row save of a local edit is its `ResetPlan`.  A
payment queues a booking task; `Payments` takes its outcome as a choice and `Booking`
is what goes on inside it, the agent loop that calls the supplier's tools.  The activity
supplier is `Provider`.  All tasks publish their progress through `RunStream`.
Components share state only through PostgreSQL rows, Celery messages and Redis,
so they are modelled apart, each with the others' steps as choices.

## The modules

Every module takes its instance as CONSTANTS with a named assumption, has one
action per operation or step of one, and ends with its properties.  Operators whose
comment begins with "Mutant" are faulty variants of the definition that follows them; no
action uses them.

### Provider, StockLedger

`hold_activity`, `reserve_activity` and `cancel_reservation` as steps: read the
clock, wait for a row lock (`CheckStock`, `LockHold`, `CheckReservation` are enabled
when the lock is free), insert and commit, which releases the locks.  `Drop` is a
connection that breaks and rolls back; `Tick` moves the clock at any time.  Quantities are counted as
seats `<<hold, i>>`, which makes the sum of the code a cardinality that can be
proved about.  The histories `told`, `conflict` and `late` record answers,
IntegrityErrors and reserves that committed after their hold's expiry.

`StockLedger` is what the supplier promises: a hold takes seats only if they are
there, becomes a sale, is canceled or lapses.  `ImplementsStockLedger` maps each
hold row to that.

### Payments

A request is at most one row lock and one transaction: `payment_prepare` checks
(`CheckUnpaid`) and then inserts (`InsertOrder`); `payment_confirm` waits for the order's
lock, asks Toss while it holds it (approved, rejected, or silent whether
approved or not), queues the booking and commits.  `Abandon` rolls a request back at
any step: it undoes rows but neither the charge nor the queued task.  A
task is started, booked at the supplier, saved, failed or lost with its worker.
Toss and the supplier are external choices.

### PlanLifecycle

A plan's row is its status, the terms it was made for (for its itinerary), whether
the edit's summary is stored and which return legs are cached.  Requests and tasks read rows into
memory and later save what the code saves: named columns (`update_fields`) or the whole
row, and that difference is what the module is about.  The save of a whole row that was
deleted meanwhile inserts it again (`SaveRow`), if the trip is there; `run_replan` saves
the trip itself that way (`UpdateTerms`).  An edit works on its old version as it read it when it
started.  `AbortEdit` are the ways a
task ends by itself and removes its placeholder; `FailTask` is an exception or a
dead worker.  The LLM's routing of an edit is any route.  Which version is the
latest is decided by id, by `created_at` in the code; they differ after a row was inserted
again only.

### RunStream

`Publish` appends to the recording and broadcasts; a connection subscribes,
reads the recording, replays it, goes live, and a broken connection comes back
with the last id the client got.  Timestamps are those of `now`, so several events may share
a millisecond, which is what the code's filter compares.

### Itinerary

`BuildDayPlan` and `ScheduleDay` are functions over places, minutes and legs,
written as recursive functions (a day before a day, the rows after the first `k` visits), so
that theorems can speak of them; the actions store a version made by the pipeline, by an edit
(`CreateEditedVersion`), by a change of flight or by a rollback.  Place names are the
rows' keys as in the code.  The ranking score is abstracted to the order of the
results and the nearest-neighbour route to any order of a day's places.  The
editor (an LLM) may keep, drop, exchange and add the places its prompt lists, and may
make up a name.  A row of the pipeline carries the mark "airport" if its place has that type
(`Marked`), whichever search found it; a candidate of an edit never does.

The code looks rows up by name, over all days (`ItemByName`), so what it does depends on whether
names are unique.  A version is `intact` if it and all it comes from are `Orderly`: all days are
there, no name is on two rows, and airport rows are only at the start and the end of the trip, for no
stay.  **The properties of the run, `TypeOK` aside, are asked of intact plans only.**  Outside are

- a trip to one city whose airport is found: the airport is on two rows of one name;
- a trip that meets a place in two cities, or has an airport among its sights;
- a plan after an edit that left a day out, repeated a name or moved an airport.

The code runs the same paths for these, and breaks the same claims; the table of refuted claims
below has the traces (`VisitsDoNotOverlap`, `NothingBeforeLanding`, `UnchangedDaysAreCopied`).  A trip
whose airport is not found is `Orderly`, but its first edit restarts the first day at
09:00, so `KeptArrivalComesFirst` asks in addition that the first day of every
version starts with an airport row.

### TripSearch, Budget

`AskTools` is one turn of the loop in `run_agent_loop`, with one or two tool calls
in any order, bounded by `MaxTurns`; an action per tool answers the first call, with
candidates, without, or with an error; `collected` is what the code keeps of the
answers.  `StopSearching` hands it to `allocate_budget`, whose greedy steps are
the actions of `Budget`.  The LLM keeps to rule 2 of its prompt: rooms
before a hotel search.  Money is in units of 10,000 won, ratios are exact where the code
compares floats.  Things the code does that the model shows: each answer
replaces the earlier one, so a flight search that fails late, or an empty list given to the
scoring tool, erases candidates already found, and on a trip to two cities the engine sees only the hotels of the
city scored last; flights are priced for adults.

### IntentParser, IntentGate, ConfirmedRuns

A message is the sequence of words typed so far: a number in digits with the unit written
behind it, or one of the words the regular expressions look for; a word may complete what is
said of a slot.  `ClaudeAnswer` reports the last thing said of a slot or misses the slot.
`NormalizeBudget` works on the compact text, as the code does once it has dropped spaces and
commas: `Compact` gives the number that the digits of a word end up in, with all that touch them.
`ApplyNormalizer`, `FillFromProfile`, `GenerateWarnings` and `AskedFor` are the rest of what the
code makes of the answer; `Shown` is the part of the card that every response has, without the
warnings, which a question and a corrected card leave out and `parse_detail` shows.  `IntentGate` has the endpoints: a
parse (`ParseRequest`, `ParseAnswer`, `ParseCorrect`) holds only what it read before it asked
Claude and writes under a fresh id, so it is one step; a confirm reads
(`ReadForConfirm`) and writes back later (`SaveConfirm`); a run reads (`ReadForRun`),
inserts its rows (`CreateRequestAndPlan`) and queues its task (`QueueRun`).  `Expire` drops
an entry, `Fail` ends a request between its steps, `NextDay` lets dates fall into the past.

`ConfirmedRuns` is what the gate promises: a card is shown under an id once, it is
agreed to as it was shown, and a run searches for what was agreed to.  The histories
`shown` and `agreed` are its variables; what is started is read off the plans and the queue.

### Booking, BookingTask

One task, from its mission to its row.  `AskClaude` is a turn with one tool call the
mission allows: each step takes the id the one before answered with, an error lets Claude
start over, and a flight may be issued again even after its number came back (the tool
says it is idempotent).  An action per tool answers; `Expire` ends
quotes and holds; `Collect` is what `_collect_candidates` keeps and whether a turn is left;
`SaveBooking` writes the row.  Ids are the turns they were made in.
LiteAPI behind the hotel tools books or not, and its answer may be lost to the 20
second timeout.  `LoseTask` is an exception out of the loop or a dead worker.

What the mission asks of Claude is text in a prompt: the loop runs any calls, any number of them at once
(`agents/orchestrator.py:160`).  `FreeSpec` is the task without it, with any call on any id at any turn
(`AskAnything`; parallel calls are as good as turns of their own).  With five turns TLC finds that a confirmed
row still has a number in `sold` and that `AnsweredNumberIsRecorded` holds for flights, and it refutes the two
properties in the table below.  So one ticket for a flight and the memory of a hotel's number rest on Claude,
and the proofs about `Spec` are proofs under that assumption.

`BookingTask` is what a task promises while the agent keeps to its mission: a row is written once, when
nothing more is sold, a confirmed one has a number that was sold to this task, and a flight
is sold once.

## What is checked

| Run | Instance | Properties | What it shows |
|---|---|---|---|
| `provider_safety` | 2 callers, 3 holds of 1-2 seats, 2 seats, 3 clock values | `TypeOK` `SoldWithinStock` `OneConfirmationPerHold` `ConflictOnlyAfterCancel` | what the row locks guarantee under any interleaving, expiry, cancel and dropped connection |
| `provider_prompt` | 2 callers, 2 holds of 1-2 seats | `NoOversell` `ImplementsStockLedger` `EveryCallReturns` | with no reserve straddling its hold's expiry, nothing is oversold and the abstract ledger is implemented; no deadlock between the two lock orders |
| `payments_safety` | 2 requests, 2 orders, 2 runs, 1 plan | `TypeOK` `DoneIsPaidAndBooked` `OneRunPerOrder` `HotelBookingsArePaid` `SettledIsFinal` | double clicks, retries, timeouts and crashes on one order are safe |
| `payments_double` | the same | `OnePaymentPerItem` (violated) | two orders of one item are both charged |
| `plans_safety` | 2 requests, 2 tasks, 2 versions, 2 terms, 1 candidate | `TypeOK` `OnlyFailuresLeaveZombies` `VersionsArePreserved` `OnlyItsOwnEditReverts` | stale whole-row saves do limited harm |
| `plans_liveness` | 1 request, 2 tasks, 3 versions | `EveryVersionFinishes` | versions in the making finish, go, or have failed |
| `plans_reverted` | 2 requests, 1 task, 2 versions | `ConfirmedIsFinal` (violated) | a local edit undoes a confirmation |
| `stream` | 1 client, 4 events, 4 milliseconds, any reconnects | `TypeOK` `InOrderOnce` `LossOnlyWithinAMillisecond` `StreamEnds` | order of subscribe and replay, Last-Event-ID, end of stream |
| `itinerary_trip` | 2 cities, 3 days, 6 flights, 3 versions | `TypeOK` `TravelLeadsToTheNextStop` `UniqueVisitsDoNotOverlap` `KeptArrivalComesFirst` `UniqueDaysAreCopied` | where names are unique, two edits, re-timings or rollbacks in a row keep the timetable; with the arrival's row kept nothing comes before the landing |
| `search` | 4 parties, 3 budgets, 2 cities, 2 nights, 5 turns, two calls a turn | `TypeOK` `VerdictIsRight` `SelectionIsEfficient` `RoomsHoldTheParty` `EveryNightHasOneCity` `SearchEnds` | any order of tool calls and failures, all ends of the budget engine |
| `intent` | 2 requests, 2 parses, 2 runs, 7 things to type, up to 3 slots missed, 2 days | `TypeOK` `AsksForWhatIsMissing` `InventionIsFlaggedUnlessNumbersTouch` `ImplementsConfirmedRuns` | only what was shown and agreed to runs, whatever expires, fails or is corrected meanwhile; the card asks for what it lacks, and where no two numbers touch it is kept with a warning about a budget nobody said |
| `booking` | 1 task of either kind, the code's own 8 turns | `TypeOK` `AnsweredNumberIsRecorded` `ImplementsBookingTask` `OutcomeIsRecorded` | expiries, failures, lost answers, repeated calls and the turn limit leave a true row |

Why the bounds suffice.  A race needs two actors on one row, and a third party
only to take what they leave, so two callers with three holds (one expires, one
takes its seat, one is canceled) reach every conflict the locks order; one more
clock value than the lifetime lets a hold expire at any step.  Two orders and two runs are
the least for a double payment or booking.  Two versions and two tasks
hold a stale copy of each version while the other changes.  Four events in four
milliseconds allow any pair to share one, on either side of the
replay.  Three versions are a plan and two changes of it, each made from rows the one before it
stored.  The search candidates include equal and missing prices, missing
rates, free rooms, and lists that use up all six upgrades; five turns are the four
tool kinds and a repetition (the code has eight).  Parties include one whose
rooms outnumber its adults and one that no rooms can hold.  Two parses are a card and
its correction, so that one is confirmed, corrected or run while the other is; the seven
utterances speak of every slot, with a budget in each form, dates, two stays in one message, and a
head count with and without a child; two of them in a row repeat or contradict each other, and the date at
the end of one touches the number at the head of the next.  Eight
turns let the three steps of a booking fail and be done over twice.

`CHECK_DEADLOCK FALSE` stands where a run may stop: the versions of a plan
or an itinerary are used up, the recording is full and the client served, or the
search task has ended.

### Fairness

- `Provider`: strong fairness of the steps that wait for a row lock, since
  PostgreSQL queues the waiters of a row; weak fairness of the inserts once a lock is
  held, in `FairPromptSpec`.  New calls, cancels and the clock are not fair.
- `PlanLifecycle`: weak fairness of a worker's steps, exceptions among them: a
  task that was started ends one way or another.  The broker keeps queued tasks.  Nothing makes a user confirm.
- `RunStream`: weak fairness of the server's loop on an open connection only;
  `StreamEnds` starts from a recorded "done" because nothing guarantees there is one.
- `TripSearch`: weak fairness of the next step as a whole: there is one task, and
  what it waits for answers, fails or runs into a timeout.  That the LLM stops asking is
  not assumed; the turn limit makes the loop end.
- `Booking`: the same, for one booking task (`Progress`): Claude's API and LiteAPI
  answer or time out, and the flight server is local.  An exception or a dead worker is
  `LoseTask`, after which nothing is promised.  No tool of LiteAPI's own MCP server is
  called under a timeout (`agents/mcp_client.py`); that it answers is an assumption.

### Assumptions of the environment

The time spent at a place depends on its name alone (`estimate_duration_min` goes by type and kind), and a
place is of one type in all searches.

PostgreSQL at READ COMMITTED with autocommit outside `transaction.atomic`; Celery
acknowledges early and does not retry (`config/settings.py` sets neither); a worker's clock does not go
back; Redis serves a SUBSCRIBE before an LRANGE sent after it on another
connection; a run has one publisher.

Of Claude: a parse reports the last thing said of a slot, or misses the slot, and lists as
missing what its prompt tells it to; it invents nothing and mixes up no slots (what it
garbles is not JSON, and leaves nothing behind).  In a booking it makes one call a turn,
with ids it was given, starts over only after an error, quotes and holds nothing more once a number
came, and confirms no hotel a second time then (what is left without this: `FreeSpec` of `Booking`).  A number that is not a budget is
below 10,000 as it was typed (days, months, years, persons), and man and cheon are said of budgets
(`NumbersAreMeant`).  Between the two numbers of "3 bak 4 il" there is nothing that
`normalize_duration` does not skip (a comma there would only cost it the days, which it drops).  Ids of parses, runs and holds are unique,
which holds but for collisions of random hex digits; so are PNRs, six digits of a hash.

## Where code and documents disagree

Two disagreements have a run of their own:

1. `payments_double`: `payment_prepare` looks for a DONE payment and inserts
   without a lock, and `payment_confirm` looks only at its own order.  Two
   READY orders of one hotel are both charged, against "중복 결제 방지"
   (`payments/views.py:83`).
2. `plans_reverted`: `run_local_edit` commits a draft, waits for its narrative, then
   saves the whole row (`agents/tasks.py:300`): a confirmation in between is
   undone, against the life cycle of `trips/views.py:785`.

The modules state more claims that the code does not keep; they are in no run.
Put one in a cfg in place of its properties (without SYMMETRY for a PROPERTY) and TLC
shows the trace:

| Property | In a copy of | Trace |
|---|---|---|
| `NoOversell` | `MCProvider_safety` | a reserve reads the clock, the hold expires, another hold takes the seat, the reserve goes through (`provider/services.py:114` reads before it waits) |
| `ReserveNeverConflicts` | `MCProvider_safety` | hold, reserve, cancel, reserve: the canceled row is skipped by the lookup and kept by the OneToOneField |
| `PaymentGatesBooking` | `MCPayments_safety` | Toss approves, the booking is queued, the commit fails: a booking of an order still READY |
| `ConfirmedPlanKeepsItsTerms` | `MCPlanLifecycle_safety` | a version is confirmed while a replan is routed; the replan then changes the trip's dates, which booking uses |
| `ConfirmedIsNotDeleted` | `MCPlanLifecycle_safety` | `trip_delete` checks, the plan is ready and confirmed, the trip is deleted (or an edit is the latest version) |
| `DeletedStaysDeleted` | `MCPlanLifecycle_safety` | a replan parses its request again while the trip is deleted; the save of the new terms (`trips/services.py:549`) inserts the trip again, without versions, against "하드 삭제(복구 불가)" (`trips/views.py:737`) |
| `NoZombies` | `MCPlanLifecycle_safety` | the trip is created and the broker refuses the task |
| `SummariesAreKept` | `MCPlanLifecycle_safety` | a confirm reads, the summary is stored, the confirm saves its whole row |
| `ReturnLegsStayCached` | `MCPlanLifecycle_safety` | a confirm reads, a return leg is stored, the confirm saves its whole row |
| `NothingIsLost` | `MCRunStream_stream` | two events in one millisecond: the second is taken for a duplicate (the only cause: `DistinctTimesLoseNothing`) |
| `DepartureSlipsByOneLeg` | `MCItinerary_trip` | `_schedule_day` moves the clock to a meal's anchor before it finds that the meal does not fit and skips it (`agents/itinerary.py:289`); the airport follows at noon for a flight at noon, against the buffer of lines 239-240 |
| `UnchangedDaysAreCopied` | one city* | an edit changes the last day only; the unchanged first day gets the last day's airport row, since both have one name (`trips/services.py:276`) |
| `VisitsDoNotOverlap` | one city* | no flight; an edit leaves the last day out: the first day, copied, starts with the airport's row of the last, at 21:00, and the first sight follows at 10:01 |
| `NothingBeforeLanding` | one city* | landing 11:00, take-off 12:00: the day starts with the airport at 12:00, the last ends with it at 10:11; the same edit puts the row of 10:11 first |
| `NothingBeforeLanding` | `MCItinerary_trip` | no airport is found: the first day starts at 12:00, and an edit of it at 09:00 (`_day_edit_window`, `trips/services.py:440`) |
| `NoFlightIsBetter` | `MCTripSearch_search` | two flights share the lowest price and the worse is listed first: an upgrade must cost more (`agents/budget.py:140`), so the better one is never taken, and a dearer flight may be |
| `InventedBudgetIsFlagged` | `MCIntentGate_intent` | dates that end in "8/3", then the answer "15 man 5 cheon" with the budget missed by Claude: the text without spaces reads "315 man 5 cheon", the card has 3,155,000 won and no warning (`parser/normalizer.py:41`, against "15만 5천 → 155000" of line 29) |
| `BudgetWasSaid` | `MCIntentGate_intent` | a destination, dates and no budget: `normalize_budget` takes the 8 of August the first for it, and the question about the budget is dropped (`parser/normalizer.py:60`); the card is kept with the warning, which `parse_detail` shows and a corrected card's response does not (`agents/views.py:453-457`) |
| `PartyIsTheLastOneSaid` | `MCIntentGate_intent` | "alone", then the correction "2 adults": the correction is appended to the text and "alone" is looked for first, so one adult remains however often it is corrected (`parser/normalizer.py:128`); a party of "12 in" ends in "2 in" and counts two (line 132) |
| `RunsKnowWhereToGo` | `MCIntentGate_intent` | dates and a budget without a destination: `parse_confirm` confirms any card and `run_create` asks for dates only, so the pipeline starts without a place to go, against `parser/slot_validator.py:4-8` |
| `ImplementsBookingTask` | `MCBooking_booking`, `FreeSpec` | Claude holds seats twice and issues both: two tickets of one flight; idempotency is by hold (`agents/flight/booking_mcp_server.py:16-19`) |
| `AnsweredNumberIsRecorded` | `MCBooking_booking`, `FreeSpec` | Claude confirms a hotel twice; the second answer has no booking number and takes the place of the first (`agents/orchestrator.py:90-93`), the row says failed |
| `FailedMeansNotBooked` | `MCBooking_booking` | LiteAPI books, the answer is lost to the timeout, Claude gives up: the row says failed (`trips/services.py:572`: "did not get as far") |
| `BooksOnce` | `MCBooking_booking` | the same, and Claude confirms again or from a fresh rate: two bookings of one hotel, of which the row has one |

\* One city: `MCItinerary_trip` with `MaxVersions = 2`, one night, the airport `"A"`, the restaurant
`"f"` and the sights `"a"` and `"b"`.

Three more numeric edges of the itinerary are excluded because the
code does not handle them.  A landing after 23:00 puts the arrival at 00:xx of
the same day (`NothingBeforeLanding` and `KeptArrivalComesFirst` exclude it).  A take-off before 11:00
still shows the departure airport at 09:00, the start of the day
(`DepartureSlipsByOneLeg` allows it).  A last leg of three hours or more after a stay that
ends late puts the departure airport past midnight, at 00:xx of the same day
(`agents/itinerary.py:255`): when the leg from the last sight to
the airport takes 216 minutes, TLC finds `UniqueVisitsDoNotOverlap` violated, which is why its
theorem has the hypothesis `ShortLegs`.

## What is proved

| Module | Theorem | Says, for every instance |
|---|---|---|
| `ProviderProofs` | `TypeCorrect` | `Spec => []TypeOK` |
| | `StockIsNotOversold` | `Spec => []SoldWithinStock` |
| | `ReserveIsIdempotent` | `Spec => []OneConfirmationPerHold` |
| | `RacingReservesDoNotConflict` | `Spec => []ConflictOnlyAfterCancel` |
| | `PromptNeverOversells` | `PromptSpec => []NoOversell` |
| | `LedgerRefinement` | `PromptSpec => ImplementsStockLedger` |
| `PaymentsProofs` | `TypeCorrectness` | `Spec => []TypeOK` |
| | `DoneOrdersArePaid` | `Spec => []DoneIsPaidAndBooked` |
| | `OrdersAreBookedOnce` | `Spec => []OneRunPerOrder` |
| | `HotelsArePaidFirst` | `Spec => []HotelBookingsArePaid` |
| | `PaymentsSettle` | `Spec => SettledIsFinal` |
| `PlanLifecycleProofs` | `TypeCorrectness` | `Spec => []TypeOK` |
| | `WorkCleansUp` | `Spec => []OnlyFailuresLeaveZombies` |
| | `ReadyVersionsArePreserved` | `Spec => VersionsArePreserved` |
| | `OnlyLocalEditsRevert` | `Spec => OnlyItsOwnEditReverts` |
| `RunStreamProofs` | `TypeCorrectness` | `Spec => []TypeOK` |
| | `StreamsAreInOrder` | `Spec => []InOrderOnce` |
| | `LossIsWithinAMillisecond` | `Spec => []LossOnlyWithinAMillisecond` |
| | `DistinctTimesLoseNothing` | `DistinctSpec => []NothingIsLost` |
| `ItineraryProofs` | `TypeCorrectness` | `Spec => []TypeOK` |
| | `TravelLeads` | `Spec => []TravelLeadsToTheNextStop` |
| | `NothingBefore` | `Spec => []KeptArrivalComesFirst` |
| | `NoOverlap` | `ShortLegs => (Spec => []UniqueVisitsDoNotOverlap)` |
| | `DaysAreCopied` | `Spec => UniqueDaysAreCopied` |
| `TripSearchProofs` | `TypeCorrectness` | `Spec => []TypeOK` |
| | `TheVerdictIsRight` | `Spec => []VerdictIsRight` |
| | `TheSelectionIsEfficient` | `Spec => []SelectionIsEfficient` |
| | `PartiesFit` | `Spec => []RoomsHoldTheParty` |
| | `NightsAreDealtOut` | `Spec => []EveryNightHasOneCity` |
| | `SortingSorts` | sorting keeps the elements, their order and stability |
| `IntentGateProofs` | `TypeCorrectness` | `Spec => []TypeOK` |
| | `QuestionsAreRight` | `Spec => []AsksForWhatIsMissing` |
| | `InventionsAreFlagged` | `Spec => []InventionIsFlaggedUnlessNumbersTouch` |
| | `Refinement` | `Spec => ImplementsConfirmedRuns` |
| `BookingProofs` | `TypeCorrectness` | `Spec => []TypeOK` |
| | `Refinement` | `Spec => ImplementsBookingTask` |
| | `NumbersAreRecorded` | `Spec => []AnsweredNumberIsRecorded` |

Every invariant and action property that a passing run checks is stated by one of them.

**Provider.**  The assumption is `ProviderAssumption` (finitely many holds, stock
and quantities are natural numbers).  `SoldWithinStock` is not inductive: a
commit adds seats that an earlier step found free.  `Inv` adds that a caller past its
lock wait owns the lock (`LocksHeld`), that its request names rows that exist
(`RequestsOK`, `RowsOK`), and that what it checked under the lock still holds
(`ChecksStillHold`): nobody else adds seats to that activity while the row is locked, and
the clock and cancels only remove some.  `NextInv` has one lemma per action, and
`SeatsMonotone` and its neighbours do the counting.  For the refinement `NeverLate` is
added: in `PromptSpec`, where the clock does not pass the expiry of a hold being
reserved, nothing commits late; the abstract step of each action is then its commit.

**Trip search.**  The assumption is `TripSearchAssumption`.  `SelectionIsEfficient`
speaks of a sequence of greedy choices.  Its step is in `UpgradedFlight` and
`UpgradedHotel`: a candidate that dominates the one just upgraded to must have
dominated the previous one, because otherwise it would itself have been a move with
a better ratio (`BetterMove`), within the budget, and `max()` would have
preferred it.  Its base is sorting: the engine starts with the cheapest of each
(`CheapestFirstSorts`), and for hotels with the best of the cheapest because
`score_candidates` sorts by utility first and Python's sort is stable
(`ScoreCandidatesTypes`, `SortingSorts`).  `Inv` therefore carries the types of the
candidates through the agent loop and `BestFirst(collected.hotels)`.

**Payments.**  The assumption is `PaymentsAssumption` (the marker `None` is no plan, order,
run or request; every set may be of any size).  None of the four invariants is inductive
alone, because a commit is right for what its request did some steps before.  `Inv` remembers it: a
confirm is about an order that exists (`RequestsOK`), past its wait it owns the row and
the row is not DONE (`LocksHeld`), past Toss the order is charged and past `delay` its task is
the one queued for it (`ConfirmsOK`); what `plan_book` found paid stays charged (`BooksOK`);
a task with an order is for what the order pays (`TasksOK`).  TLC checked `Inv` before it
was proved.  `OneRunKept` carries `OneRunPerOrder` past the actions that insert or abort a row, queue
a booking by hand or roll back; the other steps follow directly.  For `SettledIsFinal`, `StepFacts` says what one step may do to rows,
charges and prepares, and `SettledStays` follows from that alone.

**Plan lifecycle.**  The assumption is `PlanAssumption` (there is at least one version, and
the marker `None` is none of the values it stands beside).  No row is locked, so a version is protected by
who holds a copy of it.  `Inv` says that a task or a selection that fills a version does so
alone (`OneMaker`) and while the row is in the making (`InMaking`), and that every
other request or task read its row when it was ready, with the terms the row still has
(`RequestOK`, `TaskOK`): its stale save can take back what else it read, never the terms.
A row that is gone has no terms to compare with and any of its copies may bring it back,
so the copies of one version agree among themselves, and nobody has one of a version
that is being filled (`CopiesAgree`); `Again` is what a row inserted again is.
`StepFacts` says what one step may do to rows; each action has a lemma that
it is such a step, `OthersKeep` carries the copies of whoever was not part of the step, and both
action properties follow from `StepFacts` alone.

**Run stream.**  The assumption is `RunStreamAssumption` (bounds are numbers).  `InOrderOnce` is not
inductive, because what a connection may send next depends on where its generator is.
`ConnectionsOK` relates them: the last event sent is the client's Last-Event-ID, everything
the generator has passed is not later than that, and it subscribed before it read the
recording, so that replay and live events overlap and leave no hole.  `NothingSkipped` then says that
up to its Last-Event-ID a client has every event or an earlier one of the same
millisecond.  `DistinctSpec` is `Spec` in which no two events share a millisecond; there nothing is
lost, so the resolution of the ids is the only cause of the loss that `NothingIsLost` shows.

**Itinerary.**  The assumption is `ItineraryAssumption`: types only, nothing about airports.
`Inv` says that every stored version is typed, and an `intact` one `Good`: it is
`Orderly`, each day's travel times lead from row to row (`Linked`), and stays are over in time where
legs are short (`Spread`).  If moreover the first day of every version so far starts with an airport
row, the first day of each starts an hour after the landing (`OnArrival`).  `Orderly` has to be part of
it because an edit schedules again the rows it finds.

The four theorems beside `TypeCorrectness` have that precondition in their properties (`Checked`, and
`ArrivesAtAirport` for `NothingBefore`): they hold for trips and plans of any size in which names stay unique,
and say nothing of a trip to one city whose airport is found.

- `ScheduleDay` is taken apart once per function: `DayAfter` is its rows after the first `k` visits, and
  `AfterTypes`, `AfterLinked` and `AfterOnTime` are inductions over the visits, with
  a lemma for a visit that is kept and one for a visit that is skipped.
- The editor and the re-timing find rows by name.  In a plan with unique names that finds the row
  itself (`RowOfUniqueName`): as many names as rows means the naming is a surjection between
  finite sets of one size, hence injective.
- In an orderly plan no day starts with a stay at an airport, and the first ends at none
  (`OrderlyDay`), so re-timing its start cannot push a departure.
- `ShortLegs` (every leg takes less than the 180 minutes from `DayEnd` to midnight) is needed for
  `UniqueVisitsDoNotOverlap` alone: without it the theorem is false, as shown above.

**Trip search, rooms and nights.**  `RoomsHoldTheParty` and `EveryNightHasOneCity` are about sums over
rooms and cities.  `Sums` is the recursive function of prefix sums; `SumsExist` shows that its
recursion has a solution, `EvenSplitAddsUp` that an even split adds up to what was split, and
`StaysAreRight` that stays which start where the one before ended are a partition of the
nights.  `SearchInv` is the invariant of the search beside `Inv`, that of the engine: rooms and stays are
none or what the tools made.

Induction over data: the induction theorems of the library cannot be used by the installed
provers, but `WFMin` can, since it speaks of a set: the least number without a property is
compared with the one before it.  `UpToInduction` states the result in the form the proofs use.

**Intent gate.**  The assumption is `IntentGateAssumption`: what can be typed is made of words of the
shapes above whose numbers mean what `NumbersAreMeant` says.  A message of any length is allowed.  Nothing is assumed of the gaps in
Claude's answer, except that it invents nothing (see the assumptions of the environment).  A card
is honest (`HonestCard`) about a message when it asks for the budget and the destinations
exactly if it has none, and its budget was said in the message or carries the warning, unless two
numbers of the message touch.  Messages grow at their end, so the numbers of one keep what they
mean (`MeaningIsKept`).  `CompactDef` unfolds the recursion of `Compact`, `RunsOfOneWord` shows that a
run of digits is one word where no numbers touch, and with it `FoundIsMeant` that what
`NormalizeBudget` finds was said or is below 10,000.
`ClaudeIsHonest` says honesty of the answer, and one lemma for each repair (`RepairBudgetIsHonest`, `RepairNightsIsHonest`, `RepairPaxIsHonest`,
`FillFromProfileIsHonest`) keeps it so.  `AsksForWhatIsMissing`
and `InventionIsFlaggedUnlessNumbersTouch` follow from the honesty of all cards shown and kept.
For the refinement `Inv` has `CacheIsShown` (a cached card was shown under its id, and agreed to once
marked confirmed), `RequestsRemember` (so was what a request read before the entry expired or
was overwritten) and `PlansAreAgreed` (a plan's fields come from an agreed card, and a run has one
plan).  An abstract step is the write to the cache, the confirm's answer, or the queueing.

**Booking.**  The assumption is `BookingAssumption` (the limit of turns is a positive natural
number).  `CollectedIsSold` carries a supplier's number from the answer over what is
collected to the row; `OneTicket` says that once a ticket is issued the agent can only
issue it again on the same hold, where the answer is the same number.

Only model-checked: all liveness (`EveryCallReturns`, `EveryVersionFinishes`,
`StreamEnds`, `SearchEnds`, `OutcomeIsRecorded`), because fairness is defined by ENABLED, which the
provers do not handle; and the claims of the section before this one, which TLC refutes.

## Not modelled

- The wording of prompts, narratives and explanations; distances and ranking scores; the
  geography of routes: no property is about them.
- `total_budget`: a budget edit writes it to the trip before it finds candidates
  (`agents/tasks.py:569`), and an abort leaves it there.  `PlanLifecycle` has the trip's dates
  and party, which booking uses, and not its budget, which it does not.
- `parse_detail`, `run_detail`, `trip_list` and `plan_detail`, which only read;
  `trip_update_title`; `payment_checkout` (a demo page) and `cancel_payment` (never called).
- The edit router, location enrichment, flight routes and the clients of Claude, Google and
  LiteAPI: calls that keep no state.  Their answers and failures are choices of the models that
  make them.
- Two processes of one hotel or flight server: a task has its own, as `agents/mcp_client.py`
  starts them, so quotes and holds are not shared between tasks.
- User accounts; deployment and monitoring; demos, migrations and management commands.

## Plan

Done, in this order: Provider with its abstract ledger and proofs; Payments;
PlanLifecycle; RunStream; Itinerary; TripSearch with Budget and their proofs; IntentParser
and IntentGate with `ConfirmedRuns` and its refinement proof; Booking with `BookingTask`
and its proofs; PaymentsProofs; RunStreamProofs; PlanLifecycleProofs; the card's honesty in
IntentGateProofs; rooms, nights and types in TripSearchProofs; ItineraryProofs.

Next:

1. `BookingSaga`: `Payments` composed with `PlanLifecycle` (a confirmation that an
   edit undoes while it is paid) and with `Booking` in place of the choices `SupplierBooks`
   and `SaveBooking`.
2. `total_budget` in `PlanLifecycle`.
