------------------------------ MODULE Booking ------------------------------
(***************************************************************************)
(* One booking task, from its mission to the row it writes: run_booking or *)
(* run_flight_ticketing (agents/tasks.py) in run_agent_loop                *)
(* (agents/orchestrator.py), with the tools of agents/booking for hotels   *)
(* and of agents/flight/booking_mcp_server.py for flights.                 *)
(*                                                                         *)
(* Both suppliers sell in three steps: a quote (a rate), a hold of seats   *)
(* (a prebook) and the ticket (the confirmed booking).  Claude goes by the *)
(* mission, one call a turn: each step takes what the step before answered *)
(* and an error lets it try again or start over.  It may stop at any turn. *)
(* The loop enforces none of that and runs whatever calls Claude makes     *)
(* (AskAnything): what then still holds is said at the properties.         *)
(***************************************************************************)
EXTENDS Naturals

CONSTANTS
    MAX_TURNS,
    None

Turns == 1 .. MAX_TURNS

\* What is collected of a booking, and the Booking row made of it.
Collection == [number : Turns \cup {None}]
Row == [status : {"confirmed", "failed"}, number : Turns \cup {None}]

ASSUME BookingAssumption ==
    MAX_TURNS \in Nat \ {0} /\ None \notin Nat \cup Collection \cup Row

VARIABLES
    kind,       \* what is to be booked: "hotel" or "flight"
    pc,         \* "claude", "tool", "collect", "save"; "done" or "lost"
    turn,
    call,       \* the tool Claude called in this turn, and on what
    answer,     \* what the tool answered
    told,       \* what Claude goes by: the last thing it got, and whether an error followed
    quotes,     \* the supplier's quotes that are still good
    holds,      \* its holds that are still good
    sold,       \* the numbers it sold under: h["issued"] of the flight server's holds
    collected,  \* collected["booking"] or collected["flight_ticket"]
    row,        \* the Booking row
    heard       \* history: the numbers tools answered with

vars == <<kind, pc, turn, call, answer, told, quotes, holds, sold, collected, row, heard>>
supplier == <<quotes, holds, sold>>

\* Ids and numbers are the turns they were made in: a turn makes one call.
Nothing == [got |-> "nothing", id |-> None, error |-> FALSE]
NoCall == [tool |-> "none", on |-> None]
Answer(got, id) == [got |-> got, id |-> id]
Error == Answer("error", None)

Init ==
    /\ kind \in {"hotel", "flight"}
    /\ pc = "claude"
    /\ turn = 1
    /\ call = NoCall
    /\ answer = Error
    /\ told = Nothing
    /\ quotes = {}
    /\ holds = {}
    /\ sold = {}
    /\ collected = None
    /\ row = None
    /\ heard = {}

-----------------------------------------------------------------------------
(* The agent loop                                                          *)

\* What the mission lets Claude do next.  A flight's issue may be repeated even
\* after it answered, the tool says it is idempotent.
Allowed(c) ==
    \/ c = [tool |-> "quote", on |-> None] /\ (told.got = "nothing" \/ told.error)
    \/ c = [tool |-> "hold", on |-> told.id] /\ told.got = "quote"
    \/ c = [tool |-> "buy", on |-> told.id] /\ told.got = "hold"
    \/ c = [tool |-> "buy", on |-> told.id] /\ told.got = "number" /\ kind = "flight"

Calls == [tool : {"quote", "hold", "buy"}, on : Turns \cup {None}]

AskClaude ==
    /\ pc = "claude"
    /\ \E c \in Calls :
          /\ Allowed(c)
          /\ call' = c
    /\ pc' = "tool"
    /\ UNCHANGED <<kind, turn, answer, told, supplier, collected, row, heard>>

\* What the loop lets Claude do: any call on any id, after a number as well.  The calls
\* of one turn are as good as turns of their own in which Claude was told nothing.
AskAnything ==
    /\ pc = "claude"
    /\ call' \in Calls
    /\ pc' = "tool"
    /\ UNCHANGED <<kind, turn, answer, told, supplier, collected, row, heard>>

\* No tool call in Claude's answer: the loop is over.
FinalAnswer ==
    /\ pc = "claude"
    /\ pc' = "save"
    /\ UNCHANGED <<kind, turn, call, answer, told, supplier, collected, row, heard>>

Calling(k, tool) == pc = "tool" /\ kind = k /\ call.tool = tool

Answers(a) ==
    /\ answer' = a
    /\ pc' = "collect"
    /\ heard' = IF a.got = "number" THEN heard \cup {a.id} ELSE heard
    /\ UNCHANGED <<kind, turn, call, told, collected, row>>

\* Off by one.
IsPastTheLastTurn == turn > MAX_TURNS

IsLastTurn == turn = MAX_TURNS

\* The answers of the last turn are of no use to Claude.
CollectedUnlessLast(a) ==
    IF call.tool = "buy" /\ a.got \in {"number", "no_number"} /\ ~IsLastTurn
    THEN [number |-> a.id]
    ELSE collected

\* Only a ticket, or a booking without an error, is collected, the last one made;
\* a booking without a number is worth as little to save_booking as none, which
\* is what post_bookings, the tool of LiteAPI's own server, leaves of it.
Collected(a) ==
    IF call.tool = "buy" /\ a.got \in {"number", "no_number"}
    THEN [number |-> a.id]
    ELSE collected

\* Claude goes on from what it got; an answer it can do nothing with is an error.
Collect ==
    /\ pc = "collect"
    /\ collected' = Collected(answer)
    /\ told' = IF answer.got \in {"quote", "hold", "number"}
               THEN [got |-> answer.got,
                     id |-> IF answer.got = "number" THEN call.on ELSE answer.id,
                     error |-> FALSE]
               ELSE [told EXCEPT !.error = TRUE]
    /\ IF IsLastTurn
       THEN pc' = "save" /\ turn' = turn
       ELSE pc' = "claude" /\ turn' = turn + 1
    /\ UNCHANGED <<kind, call, answer, supplier, row, heard>>

-----------------------------------------------------------------------------
(* The flight server (a mock supplier)                                     *)

FlightFareQuote ==
    /\ Calling("flight", "quote")
    /\ quotes' = quotes \cup {turn}
    /\ Answers(Answer("quote", turn))
    /\ UNCHANGED <<holds, sold>>

\* A party of less than one is refused whatever the quote.
FlightHoldSeats ==
    /\ Calling("flight", "hold")
    /\ \/ /\ call.on \in quotes
          /\ holds' = holds \cup {turn}
          /\ Answers(Answer("hold", turn))
       \/ UNCHANGED holds /\ Answers(Error)
    /\ UNCHANGED <<quotes, sold>>

\* An expired hold is refused, issued or not.
FlightIssueTicketOnce ==
    /\ Calling("flight", "buy")
    /\ \/ /\ call.on \in holds
          /\ sold' = sold \cup {call.on}
          /\ Answers(Answer("number", call.on))
       \/ /\ call.on \notin holds
          /\ UNCHANGED sold
          /\ Answers(Error)
    /\ UNCHANGED <<quotes, holds>>

\* The PNR is a hash of the hold: issuing it again answers with the same one, even
\* after the hold has expired.
FlightIssueTicket ==
    /\ Calling("flight", "buy")
    /\ \/ /\ call.on \in holds \cup sold
          /\ sold' = sold \cup {call.on}
          /\ Answers(Answer("number", call.on))
       \/ /\ call.on \notin holds \cup sold
          /\ UNCHANGED sold
          /\ Answers(Error)
    /\ UNCHANGED <<quotes, holds>>

-----------------------------------------------------------------------------
(* The hotel tools, with LiteAPI behind them: an HTTP error, a timeout or  *)
(* an answer without what was asked for is always possible.                *)

BookingSearchRates ==
    /\ Calling("hotel", "quote")
    /\ \/ quotes' = quotes \cup {turn} /\ Answers(Answer("quote", turn))
       \/ UNCHANGED quotes /\ Answers(Error)
    /\ UNCHANGED <<holds, sold>>

BookingPrebook ==
    /\ Calling("hotel", "hold")
    /\ \/ /\ call.on \in quotes
          /\ holds' = holds \cup {turn}
          /\ Answers(Answer("hold", turn))
       \/ UNCHANGED holds /\ Answers(Error)
    /\ UNCHANGED <<quotes, sold>>

\* LiteAPI books or does not.  The answer has the number, has none, or is lost to
\* the 20 second timeout, which the tool turns into an error.
BookingConfirm ==
    /\ Calling("hotel", "buy")
    /\ \/ /\ call.on \in holds
          /\ sold' = sold \cup {turn}
          /\ \/ Answers(Answer("number", turn))
             \/ Answers(Answer("no_number", None))
             \/ Answers(Error)
       \/ /\ UNCHANGED sold
          /\ Answers(Answer("no_number", None)) \/ Answers(Error)
    /\ UNCHANGED <<quotes, holds>>

\* Quotes and holds are good for ten minutes; rates for about thirty.
Expire ==
    /\ pc \in {"claude", "tool", "collect"}
    /\ \E id \in Turns :
          \/ id \in quotes /\ quotes' = quotes \ {id} /\ UNCHANGED holds
          \/ id \in holds /\ holds' = holds \ {id} /\ UNCHANGED quotes
    /\ UNCHANGED <<kind, pc, turn, call, answer, told, sold, collected, row, heard>>

-----------------------------------------------------------------------------
(* The end of the task                                                     *)

HasNumber == collected # None /\ collected.number # None

\* A booking that failed is not worth a row.
SaveBookingIfConfirmed ==
    /\ pc = "save"
    /\ HasNumber
    /\ row' = [status |-> "confirmed", number |-> collected.number]
    /\ pc' = "done"
    /\ UNCHANGED <<kind, turn, call, answer, told, supplier, collected, heard>>

\* save_booking: a failure is history as well.
SaveBooking ==
    /\ pc = "save"
    /\ row' = IF HasNumber
              THEN [status |-> "confirmed", number |-> collected.number]
              ELSE [status |-> "failed", number |-> None]
    /\ pc' = "done"
    /\ UNCHANGED <<kind, turn, call, answer, told, supplier, collected, heard>>

\* Claude's API or a tool server raises, or the worker dies: nobody runs the task
\* again.
LoseTask ==
    /\ pc \notin {"done", "lost"}
    /\ pc' = "lost"
    /\ UNCHANGED <<kind, turn, call, answer, told, supplier, collected, row, heard>>

UseTool ==
    \/ FlightFareQuote
    \/ FlightHoldSeats
    \/ FlightIssueTicket
    \/ BookingSearchRates
    \/ BookingPrebook
    \/ BookingConfirm

Progress == AskClaude \/ FinalAnswer \/ UseTool \/ Collect \/ SaveBooking

Next == Progress \/ Expire \/ LoseTask

Spec == Init /\ [][Next]_vars

\* Without what the mission asks of Claude.
FreeSpec == Init /\ [][Next \/ AskAnything]_vars

\* Claude's API and LiteAPI answer or time out.
FairSpec == Spec /\ WF_vars(Progress)

-----------------------------------------------------------------------------
\* The shape of the state; no quote, hold or sale is of a later turn.
TypeOK ==
    /\ kind \in {"hotel", "flight"}
    /\ pc \in {"claude", "tool", "collect", "save", "done", "lost"}
    /\ turn \in Turns
    /\ call \in Calls \cup {NoCall}
    /\ answer \in [got : {"error", "quote", "hold", "number", "no_number"},
                   id : Turns \cup {None}]
    /\ told \in [got : {"nothing", "quote", "hold", "number"}, id : Turns \cup {None},
                 error : BOOLEAN]
    /\ quotes \cup holds \cup sold \cup heard \subseteq 1 .. turn
    /\ collected \in Collection \cup {None}
    /\ row \in Row \cup {None}

\* However often tools fail, expire, lose answers or are called again, the row of
\* a task tells of something that was sold to it, and a flight is ticketed once.  Of
\* FreeSpec TLC refutes the last part: two holds are two tickets.
Promise == INSTANCE BookingTask

ImplementsBookingTask == Promise!Spec

\* A number the supplier gave the agent is not forgotten: whatever follows it in
\* the loop, the turn limit included, the row is confirmed and has such a number.
\* Of FreeSpec TLC refutes it for hotels: a second booking_confirm that answers
\* without a number takes the place of the first (agents/orchestrator.py:90-93).
AnsweredNumberIsRecorded ==
    row # None /\ heard # {} => row.status = "confirmed" /\ row.number \in heard

\* A task that is not lost writes its row, at the turn limit at the latest.
OutcomeIsRecorded == <>(row # None \/ pc = "lost")

\* A failed row says that Claude did not get as far as a booking
\* (trips/services.py:572).  In no run: TLC refutes it, see the README.
FailedMeansNotBooked == row # None /\ row.status = "failed" => sold = {}

\* One task, one booking.  In no run: TLC refutes it for hotels, see the README.
BooksOnce == \A m, n \in sold : m = n
=============================================================================
