--------------------------- MODULE BookingProofs ---------------------------
(***************************************************************************)
(* Booking implements BookingTask, for any limit of turns: what Claude is  *)
(* told of a ticket keeps it from starting over, and what is collected was *)
(* sold.                                                                   *)
(***************************************************************************)
EXTENDS Booking, TLAPS

\* The row is written at the end, and what it will say was sold.
CollectedIsSold ==
    /\ row = None <=> pc # "done"
    /\ HasNumber => collected.number \in sold
    /\ pc = "collect" =>
          /\ answer.got = "number" => answer.id \in sold
          /\ answer.got = "no_number" => answer.id = None

\* Once a ticket is issued, the agent can do nothing but issue it again.
StaysAt(h) ==
    /\ sold = {h}
    /\ pc = "claude" => told = [got |-> "number", id |-> h, error |-> FALSE]
    /\ pc = "tool" => call = [tool |-> "buy", on |-> h]
    /\ pc = "collect" => call = [tool |-> "buy", on |-> h] /\ answer = Answer("number", h)

OneTicket ==
    kind = "flight" /\ pc \in {"claude", "tool", "collect"} /\ sold # {} =>
        \E h \in sold : StaysAt(h)

Inv == TypeOK /\ CollectedIsSold /\ OneTicket

-----------------------------------------------------------------------------
(* The type invariant, step by step                                        *)

\* Nothing is called or collected at first.
LEMMA InitType == Init => TypeOK
BY BookingAssumption
   DEF Init, TypeOK, Turns, NoCall, Nothing, Answer, Error, Calls

\* The row written is one of the rows, whatever was collected.
LEMMA RowIsSaved ==
    ASSUME TypeOK, SaveBooking
    PROVE  row' \in Row /\ row' # None
<1>1. row' \in Row
    BY DEF SaveBooking, TypeOK, HasNumber, Collection, Row
<1> QED BY <1>1, BookingAssumption

\* Claude's part and the end of the task.
LEMMA LoopType ==
    ASSUME TypeOK, AskClaude \/ FinalAnswer \/ SaveBooking \/ Expire \/ LoseTask
    PROVE  TypeOK'
<1>1. CASE AskClaude
    BY <1>1 DEF AskClaude, TypeOK, supplier
<1>2. CASE FinalAnswer
    BY <1>2 DEF FinalAnswer, TypeOK, supplier
<1>3. CASE SaveBooking
  <2>1. row' \in Row
    BY <1>3, RowIsSaved
  <2> QED BY <1>3, <2>1 DEF SaveBooking, TypeOK, supplier
<1>4. CASE Expire
    BY <1>4 DEF Expire, TypeOK
<1>5. CASE LoseTask
    BY <1>5 DEF LoseTask, TypeOK, supplier
<1> QED BY <1>1, <1>2, <1>3, <1>4, <1>5

\* Collecting keeps ids within the turns taken, and takes one more at most.
LEMMA CollectType ==
    ASSUME TypeOK, Collect
    PROVE  TypeOK'
<1>1. turn' \in Turns /\ turn <= turn'
  <2>1. turn \in Nat /\ 1 <= turn /\ turn <= MAX_TURNS /\ MAX_TURNS \in Nat
    BY BookingAssumption DEF TypeOK, Turns
  <2>2. turn' = turn \/ (turn # MAX_TURNS /\ turn' = turn + 1)
    BY DEF Collect, IsLastTurn
  <2> QED BY <2>1, <2>2 DEF Turns
<1>2. collected' \in Collection \cup {None}
    BY DEF Collect, Collected, TypeOK, Collection
<1>3. told' \in [got : {"nothing", "quote", "hold", "number"}, id : Turns \cup {None},
                 error : BOOLEAN]
  <2>1. call.on \in Turns \cup {None}
    BY DEF TypeOK, Calls, NoCall
  <2>2. CASE answer.got \in {"quote", "hold", "number"}
    BY <2>1, <2>2 DEF Collect, TypeOK
  <2>3. CASE answer.got \notin {"quote", "hold", "number"}
    <3>1. told' = [told EXCEPT !.error = TRUE]
      BY <2>3 DEF Collect
    <3> QED BY <3>1 DEF TypeOK
  <2> QED BY <2>2, <2>3
<1>4. pc' \in {"save", "claude"}
    BY DEF Collect
<1>5. UNCHANGED <<kind, call, answer, quotes, holds, sold, row, heard>>
    BY DEF Collect, supplier
<1>6. quotes' \cup holds' \cup sold' \cup heard' \subseteq 1 .. turn'
    BY <1>1, <1>5 DEF TypeOK, Turns
<1> QED BY <1>1, <1>2, <1>3, <1>4, <1>5, <1>6 DEF TypeOK

\* A tool answers with an id of this turn or an earlier one.
LEMMA AnswersType ==
    ASSUME TypeOK, NEW a \in [got : {"error", "quote", "hold", "number", "no_number"},
                              id : Turns \cup {None}],
           a.got = "number" => a.id \in 1 .. turn,
           Answers(a), quotes' \cup holds' \cup sold' \subseteq 1 .. turn
    PROVE  TypeOK'
BY DEF Answers, TypeOK

\* Every tool answers with an id of this turn, or of the one it was called on.
LEMMA ToolType ==
    ASSUME TypeOK, UseTool
    PROVE  TypeOK'
<1> DEFINE Ids == 1 .. turn
<1>1. /\ turn \in Turns /\ turn \in Ids /\ Ids \subseteq Turns
      /\ quotes \subseteq Ids /\ holds \subseteq Ids /\ sold \subseteq Ids
    BY BookingAssumption DEF TypeOK, Turns
<1>2. ASSUME NEW got \in {"quote", "hold", "number"}, NEW id \in Ids,
             Answers(Answer(got, id)), quotes' \cup holds' \cup sold' \subseteq Ids
      PROVE  TypeOK'
    BY <1>1, <1>2, AnswersType DEF Answer
<1>3. ASSUME Answers(Error) \/ Answers(Answer("no_number", None)),
             quotes' \cup holds' \cup sold' \subseteq Ids
      PROVE  TypeOK'
    BY <1>3, AnswersType DEF Answer, Error
<1> HIDE DEF Ids
<1>4. CASE FlightFareQuote
    BY <1>1, <1>2, <1>4 DEF FlightFareQuote
<1>5. CASE FlightHoldSeats
    BY <1>1, <1>2, <1>3, <1>5 DEF FlightHoldSeats
<1>6. CASE FlightIssueTicket
  <2>1. CASE call.on \in holds \cup sold
    BY <1>1, <1>2, <1>6, <2>1 DEF FlightIssueTicket
  <2>2. CASE call.on \notin holds \cup sold
    BY <1>1, <1>3, <1>6, <2>2 DEF FlightIssueTicket
  <2> QED BY <2>1, <2>2
<1>7. CASE BookingSearchRates
    BY <1>1, <1>2, <1>3, <1>7 DEF BookingSearchRates
<1>8. CASE BookingPrebook
    BY <1>1, <1>2, <1>3, <1>8 DEF BookingPrebook
<1>9. CASE BookingConfirm
    BY <1>1, <1>2, <1>3, <1>9 DEF BookingConfirm
<1> QED BY <1>4, <1>5, <1>6, <1>7, <1>8, <1>9 DEF UseTool

\* Together: every step keeps the types.
LEMMA NextType == TypeOK /\ [Next]_vars => TypeOK'
<1>1. ASSUME TypeOK, UNCHANGED vars PROVE TypeOK'
    BY <1>1 DEF vars, TypeOK
<1> QED BY <1>1, LoopType, CollectType, ToolType DEF Next, Progress

-----------------------------------------------------------------------------
(* What is collected was sold                                              *)

\* Numbers come from sales, and stay sold.
LEMMA NextCollectedIsSold ==
    ASSUME TypeOK, CollectedIsSold, [Next]_vars
    PROVE  CollectedIsSold'
<1>1. CASE AskClaude \/ FinalAnswer \/ Expire \/ LoseTask \/ UNCHANGED vars
    BY <1>1 DEF AskClaude, FinalAnswer, Expire, LoseTask, vars, supplier, CollectedIsSold,
                HasNumber
<1>2. CASE SaveBooking
  <2>1. row' # None
    BY <1>2, RowIsSaved
  <2> QED BY <1>2, <2>1 DEF SaveBooking, supplier, CollectedIsSold, HasNumber
<1>3. CASE Collect
  <2>1. pc' # "done" /\ pc' # "collect" /\ UNCHANGED <<row, sold>> /\ row = None
    BY <1>3 DEF Collect, supplier, CollectedIsSold
  <2>2. CASE collected' = collected
    BY <2>1, <2>2 DEF CollectedIsSold, HasNumber
  <2>3. CASE collected' = [number |-> answer.id] /\ answer.got \in {"number", "no_number"}
    BY <1>3, <2>1, <2>3 DEF Collect, CollectedIsSold, HasNumber
  <2> QED BY <1>3, <2>2, <2>3 DEF Collect, Collected
<1>4. ASSUME NEW a, Answers(a), sold \subseteq sold', pc = "tool",
             a.got = "number" => a.id \in sold',
             a.got = "no_number" => a.id = None
      PROVE  CollectedIsSold'
    BY <1>4 DEF Answers, CollectedIsSold, HasNumber
<1>5. CASE UseTool
  <2>1. ASSUME NEW got \in {"quote", "hold"}, NEW id, Answers(Answer(got, id)),
               sold \subseteq sold', pc = "tool"
        PROVE  CollectedIsSold'
      BY <2>1, <1>4 DEF Answer
  <2>2. ASSUME Answers(Error) \/ Answers(Answer("no_number", None)),
               sold \subseteq sold', pc = "tool"
        PROVE  CollectedIsSold'
      BY <2>2, <1>4 DEF Answer, Error
  <2>3. ASSUME NEW n \in sold', Answers(Answer("number", n)), sold \subseteq sold', pc = "tool"
        PROVE  CollectedIsSold'
      BY <2>3, <1>4 DEF Answer
  <2>4. CASE FlightFareQuote \/ FlightHoldSeats \/ BookingSearchRates \/ BookingPrebook
      BY <2>1, <2>2, <2>4
      DEF FlightFareQuote, FlightHoldSeats, BookingSearchRates, BookingPrebook, Calling
  <2>5. CASE FlightIssueTicket
      BY <2>2, <2>3, <2>5 DEF FlightIssueTicket, Calling
  <2>6. CASE BookingConfirm
      BY <2>2, <2>3, <2>6 DEF BookingConfirm, Calling
  <2> QED BY <1>5, <2>4, <2>5, <2>6 DEF UseTool
<1> QED BY <1>1, <1>2, <1>3, <1>5 DEF Next, Progress

-----------------------------------------------------------------------------
(* One ticket                                                              *)

\* After a ticket, Claude is told its number and can only issue it again.
LEMMA NextOneTicket ==
    ASSUME TypeOK, OneTicket, [Next]_vars
    PROVE  OneTicket'
<1> SUFFICES ASSUME kind' = "flight", pc' \in {"claude", "tool", "collect"}, sold' # {}
             PROVE  \E h \in sold' : StaysAt(h)'
    BY DEF OneTicket
<1>1. ASSUME NEW h \in sold, StaysAt(h), UNCHANGED <<pc, sold, told, call, answer>>
      PROVE  \E g \in sold' : StaysAt(g)'
    BY <1>1 DEF StaysAt, Answer
<1>2. CASE Expire \/ UNCHANGED vars
    BY <1>1, <1>2 DEF Expire, vars, OneTicket
<1>3. CASE AskClaude
  <2>1. PICK h \in sold : StaysAt(h)
    BY <1>3 DEF AskClaude, OneTicket, supplier
  <2>2. told.got = "number" /\ told.id = h /\ told.error = FALSE
    BY <1>3, <2>1 DEF AskClaude, StaysAt
  <2>3. call' = [tool |-> "buy", on |-> h]
    BY <1>3, <2>2 DEF AskClaude, Allowed
  <2> QED BY <1>3, <2>1, <2>3 DEF AskClaude, StaysAt, supplier
<1>4. CASE Collect
  <2>1. PICK h \in sold : StaysAt(h)
    BY <1>4 DEF Collect, OneTicket, supplier
  <2>2. call.on = h /\ answer.got = "number"
    BY <1>4, <2>1 DEF Collect, StaysAt, Answer
  <2>3. told' = [got |-> "number", id |-> h, error |-> FALSE]
    BY <1>4, <2>2 DEF Collect
  <2> QED BY <1>4, <2>1, <2>3 DEF Collect, StaysAt, supplier
<1>5. CASE FlightIssueTicket
  <2>1. call.tool = "buy" /\ pc = "tool" /\ pc' = "collect" /\ UNCHANGED call
    BY <1>5 DEF FlightIssueTicket, Calling, Answers
  <2>2. call = [tool |-> "buy", on |-> call.on]
    BY <2>1 DEF TypeOK, Calls, NoCall
  <2>3. sold = {} \/ sold = {call.on}
    BY <1>5, <2>1 DEF FlightIssueTicket, Calling, OneTicket, StaysAt
  <2>4. sold' = {call.on} /\ answer' = Answer("number", call.on)
    BY <1>5, <2>3 DEF FlightIssueTicket, Answers
  <2> QED BY <2>1, <2>2, <2>4 DEF StaysAt
<1>6. CASE FlightFareQuote \/ FlightHoldSeats
  <2>1. sold # {} /\ pc = "tool" /\ call.tool # "buy" /\ kind = "flight"
    BY <1>6 DEF FlightFareQuote, FlightHoldSeats, Calling, Answers
  <2> QED BY <2>1 DEF OneTicket, StaysAt
<1>7. CASE BookingSearchRates \/ BookingPrebook \/ BookingConfirm
    BY <1>7 DEF BookingSearchRates, BookingPrebook, BookingConfirm, Calling, Answers
<1>8. CASE FinalAnswer \/ SaveBooking \/ LoseTask
    BY <1>8 DEF FinalAnswer, SaveBooking, LoseTask
<1> QED
    BY <1>2, <1>3, <1>4, <1>5, <1>6, <1>7, <1>8 DEF Next, Progress, UseTool

-----------------------------------------------------------------------------
\* Type correctness of the loop of run_agent_loop with the tools of both suppliers.
THEOREM TypeCorrectness == Spec => []TypeOK
BY InitType, NextType, PTL DEF Spec

\* What the task has collected was sold, and a flight's ticket is the only one.
LEMMA InitInv == Init => Inv
BY InitType DEF Init, Inv, CollectedIsSold, OneTicket, HasNumber

\* Every step keeps all three.
LEMMA NextInv == Inv /\ [Next]_vars => Inv'
BY NextType, NextCollectedIsSold, NextOneTicket DEF Inv

\* The inductive invariant holds throughout.
THEOREM Invariance == Spec => []Inv
BY InitInv, NextInv, PTL DEF Spec

\* Until its row is written a task sells, one number at a time.
LEMMA ToolRefines ==
    ASSUME Inv, UseTool
    PROVE  [Promise!Next]_(Promise!vars)
<1>1. row = None /\ UNCHANGED <<kind, row>>
    BY DEF Inv, CollectedIsSold, UseTool, FlightFareQuote, FlightHoldSeats, FlightIssueTicket,
           BookingSearchRates, BookingPrebook, BookingConfirm, Calling, Answers
<1>2. ASSUME NEW n, n \notin sold, sold' = sold \cup {n}, kind = "flight" => sold = {}
      PROVE  Promise!Next
    BY <1>1, <1>2 DEF Promise!Next, Promise!Sell
<1>3. CASE UNCHANGED sold
    BY <1>1, <1>3 DEF Promise!vars
<1>4. CASE FlightIssueTicket /\ sold' # sold
  <2>1. /\ sold' = sold \cup {call.on} /\ call.on \notin sold
        /\ kind = "flight" /\ pc = "tool"
    BY <1>4 DEF FlightIssueTicket, Calling
  <2>2. sold = {}
    BY <2>1 DEF Inv, OneTicket, StaysAt
  <2> QED BY <1>2, <2>1, <2>2
<1>5. CASE BookingConfirm /\ sold' # sold
    BY <1>2, <1>5 DEF BookingConfirm, Calling
<1> QED
    BY <1>3, <1>4, <1>5
    DEF UseTool, FlightFareQuote, FlightHoldSeats, BookingSearchRates, BookingPrebook

\* Writing the row is the end of the abstract task.
LEMMA SaveRefines ==
    ASSUME Inv, SaveBooking
    PROVE  Promise!Next
<1>1. row = None
    BY DEF Inv, CollectedIsSold, SaveBooking
<1>2. CASE HasNumber
    BY <1>1, <1>2 DEF Inv, CollectedIsSold, SaveBooking, supplier, Promise!Next, Promise!Record
<1>3. CASE ~HasNumber
    BY <1>1, <1>3 DEF SaveBooking, supplier, Promise!Next, Promise!Record
<1> QED BY <1>2, <1>3

\* run_booking and run_flight_ticketing keep the promise of BookingTask, whatever
\* the limit of turns: a confirmed row has a number sold to the task, nothing is
\* sold after the row, and a flight is ticketed at most once.
THEOREM Refinement == Spec => ImplementsBookingTask
<1>1. Init => Promise!Init
    BY DEF Init, Promise!Init
<1>2. Inv /\ [Next]_vars => [Promise!Next]_(Promise!vars)
  <2> SUFFICES ASSUME Inv, [Next]_vars PROVE [Promise!Next]_(Promise!vars)
      OBVIOUS
  <2>1. CASE AskClaude \/ FinalAnswer \/ Collect \/ Expire \/ LoseTask \/ UNCHANGED vars
      BY <2>1
      DEF AskClaude, FinalAnswer, Collect, Expire, LoseTask, vars, supplier, Promise!vars
  <2> QED BY <2>1, ToolRefines, SaveRefines DEF Next, Progress
<1> QED BY <1>1, <1>2, Invariance, PTL DEF Spec, ImplementsBookingTask, Promise!Spec

-----------------------------------------------------------------------------
(* No number is forgotten                                                  *)

\* A number the agent heard of is in the last answer or collected, and Claude,
\* which has it, makes no call that could be answered without it.
Remembered ==
    heard # {} =>
        /\ pc \in {"claude", "tool", "save"} => HasNumber /\ collected.number \in heard
        /\ pc = "collect" => call.tool = "buy" /\ answer.got = "number" /\ answer.id \in heard
        /\ pc = "claude" => told.got = "number" /\ told.error = FALSE
        /\ pc = "tool" => kind = "flight" /\ call.tool = "buy"

HeardInv ==
    Inv /\ heard \subseteq sold /\ Remembered /\ AnsweredNumberIsRecorded

\* Only the collected number, then the one in the row, speaks for what was heard.
LEMMA LoopHeard ==
    ASSUME HeardInv, AskClaude \/ FinalAnswer \/ Expire \/ LoseTask \/ Collect \/ SaveBooking
    PROVE  (heard \subseteq sold /\ Remembered /\ AnsweredNumberIsRecorded)'
<1> USE DEF HeardInv, Remembered, AnsweredNumberIsRecorded
<1>1. CASE AskClaude
  <2>1. heard # {} => kind = "flight" /\ call'.tool = "buy"
    BY <1>1 DEF AskClaude, Allowed
  <2> QED BY <1>1, <2>1 DEF AskClaude, supplier, HasNumber
<1>2. CASE FinalAnswer \/ Expire \/ LoseTask
    BY <1>2 DEF FinalAnswer, Expire, LoseTask, supplier, HasNumber
<1>3. CASE Collect
  <2>1. UNCHANGED <<heard, sold, row>> /\ pc' \in {"save", "claude"}
    BY <1>3 DEF Collect, supplier
  <2>2. ASSUME heard # {}
        PROVE  /\ collected' = [number |-> answer.id] /\ answer.id \in heard
               /\ told'.got = "number" /\ told'.error = FALSE
    BY <1>3, <2>2 DEF Collect, Collected
  <2>3. heard # {} => HasNumber' /\ collected'.number \in heard
    <3>1. turn \in Nat /\ turn <= MAX_TURNS /\ MAX_TURNS \in Nat /\ heard \subseteq 1 .. turn
      BY BookingAssumption DEF Inv, TypeOK, Turns
    <3>2. heard \subseteq Turns /\ heard \subseteq Nat
      BY <3>1 DEF Turns
    <3>3. ASSUME NEW n \in heard
          PROVE  [number |-> n] # None /\ [number |-> n].number # None
      BY <3>2, BookingAssumption DEF Collection
    <3>4. ASSUME heard # {}
          PROVE  HasNumber' /\ collected'.number \in heard
      <4>1. PICK n \in heard : collected' = [number |-> n]
        BY <2>2, <3>4
      <4>2. collected' # None /\ collected'.number # None /\ collected'.number = n
        BY <3>3, <4>1
      <4> QED BY <4>2 DEF HasNumber
    <3> QED BY <3>4
  <2> QED BY <2>1, <2>2, <2>3
<1>4. CASE SaveBooking
  <2>1. heard # {} => row' = [status |-> "confirmed", number |-> collected.number]
    BY <1>4 DEF SaveBooking
  <2> QED BY <1>4, <2>1 DEF SaveBooking, supplier
<1> QED BY <1>1, <1>2, <1>3, <1>4

\* The number an answer tells is sold by then, and a flight's is the one told before.
LEMMA ToolHeard ==
    ASSUME HeardInv, UseTool
    PROVE  (heard \subseteq sold /\ Remembered /\ AnsweredNumberIsRecorded)'
<1>1. /\ pc = "tool" /\ pc' = "collect" /\ row = None /\ row' = None
      /\ call' = call /\ sold \subseteq sold'
    BY DEF HeardInv, Inv, CollectedIsSold, UseTool, FlightFareQuote, FlightHoldSeats,
           FlightIssueTicket, BookingSearchRates, BookingPrebook, BookingConfirm, Calling,
           Answers
<1>2. CASE heard = {} /\ heard' = {}
    BY <1>1, <1>2 DEF Remembered, AnsweredNumberIsRecorded
<1>3. ASSUME NEW n \in sold', call.tool = "buy", Answers(Answer("number", n))
      PROVE  (heard \subseteq sold /\ Remembered /\ AnsweredNumberIsRecorded)'
    BY <1>1, <1>3 DEF Answers, Answer, HeardInv, Remembered, AnsweredNumberIsRecorded
<1>4. CASE heard # {}
  <2>1. kind = "flight" /\ call.tool = "buy" /\ sold # {}
    BY <1>1, <1>4 DEF HeardInv, Remembered
  <2>2. call.on \in sold
    BY <1>1, <2>1 DEF HeardInv, Inv, OneTicket, StaysAt
  <2>3. FlightIssueTicket
    BY <2>1 DEF UseTool, FlightFareQuote, FlightHoldSeats, BookingSearchRates,
                BookingPrebook, BookingConfirm, Calling
  <2>4. Answers(Answer("number", call.on)) /\ call.on \in sold'
    BY <2>2, <2>3 DEF FlightIssueTicket
  <2> QED BY <1>3, <2>1, <2>4
<1>5. CASE heard = {} /\ heard' # {}
  <2>1. ASSUME NEW a, Answers(a), a.got # "number" PROVE heard' = heard
    BY <2>1 DEF Answers
  <2>2. \E n \in sold' : call.tool = "buy" /\ Answers(Answer("number", n))
    <3>1. FlightIssueTicket \/ BookingConfirm
      BY <1>5, <2>1 DEF UseTool, FlightFareQuote, FlightHoldSeats, BookingSearchRates,
                        BookingPrebook, Answer, Error
    <3>2. CASE FlightIssueTicket
      BY <1>5, <2>1, <3>2 DEF FlightIssueTicket, Calling, Answer, Error
    <3>3. CASE BookingConfirm
      BY <1>5, <2>1, <3>3 DEF BookingConfirm, Calling, Answer, Error
    <3> QED BY <3>1, <3>2, <3>3
  <2> QED BY <1>3, <2>2
<1> QED BY <1>2, <1>4, <1>5

\* The answers of _collect_candidates reach save_booking: a task that was told a
\* number writes a confirmed row with one, at the last turn too.
THEOREM NumbersAreRecorded == Spec => []AnsweredNumberIsRecorded
<1>1. Init => HeardInv
  <2>1. Init => Inv
    BY InitInv
  <2> QED BY <2>1 DEF Init, HeardInv, Remembered, AnsweredNumberIsRecorded
<1>2. HeardInv /\ [Next]_vars => HeardInv'
  <2> SUFFICES ASSUME HeardInv, [Next]_vars PROVE HeardInv'
      OBVIOUS
  <2>1. Inv'
      BY NextInv DEF HeardInv
  <2>2. CASE UNCHANGED vars
      BY <2>1, <2>2 DEF vars, HeardInv, Remembered, AnsweredNumberIsRecorded, HasNumber
  <2> QED BY <2>1, <2>2, LoopHeard, ToolHeard DEF Next, Progress, HeardInv
<1>3. HeardInv => AnsweredNumberIsRecorded
    BY DEF HeardInv
<1> QED BY <1>1, <1>2, <1>3, PTL DEF Spec
=============================================================================
