---------------------------- MODULE BookingTask ----------------------------
(***************************************************************************)
(* What a booking task promises (run_booking and run_flight_ticketing,     *)
(* agents/tasks.py) while the agent in it keeps to its mission: a row is   *)
(* written once, when nothing more is sold; a confirmed row has the number *)
(* of something the supplier sold to this task; and of a flight no more    *)
(* than one ticket is sold (agents/flight/booking_mcp_server.py:16-19).    *)
(***************************************************************************)
CONSTANT None

VARIABLES
    kind,       \* "hotel" or "flight"
    sold,       \* the numbers the supplier sold under
    row         \* the Booking row, or None

vars == <<kind, sold, row>>

Init ==
    /\ kind \in {"hotel", "flight"}
    /\ sold = {}
    /\ row = None

Sell ==
    /\ row = None
    /\ kind = "flight" => sold = {}
    /\ \E n \in sold' \ sold : sold' = sold \cup {n}
    /\ UNCHANGED <<kind, row>>

Record ==
    /\ row = None
    /\ \/ \E n \in sold : row' = [status |-> "confirmed", number |-> n]
       \/ row' = [status |-> "failed", number |-> None]
    /\ UNCHANGED <<kind, sold>>

Next == Sell \/ Record

Spec == Init /\ [][Next]_vars
=============================================================================
