----------------------------- MODULE MCBooking -----------------------------
(* An instance of Booking for TLC: the code's own eight turns. *)
EXTENDS Booking

Eight == 8
=============================================================================
