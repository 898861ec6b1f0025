---------------------------- MODULE MCBookingPage ----------------------------
(* Instances of BookingPage for TLC.                                       *)
EXTENDS BookingPage, TLC

CONSTANTS t1, t2, f1, f2

Alike == Permutations({f1, f2}) \cup Permutations({t1, t2})

=============================================================================
