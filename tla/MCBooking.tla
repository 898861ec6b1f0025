------------------------------ MODULE MCBooking ------------------------------
(* Instances of Booking for TLC.                                           *)
EXTENDS Booking, TLC

CONSTANTS ann, bea, r1, r2, r3, m1, m2, c1, c2, c3, k1

Public(staff, start, customer, key, hash) ==
    [staff |-> staff, start |-> start, customer |-> customer, key |-> key,
     hash |-> hash, source |-> "PUBLIC"]
Counter(staff, start, customer) ==
    [staff |-> staff, start |-> start, customer |-> customer, key |-> NoKey,
     hash |-> 0, source |-> "DASHBOARD"]

\* A request and its retry, for whichever chair is free, against a walk-in that
\* names ann half a slot later.
RivalAsk ==
    r1 :> Public(Anybody, 1, c1, k1, 1) @@ r2 :> Public(Anybody, 1, c1, k1, 1)
    @@ r3 :> Counter(ann, 2, c3)

\* Two bookings that do not collide, until each is moved onto the other's place.
MoveAsk == r1 :> Public(ann, 1, c1, k1, 1) @@ r2 :> Public(Anybody, 2, c2, NoKey, 2)

Swap == [m \in Movers |-> IF m = m1 THEN [row |-> r1, staff |-> bea, start |-> 2]
                                    ELSE [row |-> r2, staff |-> ann, start |-> 1]]

AllWeek == [s \in Staff |-> Times]

=============================================================================
