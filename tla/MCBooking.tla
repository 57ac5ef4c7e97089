------------------------------ MODULE MCBooking ------------------------------
(* Small instances of Booking: every slot belongs to the one turf, and the  *)
(* slot named late ends at midnight.                                        *)
EXTENDS Booking, TLC

CONSTANTS t1, late

MCTurfOf == [s \in Slots |-> t1]
MCMidnightSlots == Slots \cap {late}

\* Users, bookings and calls are interchangeable.
Interchangeable ==
    Permutations(Users) \cup Permutations(Bookings) \cup Permutations(Requests)
=============================================================================
