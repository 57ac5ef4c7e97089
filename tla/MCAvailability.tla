---------------------------- MODULE MCAvailability ----------------------------
(* Small instances of Availability: days of two hours. *)
EXTENDS Availability

MCDates == {1, 2}

\* One hour, all day from the second hour on (to the first hour of the next
\* day), and the same hours after another column changed.
MCRows == {[open |-> 0, close |-> 1, rest |-> "old"],
           [open |-> 1, close |-> 1, rest |-> "old"],
           [open |-> 1, close |-> 1, rest |-> "new"]}

\* An hour that the date before carries over.
MCWanted == {<<2, 0>>}
=============================================================================
