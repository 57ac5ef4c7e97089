---------------------------- MODULE BookingLedger ----------------------------
(***************************************************************************)
(* What the booking tables promise, without calls, locks or payments: a    *)
(* booking is reserved together with its slot, in one step, and gives the  *)
(* slot up in the step that cancels it.                                    *)
(***************************************************************************)
CONSTANTS Slots, Bookings, NoSlot

VARIABLES
    status,  \* the life of each booking
    place,   \* the slot each booking was made for
    held     \* the slots that nobody else can reserve

ledger == <<status, place, held>>

Init ==
    /\ status = [b \in Bookings |-> "NONE"]
    /\ place = [b \in Bookings |-> NoSlot]
    /\ held = {}

Live(b) == status[b] \in {"PENDING", "CONFIRMED"}

Reserve(b, s) ==
    /\ status[b] = "NONE"
    /\ s \notin held
    /\ status' = [status EXCEPT ![b] = "PENDING"]
    /\ place' = [place EXCEPT ![b] = s]
    /\ held' = held \cup {s}

Confirm(b) ==
    /\ status[b] = "PENDING"
    /\ status' = [status EXCEPT ![b] = "CONFIRMED"]
    /\ UNCHANGED <<place, held>>

\* Cancelling, also of a booking that was completed or cancelled before.  No
\* booking outside B loses its slot.
Cancel(B) ==
    /\ \A b \in B : status[b] # "NONE"
    /\ \A c \in Bookings \ B : Live(c) => \A b \in B : place[b] # place[c]
    /\ status' = [b \in Bookings |-> IF b \in B THEN "CANCELLED" ELSE status[b]]
    /\ held' = held \ {place[b] : b \in B}
    /\ UNCHANGED place

\* Completing never looks at the status again.
Complete(b) ==
    /\ status[b] # "NONE"
    /\ status' = [status EXCEPT ![b] = "COMPLETED"]
    /\ UNCHANGED <<place, held>>

Next ==
    \/ \E b \in Bookings : Confirm(b) \/ Complete(b) \/ \E s \in Slots : Reserve(b, s)
    \/ \E B \in SUBSET Bookings : Cancel(B)

Spec == Init /\ [][Next]_ledger
=============================================================================
