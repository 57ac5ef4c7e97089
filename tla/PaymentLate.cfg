\* A failed event that is delivered after the success.
CONSTANTS
    Bookings = {b1}
    Intents = {i1}
    Requests = {r1}
    Events = {"intent", "failed"}
    NoBooking = NoBooking
    NoIntent = NoIntent
CHECK_DEADLOCK FALSE
SPECIFICATION Spec
INVARIANTS ConfirmedIsPaid
