\* One booking and its intent under fairness; the idempotency key does not expire.
CONSTANTS
    Bookings = {b1}
    Intents = {i1}
    Requests = {r1, r2}
    Events = {"intent", "refund", "cancel", "processing", "failed", "refuse", "stop"}
    NoBooking = NoBooking
    NoIntent = NoIntent
CHECK_DEADLOCK FALSE
SPECIFICATION NoticesSpec
INVARIANTS NoticesOK ToldWasCaptured FailureToldOnce
PROPERTIES CaptureRecorded ToldComesTrue ConfirmedIsTold
