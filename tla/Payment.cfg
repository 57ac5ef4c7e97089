\* One booking, two intents (the second after the idempotency key expired).
CONSTANTS
    Bookings = {b1}
    Intents = {i1, i2}
    Requests = {r1, r2}
    Events = {"intent", "refund", "cancel", "processing", "failed", "expire", "stop"}
    NoBooking = NoBooking
    NoIntent = NoIntent
CHECK_DEADLOCK FALSE
SYMMETRY Interchangeable
SPECIFICATION Spec
INVARIANTS ConfirmedWasCaptured RefundedIsSettled
PROPERTIES CancelledStays DuplicateHarmless
