\* Two creates with a coupon that may be used once.
CONSTANTS
    Users = {u1, u2}
    Bookings = {b1, b2}
    Requests = {r1, r2}
    Limits = {1}
    UserLimits = {1}
    Events = {"book"}
    Nobody = Nobody
    NoBooking = NoBooking
CHECK_DEADLOCK FALSE
SPECIFICATION Spec
INVARIANTS DiscountsWithinLimit
