\* Two calls of each service; the reports over 2024 and the beginning of 2025.
CONSTANTS
    Requests = {r1, r2}
    Threshold = 2
    MaxFailed = 3
    Tokens = {t1, t2, t3}
    Users = {u1, u2}
    Bookings = {b1, b2, b3}
    NoBooking = NoBooking
    Limit = 2
    UsageLimits = {0, 1, 2}
    UserLimits = {1, 2}
    CouponEvents = {"book", "update", "toggle", "delete", "time", "stop"}
    Nobody = Nobody
    TicksPerDay = 2
    From = 365
    To = 810
    Prices = {0, 1, 5, 99, 100, 1001, 1999}
    Percentages = {0, 1, 1250, 3333, 5000, 10000, 15000}
    Fixed = {0, 1, 100, 5000}
    Caps = {0, 50, 333}
\* The tokens, the reviews and the clock run out; a discount is calculated once.
CHECK_DEADLOCK FALSE
SPECIFICATION ServicesSpec
INVARIANTS TypesOK NoFork EndedStaysEnded AuditTells WalkComplete CountMatches UsedCouponStays EveryRowInOneBucket DashboardAgrees ChargeAndDiscountAddUp
PROPERTIES GuessingLocks LastAdminGoesInARace NextReviewRepairs WithinLimits
