\* The completion job and a slot that ends at midnight.
CONSTANTS
    Users = {u1}
    Turfs = {t1}
    Slots = {late}
    Bookings = {b1}
    Requests = {r1}
    TurfOf <- MCTurfOf
    MidnightSlots <- MCMidnightSlots
    Events = {"create", "pay", "job", "time"}
    Nobody = Nobody
    Orphan = Orphan
    NoSlot = NoSlot
    t1 = t1
    late = late
CHECK_DEADLOCK FALSE
SPECIFICATION Spec
INVARIANTS CompletedHasEnded
