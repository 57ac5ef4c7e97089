\* Completion after a stale read.
CONSTANTS
    Users = {u1}
    Turfs = {t1}
    Slots = {s1}
    Bookings = {b1}
    Requests = {r1, r2}
    TurfOf <- MCTurfOf
    MidnightSlots <- MCMidnightSlots
    Events = {"create", "cancel", "pay", "admin"}
    Nobody = Nobody
    Orphan = Orphan
    NoSlot = NoSlot
    t1 = t1
    late = late
CHECK_DEADLOCK FALSE
SPECIFICATION Spec
PROPERTIES OnlyConfirmedCompletes
