\* A slot after its booking was cancelled.
CONSTANTS
    Users = {u1}
    Turfs = {t1}
    Slots = {s1}
    Bookings = {b1}
    Requests = {r1}
    TurfOf <- MCTurfOf
    MidnightSlots <- MCMidnightSlots
    Events = {"create", "cancel"}
    Nobody = Nobody
    Orphan = Orphan
    NoSlot = NoSlot
    t1 = t1
    late = late
CHECK_DEADLOCK FALSE
SPECIFICATION Spec
INVARIANTS FreeSlotBookable
