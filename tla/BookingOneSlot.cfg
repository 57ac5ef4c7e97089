\* One slot, every entry point and fault: the calls all meet on the same rows.
CONSTANTS
    Users = {u1, u2}
    Turfs = {t1}
    Slots = {s1}
    Bookings = {b1, b2, b3}
    Requests = {r1, r2, r3}
    TurfOf <- MCTurfOf
    MidnightSlots <- MCMidnightSlots
    Events = {"create", "cancel", "sweep", "job", "admin", "refund", "pay",
              "overwrite", "remove", "cleanup", "time", "age", "expire", "abort", "crash"}
    Nobody = Nobody
    Orphan = Orphan
    NoSlot = NoSlot
    t1 = t1
    late = late
SYMMETRY Interchangeable
SPECIFICATION Spec
INVARIANTS TypeOK NoDoubleBooking ActiveHoldsSlot NoGhostHold IInv
PROPERTIES NoRevival OnlyOwnerReleases LedgerSpec
