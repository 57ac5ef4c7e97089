\* Two slots under fairness: the sweep's batches, with calls that crash.
CONSTANTS
    Users = {u1}
    Turfs = {t1}
    Slots = {s1, s2}
    Bookings = {b1, b2}
    Requests = {r1, r2}
    TurfOf <- MCTurfOf
    MidnightSlots <- MCMidnightSlots
    Events = {"create", "cancel", "sweep", "pay", "age", "expire", "abort", "crash"}
    Nobody = Nobody
    Orphan = Orphan
    NoSlot = NoSlot
    t1 = t1
    late = late
SPECIFICATION FairSpec
PROPERTIES ConfirmedNotSwept StalePendingResolved LockGivenBack
