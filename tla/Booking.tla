------------------------------- MODULE Booking -------------------------------
(***************************************************************************)
(* Slots and the bookings that hold them, as booking.service.ts,           *)
(* booking-complete.job.ts, the refund of payment.service.ts and the       *)
(* manual completion of admin.service.ts write them.                       *)
(*                                                                         *)
(* A call in progress is one element of Requests.  Its steps are the       *)
(* statements between which another call can run: every await on Redis,    *)
(* every unlocked read, every SELECT ... FOR UPDATE.  Postgres runs them   *)
(* at READ COMMITTED, so what a transaction writes is seen at its commit:  *)
(* its writes are made by its last step, and the rows it has written or    *)
(* selected FOR UPDATE are locked until then (SlotLocked, RowLocked).      *)
(* Taking a row lock and the reads that follow it are one step when no     *)
(* other call can change in between what they read.                        *)
(***************************************************************************)
EXTENDS Naturals

CONSTANTS
    Users, Turfs, Slots, Bookings, Requests,
    TurfOf,         \* the turf of each slot
    MidnightSlots,  \* the slots whose endTime column is "00:00"
    Events,         \* the entry points and faults that an instance exercises
    Nobody,         \* no user, no owner of a Redis lock
    Orphan,         \* the owner of a Redis lock that nobody will release
    NoSlot          \* the slot of a booking that does not exist yet

ASSUME ConstantsOK ==
    /\ TurfOf \in [Slots -> Turfs]
    /\ MidnightSlots \subseteq Slots
    /\ Nobody \notin Users \cup Requests \cup {Orphan}
    /\ Orphan \notin Requests
    /\ NoSlot \notin Slots

VARIABLES
    slotRow,     \* the slots table: isBooked of each row, or "deleted"
    phase,       \* where the clock stands relative to each slot
    turfActive,  \* turfs.isActive
    status,      \* bookings.status, "NONE" before the row is inserted
    slotOf,      \* bookings.slotId
    owner,       \* bookings.userId
    stale,       \* the bookings created more than fifteen minutes ago
    paid,        \* whether the payment row of the booking says PAID
    redisLock,   \* the key lock:slot:<id> in Redis: its owner, or Nobody
    call         \* what each call in progress is about to do, and on what

db == <<slotRow, turfActive, status, slotOf, owner, paid>>
clock == <<phase, stale>>
vars == <<slotRow, phase, turfActive, status, slotOf, owner, stale, paid,
          redisLock, call>>

Phases == {"ahead", "today", "started", "ended", "old"}
Statuses == {"NONE", "PENDING", "CONFIRMED", "CANCELLED", "COMPLETED"}

\* The steps of a call that run inside a transaction, by the rows it has locked.
SlotTx == {"insert"}
BookingTx == {"cancel_commit", "sweep_commit", "refund_free", "refund_keep"}
WaitingTx == {"select", "cancel_lock", "sweep_lock", "refund_lock"}
Steps == {"idle", "unlock", "complete", "admin"} \cup SlotTx \cup BookingTx \cup WaitingTx

Calls == [at : Steps, user : Users \cup {Nobody}, slot : Slots \cup {NoSlot},
          work : SUBSET Bookings]
Idle == [at |-> "idle", user |-> Nobody, slot |-> NoSlot, work |-> {}]

TypeOK ==
    /\ slotRow \in [Slots -> {"free", "booked", "deleted"}]
    /\ phase \in [Slots -> Phases]
    /\ turfActive \in [Turfs -> BOOLEAN]
    /\ status \in [Bookings -> Statuses]
    /\ slotOf \in [Bookings -> Slots \cup {NoSlot}]
    /\ owner \in [Bookings -> Users \cup {Nobody}]
    /\ stale \in SUBSET Bookings
    /\ paid \in [Bookings -> BOOLEAN]
    /\ redisLock \in [Slots -> Requests \cup {Nobody, Orphan}]
    /\ call \in [Requests -> Calls]

Init ==
    /\ slotRow = [s \in Slots |-> "free"]
    /\ phase = [s \in Slots |-> "ahead"]
    /\ turfActive = [t \in Turfs |-> TRUE]
    /\ status = [b \in Bookings |-> "NONE"]
    /\ slotOf = [b \in Bookings |-> NoSlot]
    /\ owner = [b \in Bookings |-> Nobody]
    /\ stale = {}
    /\ paid = [b \in Bookings |-> FALSE]
    /\ redisLock = [s \in Slots |-> Nobody]
    /\ call = [r \in Requests |-> Idle]

-----------------------------------------------------------------------------
(* What the queries of the code ask of the tables.                         *)

Exists(b) == status[b] # "NONE"
Active(b) == status[b] \in {"PENDING", "CONFIRMED"}
OnSlot(s) == {b \in Bookings : Exists(b) /\ slotOf[b] = s}
SlotsOf(B) == {slotOf[b] : b \in B}

\* Mutant: the booking being cancelled counts as another one.
ActiveAnywhere(s, B) == \E b \in OnSlot(s) : Active(b)

\* Another booking, outside the set being cancelled, still holds the slot.
ActiveElsewhere(s, B) == \E b \in OnSlot(s) \ B : Active(b)

\* Mutant: the unique index is dropped.
NeverIndexed(s) == FALSE

\* The unique index bookings_slotId_key: an insert for the slot must fail.
SlotIndexed(s) == OnSlot(s) # {}

\* Mutant: the updateMany that frees slots loses its where clause.
ReleasedEverywhere(B) == [s \in Slots |-> IF B # {} THEN "free" ELSE slotRow[s]]

\* The slots table after the bookings B gave up their slots.
Released(B) ==
    [s \in Slots |-> IF s \in SlotsOf(B) /\ ~ActiveElsewhere(s, B)
                     THEN "free" ELSE slotRow[s]]

SlotLocked(s) == \E r \in Requests : call[r].at \in SlotTx /\ call[r].slot = s
RowLocked(b) == \E r \in Requests : call[r].at \in BookingTx /\ b \in call[r].work

At(r, step) == call[r].at = step
Starts(r, event) == event \in Events /\ At(r, "idle")
Goto(r, step) == call' = [call EXCEPT ![r].at = step]
Begin(r, step, B) == call' = [call EXCEPT ![r] = [Idle EXCEPT !.at = step, !.work = B]]
Done(r) == call' = [call EXCEPT ![r] = Idle]

-----------------------------------------------------------------------------
(* BookingService.create                                                   *)

\* SET lock:slot:<id> <uuid> EX 30 NX; when the key exists the call fails.  The
\* date the client sends is checked, but nothing relates it to the slot's date.
CreateLock(r, u, s) ==
    /\ Starts(r, "create")
    /\ redisLock[s] = Nobody
    /\ redisLock' = [redisLock EXCEPT ![s] = r]
    /\ call' = [call EXCEPT ![r] = [at |-> "select", user |-> u, slot |-> s, work |-> {}]]
    /\ UNCHANGED <<db, clock>>

\* The checks made on the selected rows.  Only the slot row is locked: the turf
\* row joined to it is read without a lock.
Bookable(u, s) ==
    /\ slotRow[s] = "free"
    /\ turfActive[TurfOf[s]]
    /\ \A b \in OnSlot(s) : owner[b] = u => status[b] = "CANCELLED"

\* SELECT ... FOR UPDATE OF s, then the checks; a failed check rolls back and
\* leaves by the finally block.
CreateSelect(r) ==
    /\ At(r, "select")
    /\ ~SlotLocked(call[r].slot)
    /\ Goto(r, IF Bookable(call[r].user, call[r].slot) THEN "insert" ELSE "unlock")
    /\ UNCHANGED <<db, clock, redisLock>>

\* isBooked = true, INSERT, COMMIT.
CreateInsert(r) ==
    /\ At(r, "insert")
    /\ LET s == call[r].slot IN
         /\ ~SlotIndexed(s)
         /\ \E b \in Bookings :
              /\ ~Exists(b)
              /\ status' = [status EXCEPT ![b] = "PENDING"]
              /\ slotOf' = [slotOf EXCEPT ![b] = s]
              /\ owner' = [owner EXCEPT ![b] = call[r].user]
         /\ slotRow' = [slotRow EXCEPT ![s] = "booked"]
    /\ Goto(r, "unlock")
    /\ UNCHANGED <<turfActive, paid, clock, redisLock>>

\* The INSERT violates the unique index (P2002): the transaction rolls back.
CreateConflict(r) ==
    /\ At(r, "insert")
    /\ SlotIndexed(call[r].slot)
    /\ Goto(r, "unlock")
    /\ UNCHANGED <<db, clock, redisLock>>

\* Mutant: DEL without comparing the value.
AfterPlainDel(r, s) == [redisLock EXCEPT ![s] = Nobody]

\* Mutant: the value is cleared instead of the key being deleted.
AfterClear(r, s) == [redisLock EXCEPT ![s] = NoSlot]

\* The Redis lock after r's release script ran: the key is deleted only when
\* it still holds the value that r wrote.
AfterRelease(r, s) ==
    IF redisLock[s] = r THEN [redisLock EXCEPT ![s] = Nobody] ELSE redisLock

CreateUnlock(r) ==
    /\ At(r, "unlock")
    /\ redisLock' = AfterRelease(r, call[r].slot)
    /\ Done(r)
    /\ UNCHANGED <<db, clock>>

-----------------------------------------------------------------------------
(* BookingService.cancel                                                   *)

\* The read before the transaction: the booking exists, is the caller's own
\* and is not cancelled.
CancelFind(r, b) ==
    /\ Starts(r, "cancel")
    /\ status[b] \notin {"NONE", "CANCELLED"}
    /\ Begin(r, "cancel_lock", {b})
    /\ UNCHANGED <<db, clock, redisLock>>

\* SELECT ... FOR UPDATE, the second look at the status, UPDATE bookings.
CancelLock(r) ==
    /\ At(r, "cancel_lock")
    /\ \E b \in call[r].work :
         /\ ~RowLocked(b)
         /\ IF status[b] = "CANCELLED" THEN Done(r) ELSE Goto(r, "cancel_commit")
    /\ UNCHANGED <<db, clock, redisLock>>

\* Lock the slot, free it unless another active booking holds it, COMMIT.
CancelCommit(r) ==
    /\ At(r, "cancel_commit")
    /\ LET B == call[r].work IN
         /\ \A s \in SlotsOf(B) : ~SlotLocked(s)
         /\ status' = [b \in Bookings |-> IF b \in B THEN "CANCELLED" ELSE status[b]]
         /\ slotRow' = Released(B)
    /\ Done(r)
    /\ UNCHANGED <<turfActive, slotOf, owner, paid, clock, redisLock>>

-----------------------------------------------------------------------------
(* BookingService.cleanupStalePendingBookings, every five minutes          *)

\* Mutant: createdAt is compared the wrong way round.
SweepFindFresh(r) ==
    /\ Starts(r, "sweep")
    /\ \E b \in Bookings \ stale : status[b] = "PENDING"
    /\ Begin(r, "sweep_lock", {b \in Bookings \ stale : status[b] = "PENDING"})
    /\ UNCHANGED <<db, clock, redisLock>>

\* The unlocked read of the PENDING bookings older than fifteen minutes.
SweepFind(r) ==
    /\ Starts(r, "sweep")
    /\ \E b \in stale : status[b] = "PENDING"
    /\ Begin(r, "sweep_lock", {b \in stale : status[b] = "PENDING"})
    /\ UNCHANGED <<db, clock, redisLock>>

\* Mutant: AND status = 'PENDING' is missing from the locking select.
AllCandidates(B) == B

\* The candidates that are still PENDING when their rows are locked.
StillPending(B) == {b \in B : status[b] = "PENDING"}

SweepLock(r) ==
    /\ At(r, "sweep_lock")
    /\ LET B == StillPending(call[r].work) IN
         /\ \A b \in B : ~RowLocked(b)
         /\ IF B = {} THEN Done(r) ELSE Begin(r, "sweep_commit", B)
    /\ UNCHANGED <<db, clock, redisLock>>

SweepCommit(r) ==
    /\ At(r, "sweep_commit")
    /\ LET B == call[r].work IN
         /\ \A s \in SlotsOf(B) : ~SlotLocked(s)
         /\ status' = [b \in Bookings |-> IF b \in B THEN "CANCELLED" ELSE status[b]]
         /\ slotRow' = Released(B)
    /\ Done(r)
    /\ UNCHANGED <<turfActive, slotOf, owner, paid, clock, redisLock>>

-----------------------------------------------------------------------------
(* Completion: BookingCompleteJob and AdminService.completeBooking         *)

\* now > slot.date with the hour of endTime: a slot that ends at "00:00" is due
\* from the first instant of its own date.
JobDue(s) ==
    IF s \in MidnightSlots THEN phase[s] # "ahead" ELSE phase[s] \in {"ended", "old"}

JobFind(r) ==
    LET due == {b \in Bookings : status[b] = "CONFIRMED" /\ JobDue(slotOf[b])} IN
    /\ Starts(r, "job")
    /\ due # {}
    /\ Begin(r, "complete", due)
    /\ UNCHANGED <<db, clock, redisLock>>

\* One turn of the loop: an UPDATE by id, whatever the status has become.
JobUpdate(r) ==
    /\ At(r, "complete")
    /\ \E b \in call[r].work :
         /\ ~RowLocked(b)
         /\ status' = [status EXCEPT ![b] = "COMPLETED"]
         /\ IF call[r].work = {b} THEN Done(r) ELSE Begin(r, "complete", call[r].work \ {b})
    /\ UNCHANGED <<slotRow, turfActive, slotOf, owner, paid, clock, redisLock>>

AdminFind(r, b) ==
    /\ Starts(r, "admin")
    /\ status[b] = "CONFIRMED"
    /\ Begin(r, "admin", {b})
    /\ UNCHANGED <<db, clock, redisLock>>

AdminUpdate(r) ==
    /\ At(r, "admin")
    /\ \E b \in call[r].work :
         /\ ~RowLocked(b)
         /\ status' = [status EXCEPT ![b] = "COMPLETED"]
    /\ Done(r)
    /\ UNCHANGED <<slotRow, turfActive, slotOf, owner, paid, clock, redisLock>>

-----------------------------------------------------------------------------
(* PaymentService.refund                                                   *)

\* The unlocked checks (PAID, the slot has not started) and the Stripe call.
RefundCheck(r, b) ==
    /\ Starts(r, "refund")
    /\ Exists(b) /\ paid[b]
    /\ phase[slotOf[b]] \in {"ahead", "today"}
    /\ Begin(r, "refund_lock", {b})
    /\ UNCHANGED <<db, clock, redisLock>>

\* Lock and cancel the booking, then look for other active bookings without
\* locking the slot.
RefundLock(r) ==
    /\ At(r, "refund_lock")
    /\ \E b \in call[r].work :
         /\ ~RowLocked(b)
         /\ Goto(r, IF ActiveElsewhere(slotOf[b], {b}) THEN "refund_keep" ELSE "refund_free")
    /\ UNCHANGED <<db, clock, redisLock>>

\* Free the slot (the UPDATE waits for its row) if none was seen, COMMIT.
RefundCommit(r) ==
    /\ call[r].at \in {"refund_free", "refund_keep"}
    /\ \E b \in call[r].work :
         /\ status' = [status EXCEPT ![b] = "CANCELLED"]
         /\ paid' = [paid EXCEPT ![b] = FALSE]
         /\ IF At(r, "refund_free")
            THEN /\ ~SlotLocked(slotOf[b])
                 /\ slotRow' = [slotRow EXCEPT ![slotOf[b]] = "free"]
            ELSE UNCHANGED slotRow
    /\ Done(r)
    /\ UNCHANGED <<turfActive, slotOf, owner, clock, redisLock>>

-----------------------------------------------------------------------------
(* The other writers of these tables                                       *)

\* Mutant: the booking is confirmed without looking at its status again.
PaymentConfirms(b) ==
    /\ "pay" \in Events
    /\ Exists(b) /\ ~paid[b] /\ ~RowLocked(b)
    /\ paid' = [paid EXCEPT ![b] = TRUE]
    /\ status' = [status EXCEPT ![b] = "CONFIRMED"]
    /\ UNCHANGED <<slotRow, turfActive, slotOf, owner, clock, redisLock, call>>

\* The transaction of the payment_intent.succeeded webhook: under the row lock
\* a PENDING booking becomes CONFIRMED, any other only gets its payment PAID.
PaymentSucceeds(b) ==
    /\ "pay" \in Events
    /\ Exists(b) /\ ~paid[b] /\ ~RowLocked(b)
    /\ paid' = [paid EXCEPT ![b] = TRUE]
    /\ status' = IF status[b] = "PENDING" THEN [status EXCEPT ![b] = "CONFIRMED"] ELSE status
    /\ UNCHANGED <<slotRow, turfActive, slotOf, owner, clock, redisLock, call>>

\* A late failed or processing webhook overwrites a PAID payment row.
PaymentOverwritten(b) ==
    /\ "overwrite" \in Events
    /\ paid[b]
    /\ paid' = [paid EXCEPT ![b] = FALSE]
    /\ UNCHANGED <<slotRow, turfActive, status, slotOf, owner, clock, redisLock, call>>

\* TurfService.remove: bookings and slots of the turf stay as they are.
RemoveTurf(t) ==
    /\ "remove" \in Events
    /\ turfActive[t]
    /\ turfActive' = [turfActive EXCEPT ![t] = FALSE]
    /\ UNCHANGED <<slotRow, status, slotOf, owner, paid, clock, redisLock, call>>

\* SlotService.cleanupOldSlots: one DELETE of every free slot older than thirty
\* days.  bookings.slotId is ON DELETE RESTRICT, so one referenced slot among
\* them makes the whole statement fail.
Removable == {s \in Slots : slotRow[s] = "free" /\ phase[s] = "old"}

\* Mutant: the foreign key does not restrict the delete.
CleanupReferenced ==
    /\ "cleanup" \in Events
    /\ Removable # {}
    /\ \A s \in Removable : ~SlotLocked(s)
    /\ slotRow' = [s \in Slots |-> IF s \in Removable THEN "deleted" ELSE slotRow[s]]
    /\ UNCHANGED <<turfActive, status, slotOf, owner, paid, clock, redisLock, call>>

CleanupOldSlots ==
    /\ "cleanup" \in Events
    /\ Removable # {}
    /\ \A s \in Removable : OnSlot(s) = {} /\ ~SlotLocked(s)
    /\ slotRow' = [s \in Slots |-> IF s \in Removable THEN "deleted" ELSE slotRow[s]]
    /\ UNCHANGED <<turfActive, status, slotOf, owner, paid, clock, redisLock, call>>

-----------------------------------------------------------------------------
(* Time and faults                                                         *)

NextPhase ==
    [ahead |-> "today", today |-> "started", started |-> "ended", ended |-> "old"]

SlotTime(s) ==
    /\ "time" \in Events
    /\ phase[s] # "old"
    /\ phase' = [phase EXCEPT ![s] = NextPhase[@]]
    /\ UNCHANGED <<db, stale, redisLock, call>>

Ages(b) ==
    /\ "age" \in Events
    /\ Exists(b) /\ b \notin stale
    /\ stale' = stale \cup {b}
    /\ UNCHANGED <<db, phase, redisLock, call>>

\* The thirty seconds of a Redis lock are over, whatever its owner is doing.
LockExpires(s) ==
    /\ "expire" \in Events
    /\ redisLock[s] # Nobody
    /\ redisLock' = [redisLock EXCEPT ![s] = Nobody]
    /\ UNCHANGED <<db, clock, call>>

\* Mutant: the key is deleted after the transaction instead of in a finally block.
TxAbortsOut(r) ==
    /\ "abort" \in Events
    /\ call[r].at \in SlotTx \cup BookingTx \cup WaitingTx
    /\ Done(r)
    /\ UNCHANGED <<db, clock, redisLock>>

\* A transaction is rolled back: Prisma's timeout, a deadlock or a lost
\* connection.  create leaves by its finally block.
TxAborts(r) ==
    /\ "abort" \in Events
    /\ call[r].at \in SlotTx \cup BookingTx \cup WaitingTx
    /\ IF call[r].at \in {"select", "insert"} THEN Goto(r, "unlock") ELSE Done(r)
    /\ UNCHANGED <<db, clock, redisLock>>

\* The process dies (or the release script fails): Postgres rolls back, Redis
\* keeps the key.
Crash(r) ==
    /\ "crash" \in Events
    /\ ~At(r, "idle")
    /\ redisLock' = [s \in Slots |-> IF redisLock[s] = r THEN Orphan ELSE redisLock[s]]
    /\ Done(r)
    /\ UNCHANGED <<db, clock>>

-----------------------------------------------------------------------------
Step(r) ==
    \/ CreateSelect(r) \/ CreateInsert(r) \/ CreateConflict(r) \/ CreateUnlock(r)
    \/ CancelLock(r) \/ CancelCommit(r)
    \/ SweepLock(r) \/ SweepCommit(r)
    \/ JobUpdate(r) \/ AdminUpdate(r)
    \/ RefundLock(r) \/ RefundCommit(r)

Arrive(r) ==
    \/ \E u \in Users, s \in Slots : CreateLock(r, u, s)
    \/ \E b \in Bookings : CancelFind(r, b) \/ AdminFind(r, b) \/ RefundCheck(r, b)
    \/ SweepFind(r) \/ JobFind(r)

Outside ==
    \/ \E b \in Bookings : PaymentSucceeds(b) \/ PaymentOverwritten(b) \/ Ages(b)
    \/ \E t \in Turfs : RemoveTurf(t)
    \/ \E s \in Slots : SlotTime(s) \/ LockExpires(s)
    \/ CleanupOldSlots

Next ==
    \/ \E r \in Requests : Arrive(r) \/ Step(r) \/ TxAborts(r) \/ Crash(r)
    \/ Outside

Spec == Init /\ [][Next]_vars

\* What the scheduling justifies: a call in progress goes on, a transaction
\* waiting for a row lock gets it in turn, and the cron fires again and again.
Fairness == \A r \in Requests : SF_vars(Step(r)) /\ SF_vars(SweepFind(r))

FairSpec == Spec /\ Fairness

-----------------------------------------------------------------------------
(* Properties                                                              *)

\* At most one live booking per slot, whatever the interleaving of create,
\* cancel, sweep, refund and completion, and also when the Redis lock of a slow
\* create has expired (booking.service.ts create, README "Zero Double Bookings").
NoDoubleBooking ==
    \A b, c \in Bookings : b # c /\ Active(b) /\ Active(c) => slotOf[b] # slotOf[c]

\* A live booking always finds its slot marked as booked: no release path may
\* free a slot under a booking that still holds it.
ActiveHoldsSlot ==
    \A b \in Bookings : Active(b) => slotOf[b] \in Slots /\ slotRow[slotOf[b]] = "booked"

\* A slot marked as booked is held by some booking that was not cancelled: no
\* path that cancels, fails or times out leaves a slot blocked for good.
NoGhostHold ==
    \A s \in Slots : slotRow[s] = "booked" => \E b \in OnSlot(s) : status[b] # "CANCELLED"

\* A booking row never refers to a slot that cleanupOldSlots has deleted.
NoDanglingSlot ==
    \A b \in Bookings : Exists(b) => slotOf[b] \in Slots /\ slotRow[slotOf[b]] # "deleted"

\* A cancelled booking is never live again: a payment that succeeds late, or a
\* stale read of a cron, does not bring it back.
NoRevival ==
    [][\A b \in Bookings : status[b] = "CANCELLED" => status'[b] \notin {"PENDING", "CONFIRMED"}]_vars

\* The sweep never cancels a booking that a payment has confirmed in the
\* meantime: only the owner's cancel or a refund does.
ConfirmedNotSwept ==
    [][\A b \in Bookings : status[b] = "CONFIRMED" /\ status'[b] = "CANCELLED" =>
         \E r \in Requests : /\ call[r].at \in BookingTx \ {"sweep_commit"}
                             /\ b \in call[r].work]_vars

\* A Redis lock disappears only because its owner ends its own call or because
\* it expires, which is no step of any call (releaseLock compares the value).
OnlyOwnerReleases ==
    [][\A s \in Slots, r \in Requests :
         redisLock[s] = r /\ redisLock'[s] # r => call'[r].at = "idle" \/ call' = call]_vars

\* Every booking left unpaid for fifteen minutes stops being PENDING, however
\* the sweep interleaves with payments, cancellations and calls that fail, as
\* long as transactions do not fail for ever (cleanupStalePendingBookings).
FaultsStop == <>[][\A r \in Requests : ~TxAborts(r) /\ ~Crash(r)]_vars

StalePendingResolved ==
    FaultsStop =>
      \A b \in Bookings : (b \in stale /\ status[b] = "PENDING") ~> (status[b] # "PENDING")

\* A create gives its Redis key back by itself, whatever becomes of it: the slot
\* was refused, the INSERT conflicted, or the transaction waited for a cancel or a
\* sweep and timed out (the finally block, booking.service.ts:233-235).  Expiry
\* may come first, but nothing here relies on it.
LockGivenBack ==
    \A s \in Slots, r \in Requests : redisLock[s] = r ~> redisLock[s] # r

\* Only a CONFIRMED booking becomes COMPLETED (admin.service.ts:476).
OnlyConfirmedCompletes ==
    [][\A b \in Bookings :
         status[b] # "COMPLETED" /\ status'[b] = "COMPLETED" => status[b] = "CONFIRMED"]_vars

\* The job completes bookings that have ended (booking-complete.job.ts:11).
CompletedHasEnded ==
    \A b \in Bookings : status[b] = "COMPLETED" => phase[slotOf[b]] \in {"ended", "old"}

\* A released slot can be booked again: no row stands in the way of the insert
\* (booking.service.spec.ts:163).
FreeSlotBookable == \A s \in Slots : slotRow[s] = "free" => ~SlotIndexed(s)

-----------------------------------------------------------------------------
(* The inductive invariant behind the safety properties                    *)

\* What the unique index leaves: one row per slot, cancelled ones included.
OneRowPerSlot ==
    \A b, c \in Bookings : b # c /\ Exists(b) /\ Exists(c) => slotOf[b] # slotOf[c]

\* A create asks for a slot that is, or was, in the table.
SelectsSlot == \A r \in Requests : At(r, "select") => call[r].slot \in Slots

\* A transaction about to insert is alone on its slot, and the slot is free.
InsertAlone ==
    \A r \in Requests : At(r, "insert") =>
        /\ call[r].slot \in Slots
        /\ slotRow[call[r].slot] = "free"
        /\ \A q \in Requests : At(q, "insert") /\ call[q].slot = call[r].slot => q = r

\* Calls work on bookings that exist.
WorkExists == \A r \in Requests : \A b \in call[r].work : Exists(b)

\* A refund never sees another active booking on the slot it frees.
NoKeep == \A r \in Requests : ~At(r, "refund_keep")

IInv ==
    /\ TypeOK /\ OneRowPerSlot /\ NoDanglingSlot /\ ActiveHoldsSlot /\ NoGhostHold
    /\ SelectsSlot /\ InsertAlone /\ WorkExists /\ NoKeep

\* The abstract specification the tables implement.
Ledger == INSTANCE BookingLedger WITH
    place <- slotOf,
    held <- {s \in Slots : slotRow[s] = "booked"}
LedgerSpec == Ledger!Spec
=============================================================================
