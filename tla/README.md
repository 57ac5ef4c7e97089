# TurfSync: formal models

TurfSync is a NestJS monolith for booking sports turfs: Postgres holds the data
(through Prisma, transactions at READ COMMITTED), Redis holds short locks, a
cache and the Bull queue, Stripe takes the money and reports by webhooks. This
directory holds TLA+ models of its core, the TLC runs that check them and the
TLAPS proofs about them. Paths below are relative to the repository.

## The system

| Component | State | Operations that change it | Hard behaviour | What makes it correct |
| --- | --- | --- | --- | --- |
| booking (`src/booking`) | `bookings`, `slots.isBooked` | create, cancel, sweep of stale bookings (cron, 5 min), completion job (cron, 5 min) | concurrent calls and crons on the same rows, transactions that abort, unlocked reads used later | one live booking per slot; `isBooked` agrees with the bookings; cancelled stays cancelled; unpaid bookings are released |
| redis (`src/redis`) | `lock:*` keys, cache keys | acquire, release (Lua), set, get, delete | keys expire under their owner; a dead process leaves its key | only the owner releases; a call gives its key back however it ends |
| payment (`src/payment`) | `payments`, `webhook_events`, Stripe's intents | create intent, three webhooks, refund | events duplicated, reordered, interrupted; money moves outside the transaction | confirmed means captured; captured means recorded; refunded means settled |
| coupon (`src/coupon`) | `coupons`, `coupon_usages` | validate, apply, create, update, toggle, delete | validated before, counted after the booking commits | counter exact, limits kept, used coupons stay |
| slot (`src/slot`) | `slots` | daily, boot and on-demand generation, weekly cleanup | hours past midnight, generation racing itself, foreign keys | every opening hour has one slot; old slots go |
| turf (`src/turf`) | `turfs`, cache `turf:*`, `slots:available:*` | create, update, remove, cache-aside reads | a read that fills the cache after an invalidation | staleness bounded by the key's lifetime |
| auth (`src/auth`) | `users`, `refresh_tokens` | register, login, refresh, logout, forgot and reset password, nightly cleanup | concurrent refreshes with one token, counters written from stale reads | a session never forks and does not come back; guessing a password locks the account |
| admin (`src/admin`) | roles, `isVerified`, `audit_logs`, completion; reports over all tables | complete booking, promote, demote, toggle | check and write in separate statements; log after the fact; days, weeks and months cut in several ways | only confirmed bookings complete; an administrator remains; the log tells the present; every row counts once |
| review (`src/review`) | `reviews`, `turfs.rating` | create review; paged list | average read and written without a transaction; pages shift while they are read | a later review repairs the rating; no review is missed |
| queue (`src/queue`) | Bull jobs | enqueue, process | enqueued before commit, retried | a message for what really happened |
| mail, sms, upload | none | | | |
| common, health, prisma | none shared | | | |

Interactions. `create` calls coupon (validate, apply), the Redis lock, the
booking transaction, the cache deletion and the queue, in that order. A success
webhook, `cancel`, the sweep, `refund`, the completion job and the
administrator all write the status of the same booking row; only some of them
lock it first. `cancel`, the sweep and `refund` free slots; `create` takes
them; the weekly cleanup deletes them.

## Modules

| Module | Models | Needs |
| --- | --- | --- |
| `Booking` | slots, bookings, the Redis lock; create, cancel, sweep, job, manual completion, refund, and what payment webhooks, turf removal and slot cleanup write to these rows | |
| `BookingLedger` | the abstract promise: reserve, confirm, cancel and complete in one step each | |
| `Payment` | intents, the payments row, webhooks, refund, Stripe and the customer | |
| `Coupon` | one coupon, the bookings made with it, the administrator | |
| `Availability` | the slots of one turf: generation, the cache-aside reads over Redis, what bookings and updates do to both | |
| `Notices` | the jobs about payments: added by the webhook handlers, run by the processor | `Payment` |
| `Accounts` | the row of one user: registration, failed logins and lockout, password reset | |
| `Sessions` | the refresh tokens of one user | |
| `Admin` | roles, verification and the audit log | |
| `Reviews` | the reviews of one turf, its rating, a client that reads page by page | |
| `Reports` | the date arithmetic, the buckets of the revenue report, the dashboard's periods | |
| `Discounts` | the amounts of a coupon: quoted, stored, recorded, charged | |
| `BookingProofs`, `PaymentProofs`, `AvailabilityProofs`, `SessionsProofs` | theorems about the module of that name | TLAPS |
| `NoticesProofs` | theorems about `Notices`, which refines `Payment` | `PaymentProofs` |
| `ReviewsProofs` | lemmas about lists, pages and the steps of `Reviews` | `MCServices` |
| `CouponProofs` | lemmas about the steps of `Coupon` | `MCServices` |
| `ServicesProofs` | lemmas about `Accounts`, `Admin`, `Discounts` and `Reports`; the theorems about the services | `SessionsProofs`, `ReviewsProofs`, `CouponProofs` |
| `MCBooking`, `MCPayment`, `MCNotices`, `MCAvailability` | constants and symmetry for TLC | |
| `MCServices` | composes `Coupon` and `Accounts` to `Discounts`: they share no column, so a behaviour exercises one of them | |

### How the models correspond to the code

A call in progress is an element of `Requests`, and `call[r]` says which
statement it runs next. A step boundary stands wherever another call can run
and change what matters: an `await` on Redis or Stripe, an unlocked read, a
`SELECT ... FOR UPDATE`. A transaction's writes are made by its last step
(nobody sees them earlier at READ COMMITTED); between its locking step and that
step its rows are locked (`SlotLocked`, `RowLocked`), and whoever wants them is
not enabled. Taking a row lock and the reads under it are one step where no
other call can change what is read. A statement that locks several rows takes
them in one step; a deadlock between two such statements is the abort that
Postgres answers with (`TxAborts`).

`Booking`:

* `slotRow` is `slots.isBooked` (or `"deleted"`), `status`, `slotOf`, `owner`
  are columns of `bookings`, `stale` is the comparison of `createdAt` with
  fifteen minutes ago, `phase` the place of the clock relative to the slot.
* `create` is `CreateLock` (SET NX EX), `CreateSelect` (the locked select and
  its checks), `CreateInsert` or `CreateConflict` (the unique `slotId`), and
  `CreateUnlock` (the finally block). `cancel` is `CancelFind`, `CancelLock`,
  `CancelCommit`; the sweep `SweepFind`, `SweepLock`, `SweepCommit`; `refund`
  is `RefundCheck`, `RefundLock`, `RefundCommit`, where what `RefundLock` saw
  (free or keep the slot) is remembered although the slot is not locked. The
  job and the administrator read in one step and write in another.
* The payment row is one bit, `paid`; `Payment` has the rest.

`Payment`: `payment[b]` is the row of booking `b`, `stripe`, `intentFor` and
`keyed` are what Stripe knows, `sent` the events it has emitted. An event that
was not acknowledged can be delivered at any time, and so can one that was. Each
handler is its unlocked read followed by its transaction. `Cancel` stands for
the owner's cancel and the sweep, whose steps are in `Booking`.

`Coupon`: `Validate` is the unlocked validation, `InsertBooking` the commit of
the booking at the discounted price, `Apply` and `ApplyRefused` the locked
transaction. Update, toggle and delete race with them.

`Availability`: `table` is `slots` of one turf, `turf` its row (`rest` stands for
the columns that are not opening hours), `cache` what Redis holds under
`turf:<id>` (`Info`) and `slots:available:<id>:<date>`. A day has `DayHours`
hours; `SlotsFor` is the loop of `generateTurfSlots` with its carry into the
next date. A generation reads the turf (`GenerationReads`) and then inserts date
by date (`Generate`); the clock is left out, so any date or the whole range may
be generated at any time. `getAvailableSlots` is `Lookup`, `ReadTurf`,
`ReadSlots`, perhaps `Generate` and `ReadAgain`, and `Fill`; `findOne` takes the
same way without slots. `Book`, `Release` and `Refund` are the commits of
`Booking` and, for the first two, the deletion that follows them
(`DropDates`). Any call may stop between its steps, which is also what a
swallowed Redis error amounts to. The lists `turf:list:*` are read and deleted
like `turf:<id>`, except those that filter by `availableDate`, which no booking
deletes: they are left out, and live at most their three hundred seconds.

`Notices` adds to `Payment` the queue (`jobs`), the calls whose open transaction
has added its job (`noted`) and the failures recorded but not yet reported
(`owes`). `SuccessNotice` runs while the booking is locked and nothing is
committed: `Stops` after it rolls the transaction back and leaves the job.
`Records` is the transaction of a failure with its answer, `FailedNotice` the
job after it. `Enqueue` may throw, which the code logs and forgets. Bull is a
set of jobs that each run at least once; a job that is given up after repeated
stalls is left out.

`Accounts`: the columns of one row. `LoginFind` is the unlocked read, then
argon2 runs, then `LoginWrong` or `LoginRight` writes from what was read. The
clock moves `lock` from future to past (`LockPasses`), and only a right login or
a reset clears it. `guesses` is history: the wrong logins since the last right one
or reset, whatever the column says.

`Sessions`: `stored` is `refresh_tokens`; `issued`, `first` and `expired` tell
what the JWT itself carries. A refresh is the strategy's lookup
(`RefreshValidate`), which ends in `RefreshRevoke`, `RefreshDrop` or the
service's second lookup (`RefreshFind`), its delete by id (`RefreshDelete`, which
throws when the row is gone) and `Issue`. A row and its token expire together.
A logout succeeds whatever is stored, as `deleteMany` does. `closed` is history:
the sessions that a logout, password reset or revocation has ended while no
refresh of them stood between its delete and its create (`Continues`).

`Admin`: `Enter` is the strategy and the guard, which read the administrator's
role (`Admitted`), and the handlers' comparison of the two users (`OtherTarget`); `Find`, the update and
`CreateAuditLog` are statements of their own. `logged` keeps what the newest
entries say of each user.

`Reviews`: `reviews` is ordered as the list is, newest first; two reviews never
have the same `createdAt`. The average is represented by the set of reviews it
is taken over. The reader asks for pages until one is short; it does not use
`totalPages`, which comes from a second query.

`Reports`: a moment is a number of ticks since the first of January 2023, a
Sunday. `SetUTCDate` is the carry of the JavaScript date; `DateTrunc` is what
Postgres does in a session whose time zone is UTC. Every fourth year is a leap
year, which holds to 2099.

`Discounts`: money in ten-thousandths of a cent, so that a percentage with two
decimals is exact. The code calculates in binary fractions, so half a cent may
go either way (`Rounded`).

Left out on purpose: texts, metrics, logs,
signatures, the cache deletions after a commit in `Booking` (they are in
`Availability`), the audit entry of a manual completion, and the check that the date in
the request is not in the past (nothing relates it to the slot).

## Runs

| Run | What it shows | Bounds |
| --- | --- | --- |
| `BookingOneSlot` | `NoDoubleBooking`, `ActiveHoldsSlot`, `NoGhostHold`, `NoRevival`, `OnlyOwnerReleases`, the inductive invariant, and that `Booking` implements `BookingLedger` | 1 slot, 2 users, 3 bookings, 3 calls, every entry point and fault |
| `BookingFair` | `ConfirmedNotSwept`, `StalePendingResolved`, `LockGivenBack` | 2 slots, 2 bookings, 2 calls: the sweep's sets have two members |
| `BookingReleased` | **violated**: `FreeSlotBookable` | 1 slot, 1 call |
| `BookingCompletes` | **violated**: `OnlyConfirmedCompletes` | 1 slot, 2 calls |
| `BookingMidnight` | **violated**: `CompletedHasEnded` | the slot that ends at 00:00 |
| `Payment` | `ConfirmedWasCaptured`, `RefundedIsSettled`, `CancelledStays`, `DuplicateHarmless` | 1 booking, 2 intents, 2 calls |
| `PaymentFair` | `CaptureRecorded`, and of the notifications `ToldWasCaptured`, `FailureToldOnce`, `ToldComesTrue`, `ConfirmedIsTold` | 1 booking and its intent, 2 calls |
| `Services` | `GuessingLocks`; `NoFork`, `EndedStaysEnded`; `LastAdminGoesInARace`, `AuditTells`; `NextReviewRepairs`, `WalkComplete`; `CountMatches`, `UsedCouponStays`, `WithinLimits`; `EveryRowInOneBucket`, `DashboardAgrees`; `ChargeAndDiscountAddUp` | 2 calls of each service; a lockout after 2 failures; 3 tokens; 2 users; 3 bookings and so 3 reviews, 2 a page; a coupon with limits 0 to 2, 1 or 2 a user; every half day of 2024 and early 2025; 7 prices with 7 percentages (one above 100), 4 fixed amounts, 3 caps |
| `AccountsLockout` | **violated**: `LockedAfterThreshold` | 2 calls, a lockout after 2 failures |
| `PaymentLate` | **violated**: `ConfirmedIsPaid` | 1 intent, 1 call |
| `Availability` | `HeldStaysBooked`, `AnswerComplete`, `PagesConverge` | 2 dates of 2 hours, 3 turf rows, 2 calls, 1 slot that customers book |
| `CouponRace` | **violated**: `DiscountsWithinLimit` | 2 creates, limit 1 |

Why the bounds are enough. Slots meet only in the sweep and the cleanup, which
treat each slot by itself; one slot makes all calls meet on the same rows, and
three calls are one more than any pair that can conflict. Three bookings let a
slot see attempts beyond the one the unique index admits. Bookings share no
payment row, so one booking is enough for `Payment`; the second intent exists
only because the idempotency key can expire. Every event kind is emitted at
most once per intent, so repeated failures of one intent are one failure. A
bound on `Bookings`, `Intents` and event kinds is a set size; the only counters
that are capped are `failedLoginAttempts` and `guesses` (`MaxFailed`, at least
the threshold: no guard tells apart what lies beyond it; the threshold is lowered
to two) and how often a job was added (two stands for more). In `Availability`
two hours make a day that is open all day from its second hour on, so that the
carried hour and the hour of the next date meet in one count, and the slot that
is booked is the carried one; one call that reads and one that writes are what a
stale page takes. In `Services` two calls are what a race takes: for one coupon,
two creates or a create and the administrator. Three tokens let both refreshes
store a successor of one; `Tokens` and `Bookings` are bounds on what is ever
issued, or booked and reviewed. The reports see every day of a leap year, the
turn of the year and the February after it, and two ticks a day tell its first
moment from its last. Users, bookings and calls are interchangeable in safety
runs (symmetry); the runs with fairness use none. Deadlock is checked in the
passing Booking runs and in `Availability`; in the others a finished instance
(all events answered, coupon deleted, tokens used up, clock at its end) really
stops.

Fairness. `BookingFair`: a call in progress goes on, and when it waits for a
row it gets it in turn (strong fairness of its steps: Postgres queues lock
waiters), and the cron fires again and again. Keys may expire in Redis but need
not: `LockGivenBack` is about what `create` does. `StalePendingResolved` assumes that transactions and processes do not fail for
ever. `PaymentFair`: calls go on, and Stripe redelivers an event until it is
answered with success; the property assumes that processes do not stop for ever
and that the idempotency key outlives the payment (it lives twenty-four hours).
Without that last assumption it fails: `createPaymentIntent` then replaces the
intent id of the row, and the success of the first intent finds no row and is
answered (`payment.service.ts:208`).
For the notifications Bull hands out every job in the end (weak fairness of
`Tell`).
`Availability`: calls go on, and Redis expires its keys (every `set` of these
pages has a lifetime of sixty or three hundred seconds).

### What the properties leave open

Some of them are as weak as the code makes them, and say where the limit is:

* `LastAdminGoesInARace`: two administrators who demote each other at the same
  time leave none. Only such a race can: the one who writes last was demoted
  after the guard let him in.
* `NextReviewRepairs`: when two reviews meet, the older average may be written
  last, and a stop between insert and update leaves it stale. The next review
  that meets no other repairs it; nothing else does.
* `AuditTells`: a stop between update and entry loses the entry, and two calls on
  one user may log in the other order, or toggle from the same read. The log is
  right for users to whom neither happened.
* `EndedStaysEnded` is about logouts that find no refresh of the session between
  its delete and its create (`auth.service.ts:180` and `310`). Such a refresh stores
  its new token after `logoutAll` answered "Logged out from all devices"
  (`197-200`), and the session goes on: the model has these behaviours, and the
  property excepts them.
* `GuessingLocks` says that the lockout comes, not when: failures that overlap
  count as one, so it may take more than five (`LockedAfterThreshold`).
* `LockGivenBack` excepts no abort, but a process that dies leaves its key, and only
  its thirty seconds free it.
* `ToldComesTrue`: a text may say "confirmed" before anything is; Stripe's
  redelivery makes it true, unless the booking is cancelled first.
* `ConfirmedIsTold` excepts jobs the queue refused. For failures there is no
  such promise: a process that dies between commit and job never reports it.
* `ChargeAndDiscountAddUp`: the two roundings may differ by a cent. A percentage
  above one hundred, which the DTO admits, puts a discount above the price on
  record; the property says that nothing is charged then, and that no other coupon
  does this.

### What the violated properties say

* `FreeSlotBookable`: `Booking.slotId` is unique and cancelled bookings keep
  their row, so a slot that was booked once and freed can never be booked again.
* `OnlyConfirmedCompletes`: the job and the administrator write COMPLETED on the
  strength of an earlier read; a cancellation in between is overwritten.
* `CompletedHasEnded`: the end of a slot that ends at 00:00 is computed at the
  beginning of its own day.
* `ConfirmedIsPaid`: a failed event of an earlier attempt, applied after the
  success, sets the payment of a confirmed booking to FAILED. With two calls
  there is another way: a `createPaymentIntent` that was under way when the
  payment succeeded sets it back to INITIATED, for good, since the success is
  registered.
* `DiscountsWithinLimit`: the discount is committed before the limit is checked
  under the lock.
* `LockedAfterThreshold`: each wrong login writes the count it read before argon2
  ran, plus one. Five at once leave a count of one and no lockout, where
  `README.md:80` promises one after five failed attempts.

## Proofs

Every invariant that a passing run checks is a theorem, and so is every action
property and both refinements. The theorems hold for every value of the
constants that satisfies the `ConstantsOK` of the module: any number of users,
slots, bookings, intents, reviews and concurrent calls, any page size, lockout
threshold or opening hours. `ConstantsOK` asks for little: sets that are counted
are finite, amounts and limits are natural numbers, the values that stand for
"none" are not members of the sets, `Wanted` dates are dates, and the clock of
the reports runs after 2023 (they look back a year, and the calendar begins
there). TLC evaluates each of them.

### Bookings

`BookingProofs` shows `TypeOK` and the inductive invariant `IInv`. The safety
properties are not inductive by themselves: that a live booking finds its slot
booked depends on there being one row per slot (`OneRowPerSlot`, which is what
the unique index gives), and a create that is about to insert must still find
its slot free (`InsertAlone`), which holds because the slot row is locked from
its select on, whatever became of its Redis lock. With one row per slot a
refund never sees another booking (`NoKeep`), so that its unlocked look does no
harm. From `IInv` follow `NoDoubleBooking`, `ActiveHoldsSlot` and `NoGhostHold`;
`NoRevival` and `OnlyOwnerReleases` need only the types and the step. The
refinement `ImplementsLedger` maps `held` to the booked slots and `place` to
`slotOf`: commits map to ledger steps, all else stutters.

Note what the proof uses: the unique index and the slot's row lock, never the
Redis lock. The lock only keeps losers from waiting in Postgres.

`ConfirmedNotSwept` needs a second invariant, `LocksInv`: two calls never have the
same booking locked (`RowsAlone`), so what a sweep found PENDING under its locks
is PENDING when it commits (`SweepsPending`): every other writer of `status`, the
completion job and the webhook included, waits for the row. `LocksStep` says once
what a step of one call has to show.

### Payments and notifications

`PaymentProofs`: the inductive invariant `PInv` has four parts.

* `StripeInv`: an intent belongs to the booking that it was created for, for
  good, and so does the one that Stripe replays under a key; a success is sent
  only of an intent that was captured.
* `RowsInv`: the intent in a payment row is one of its booking's, and a row that
  says PAID, FAILED or REFUNDED has one.
* `WorkInv`: what a call has read is still true where it matters (`Sees`). A
  success that is about to be committed was not registered before
  (`CommitFresh`), and no other call is about to commit the same one
  (`CommitAlone`): its insert would wait for the unique key of `webhook_events`.
* `Settled`: `ConfirmedWasCaptured` and `RefundedIsSettled`, which need the rest.

`DuplicateHarmless` is `CommitFresh` seen from the step; `CancelledStays` follows
from `Confirms`, which looks at the status under the lock. Both are read off
`StepEffects`, which says what each step does to status and payment.

`NoticesProofs` shows that `Notices` refines `Payment` (`NoticesImplementPayment`):
the queue and its errors are invisible to the books, so `PInv` holds of them
too. `ToldWasCaptured` is inductive with it. `FailureToldOnce` needs that a
failure is owed by the one call whose transaction registered it (`OwesAlone`,
`OwesRegistered`) and that nobody owes what was told (`ToldRegistered`).

### Coupons

The counter equals the number of usage rows (`CountMatches`). `CouponInv`, which
is part of `SvcInv`, adds that each create about to count has a booking of its own that is
not counted yet (`ApplyFresh`, `UsageBooked`). `WithinLimits` follows from the
exact counter and the check under the lock; `UsedCouponStays` rests on the
foreign key, not on the count that `delete` makes. The lemmas are in
`CouponProofs`, the theorems in `ServicesProofs`.

### Slots

`AvailabilityProofs`: `HeldStaysBooked` holds because a generation skips rows that
are there. `AnswerComplete` is the subtle one: `getAvailableSlots` counts the
rows of a date and compares the number with the number of opening hours, and the
number says which hours are there only because a date has rows at opening hours
and no others (`OpenOnly`), wherever midnight falls; then as many rows as hours
is all hours (`OpenHoursBound`, `NotFewIsFilled`). A call that has seen enough
rows, or has generated them, keeps what it knows (`Knows`), since rows are
never deleted and the hours stay the same. The theorem therefore has the
hypothesis `"hours" \notin Events`, under which the run checks it too: after an
update of the opening hours the counts compare different things, and the
property fails.

### The services

A behaviour of `MCServices` is one of each component (`ServicesImplementEach`),
so each has an invariant of its own and `SvcInv` is their conjunction.

* `Accounts` (`AccountInv`): the shape of its row; what the lockout promises is
  model-checked.
* `Sessions` (`SessionInv`, in `SessionsProofs`): the stored tokens are of different
  sessions, no two calls continue one session, and a call which continues a
  session finds none of its tokens in the table (`SInv`). It rests on the delete by
  id that fails for the loser of a race (`DeleteKeeps`), and on each token being
  signed once (`IssueStores`). `EndedStaysEnded` needs in addition that no call
  continues a closed session (`EndsOK`): to continue one takes a token of it that is
  stored, and there is none.
* `Admin` (`AdminInv`): a user on whom no calls met is the concern of one call
  (`OneCaller`), and what that call is going to log is the present state
  (`LogDue`); from these, `AuditTells`. `LastAdminGoesInARace` needs `NotSelf`: who
  demotes the last administrator is not that administrator.
* `Reviews` (`ReviewInv`, in `ReviewsProofs`): the list has no repetitions and new
  reviews come first, so what the reader still has to get is never before its next
  page (`Behind`, `InsertKeeps`); it may see a review twice, but misses none
  (`WalkComplete`). For `NextReviewRepairs`, a call that met nobody has the average
  over all reviews.
* `Discounts` (`DiscountInv`): the two roundings are each within half a cent of the
  exact amounts (`RoundedNear`), and those add up while the discount is at most
  the price; beyond it the charge is cut off at zero.
* `Reports`: the calendar is proved about as arithmetic. Every day is in one month
  (`MonthExists`, `MonthUnique`), months follow upon each other (`MonthsApart`), a
  date set beyond its month carries over (`SetDate`). Then a report is a list of
  distinct first days such that the label of every day of the range is one of them
  (`CutAt`, `Buckets`), shown for days, weeks and months in turn. The run sees
  one leap year; the theorem is about every moment of the calendar, which is that
  of the code until February 2100.

### Only model-checked

`StalePendingResolved`, `LockGivenBack`, `CaptureRecorded`, `ToldComesTrue`,
`ConfirmedIsTold`, `PagesConverge` and `GuessingLocks` are liveness properties, out
of the proof system's reach, which has no rule for `ENABLED`. The violated properties
have counterexamples, which is all there is to show of them.

## Not modelled

* Mail, SMS, upload, health and the Prisma connection: adapters without state.
  The processor's text messages are simulated in the code by a timer.
* The jobs for confirmed and cancelled bookings: they are added after their
  transaction, like `FailedNotice`, and handled like `Tell`.
* `verifyEmail`, whose `emailVerifyToken` no code ever sets, and the profile
  update, a single guarded statement.
* The lists `turf:list:*` with `availableDate` (see above), the duplicate name
  check in `TurfService.create`, the administrator's date filters, plain lists
  and counts.
* JWT signatures, argon2, cookies, guards other than roles, throttling, metrics.

## Plan

All modules of the plan are written and the safety properties of their runs are
proved. What is left:

1. An abstract specification of `Payment` (money is captured, booked, given
   back) like `BookingLedger`, with its refinement: `PInv` has what it needs.
2. The part of the liveness arguments that is safety: that no step makes a call
   wait for a call that waits for it, from `RowsAlone` and the slot locks.
3. What the models leave out of the idempotency key's lifetime and of
   overlapping sweeps.
4. A run that shows the logout which a refresh outlives.

## Running

In this directory: `tlc -config BookingOneSlot.cfg MCBooking.tla` (each run's
module and configuration are in `PROJECT.json`), `tlapm BookingProofs.tla`.
