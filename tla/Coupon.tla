-------------------------------- MODULE Coupon --------------------------------
(***************************************************************************)
(* One coupon and the bookings made with it, as coupon.service.ts and the  *)
(* coupon steps of BookingService.create write them.                       *)
(*                                                                         *)
(* A create with a coupon code reads the coupon without a lock, commits a  *)
(* booking at the discounted price, and then counts the use in a           *)
(* transaction of its own.  That transaction is one step: it locks the     *)
(* coupon row first, and only its holder inserts usage rows.               *)
(***************************************************************************)
EXTENDS Naturals, FiniteSets

CONSTANTS
    Users, Bookings, Requests,
    Limits,     \* the values of usageLimit; 0 stands for null, no limit
    UserLimits, \* the values of userUsageLimit
    Events,     \* the entry points and faults that an instance exercises
    Nobody,     \* the user of a booking or a usage that does not exist
    NoBooking   \* the booking of a call that has not inserted one

VARIABLES
    coupon,     \* the row of the coupon
    discounted, \* who made each booking at the discounted price
    usage,      \* coupon_usages: the user of the row of each booking
    call        \* what each call in progress is about to do

tables == <<coupon, discounted, usage>>
vars == <<coupon, discounted, usage, call>>

Steps == {"idle", "insert", "apply", "toggle", "delete"}
Calls == [at : Steps, user : Users \cup {Nobody},
          booking : Bookings \cup {NoBooking}, sawActive : BOOLEAN]
Idle == [at |-> "idle", user |-> Nobody, booking |-> NoBooking, sawActive |-> FALSE]

TypeOK ==
    /\ coupon \in [exists : BOOLEAN, active : BOOLEAN, inTime : BOOLEAN,
                   limit : Limits, userLimit : UserLimits,
                   used : 0..Cardinality(Bookings)]
    /\ discounted \in [Bookings -> Users \cup {Nobody}]
    /\ usage \in [Bookings -> Users \cup {Nobody}]
    /\ call \in [Requests -> Calls]

\* A coupon that an administrator has just created.
New == [exists : {TRUE}, active : {TRUE}, inTime : {TRUE},
        limit : Limits, userLimit : UserLimits, used : {0}]

Init ==
    /\ coupon \in New
    /\ discounted = [b \in Bookings |-> Nobody]
    /\ usage = [b \in Bookings |-> Nobody]
    /\ call = [r \in Requests |-> Idle]

-----------------------------------------------------------------------------
Used == {b \in Bookings : usage[b] # Nobody}
UsesOf(u) == Cardinality({b \in Bookings : usage[b] = u})

At(r, step) == call[r].at = step
Starts(r, event) == event \in Events /\ At(r, "idle")
Done(r) == call' = [call EXCEPT ![r] = Idle]

\* Mutant: the user's own limit is left to the validation.
LimitsLeftToAll(u) == coupon.limit = 0 \/ coupon.used < coupon.limit

\* The two limits, as the validation and the transaction check them.
LimitsLeft(u) ==
    /\ coupon.limit = 0 \/ coupon.used < coupon.limit
    /\ UsesOf(u) < coupon.userLimit

\* validateAndCalculate.  The amounts are not modelled: that the order is too
\* small for the coupon is that this call never starts.
Validate(r, u) ==
    /\ Starts(r, "book")
    /\ coupon.exists /\ coupon.active /\ coupon.inTime /\ LimitsLeft(u)
    /\ call' = [call EXCEPT ![r] = [Idle EXCEPT !.at = "insert", !.user = u]]
    /\ UNCHANGED tables

\* The booking transaction commits, at the discounted price.
InsertBooking(r) ==
    /\ At(r, "insert")
    /\ \E b \in Bookings :
         /\ discounted[b] = Nobody
         /\ discounted' = [discounted EXCEPT ![b] = call[r].user]
         /\ call' = [call EXCEPT ![r].at = "apply", ![r].booking = b]
    /\ UNCHANGED <<coupon, usage>>

\* The slot was taken or is being booked: no booking, and nothing to count.
InsertFails(r) == At(r, "insert") /\ Done(r) /\ UNCHANGED tables

\* Mutant: the counter is set from the count of the user's own usages.
CountedByUser(u) == UsesOf(u) + 1

CountedUp(u) == coupon.used + 1

\* applyCoupon: lock, check again, insert the usage row, count, COMMIT.
Apply(r) ==
    LET u == call[r].user IN
    /\ At(r, "apply")
    /\ coupon.exists /\ coupon.active /\ LimitsLeft(u)
    /\ usage' = [usage EXCEPT ![call[r].booking] = u]
    /\ coupon' = [coupon EXCEPT !.used = CountedUp(u)]
    /\ Done(r)
    /\ UNCHANGED discounted

\* A check fails under the lock: create throws, its booking stays.
ApplyRefused(r) ==
    /\ At(r, "apply")
    /\ ~(coupon.exists /\ coupon.active /\ LimitsLeft(call[r].user))
    /\ Done(r)
    /\ UNCHANGED tables

-----------------------------------------------------------------------------
(* The administrator                                                       *)

\* update: one UPDATE of the columns that the body names (the read before it
\* only makes sure that the row exists, as the UPDATE itself does).
Update ==
    /\ "update" \in Events
    /\ coupon.exists
    /\ \E l \in Limits, ul \in UserLimits, t, a \in BOOLEAN :
         coupon' = [coupon EXCEPT !.limit = l, !.userLimit = ul, !.inTime = t, !.active = a]
    /\ UNCHANGED <<discounted, usage, call>>

\* toggleActive: the row is read, then the opposite of what was read is written.
ToggleRead(r) ==
    /\ Starts(r, "toggle")
    /\ coupon.exists
    /\ call' = [call EXCEPT ![r] = [Idle EXCEPT !.at = "toggle", !.sawActive = coupon.active]]
    /\ UNCHANGED tables

ToggleWrite(r) ==
    /\ At(r, "toggle")
    /\ IF coupon.exists THEN coupon' = [coupon EXCEPT !.active = ~call[r].sawActive]
                        ELSE UNCHANGED coupon
    /\ Done(r)
    /\ UNCHANGED <<discounted, usage>>

\* delete: the usages are counted, then the row is deleted unless a usage row
\* refers to it by then (ON DELETE RESTRICT).
DeleteRead(r) ==
    /\ Starts(r, "delete")
    /\ coupon.exists /\ Used = {}
    /\ call' = [call EXCEPT ![r] = [Idle EXCEPT !.at = "delete"]]
    /\ UNCHANGED tables

\* Mutant: the foreign key does not restrict the delete.
DeletableAlways == TRUE

Deletable == Used = {}

DeleteWrite(r) ==
    /\ At(r, "delete")
    /\ IF Deletable THEN coupon' = [coupon EXCEPT !.exists = FALSE] ELSE UNCHANGED coupon
    /\ Done(r)
    /\ UNCHANGED <<discounted, usage>>

-----------------------------------------------------------------------------
\* validUntil has passed.  The transaction that counts a use does not ask.
Expires ==
    /\ "time" \in Events
    /\ coupon.exists /\ coupon.inTime
    /\ coupon' = [coupon EXCEPT !.inTime = FALSE]
    /\ UNCHANGED <<discounted, usage, call>>

\* The process dies, or a statement throws and the transaction rolls back.
Stops(r) ==
    /\ "stop" \in Events
    /\ ~At(r, "idle")
    /\ Done(r)
    /\ UNCHANGED tables

Next ==
    \/ \E r \in Requests :
         \/ \E u \in Users : Validate(r, u)
         \/ InsertBooking(r) \/ InsertFails(r) \/ Apply(r) \/ ApplyRefused(r)
         \/ ToggleRead(r) \/ ToggleWrite(r) \/ DeleteRead(r) \/ DeleteWrite(r)
         \/ Stops(r)
    \/ Update \/ Expires

Spec == Init /\ [][Next]_vars

-----------------------------------------------------------------------------
(* Properties                                                              *)

\* usedCount counts the usage rows exactly, whatever calls interleave with the
\* administrator and wherever they stop (README.md:77 "Atomic Usage Counter").
CountMatches == coupon.used = Cardinality(Used)

\* A use is counted only within both limits in force at that moment, counted
\* together with the uses of every create that was validated at the same time.
WithinLimits ==
    [][\A b \in Bookings : usage[b] = Nobody /\ usage'[b] # Nobody =>
         /\ coupon.limit = 0 \/ Cardinality(Used') <= coupon.limit
         /\ Cardinality({c \in Bookings : usage'[c] = usage'[b]}) <= coupon.userLimit]_vars

\* A coupon that was used is never deleted, although delete counts the usages
\* before it deletes.
UsedCouponStays == Used # {} => coupon.exists

\* No more bookings carry the discount than the coupon allows (README.md:177,
\* of the whole sequence, the booking included).
DiscountsWithinLimit ==
    coupon.limit # 0 =>
        Cardinality({b \in Bookings : discounted[b] # Nobody}) <= coupon.limit
=============================================================================
