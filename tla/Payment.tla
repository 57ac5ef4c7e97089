------------------------------- MODULE Payment -------------------------------
(***************************************************************************)
(* Payments as payment.service.ts writes them: payment intents at Stripe,  *)
(* the payments row of each booking, the webhooks by which Stripe reports  *)
(* what became of an intent, and refunds.                                  *)
(*                                                                         *)
(* Stripe delivers an event until it is answered with success, may deliver *)
(* it again after that, and delivers events in any order.  A call of this  *)
(* service is an element of Requests; it stops between any two statements  *)
(* when its process dies.  The bookings table is seen through the status   *)
(* of the bookings and the row lock that the success transaction takes:    *)
(* Booking models the calls behind Cancel.                                 *)
(***************************************************************************)
CONSTANTS
    Bookings, Intents, Requests,
    Events,    \* the entry points and faults that an instance exercises
    NoBooking, \* what a call or an intent that does not exist yet is for
    NoIntent   \* the intent of a booking without payment row

ASSUME ConstantsOK == NoBooking \notin Bookings /\ NoIntent \notin Intents

VARIABLES
    status,      \* bookings.status
    payment,     \* payments: status and stripePaymentIntentId, per bookingId
    stripe,      \* what Stripe knows of each intent
    intentFor,   \* metadata.bookingId of each intent
    keyed,       \* the intent Stripe replays for payment-intent-<bookingId>
    handed,      \* the intents whose client secret was returned to the client
    sent,        \* the events Stripe has emitted
    acked,       \* the events that were answered with success
    registered,  \* webhook_events
    call         \* what each call in progress is about to do, and for what

books == <<status, payment, registered>>
world == <<stripe, intentFor, keyed, handed, sent>>
vars == <<status, payment, stripe, intentFor, keyed, handed, sent, acked, registered, call>>

BookingStates == {"PENDING", "CONFIRMED", "CANCELLED"}
PaymentStates == {"NONE", "INITIATED", "PROCESSING", "PAID", "FAILED", "REFUNDED"}
Kinds == {"processing", "failed", "succeeded"}
Steps == {"idle", "intent_stripe", "intent_upsert", "success_tx", "success_commit",
          "failed_tx", "refund_stripe", "refund_tx"}

\* A call works for a booking; a webhook is about one event, a pair of an intent
\* and a kind.  Stripe emits each kind at most once per intent here (the bound
\* on events), which leaves out only repeated failures of one intent.
Calls == [at : Steps, booking : Bookings \cup {NoBooking},
          intent : Intents \cup {NoIntent}, kind : Kinds \cup {"none"}]
Idle == [at |-> "idle", booking |-> NoBooking, intent |-> NoIntent, kind |-> "none"]

TypeOK ==
    /\ status \in [Bookings -> BookingStates]
    /\ payment \in [Bookings -> [state : PaymentStates, intent : Intents \cup {NoIntent}]]
    /\ stripe \in [Intents -> {"none", "open", "processing", "succeeded", "refunded"}]
    /\ intentFor \in [Intents -> Bookings \cup {NoBooking}]
    /\ keyed \in [Bookings -> Intents \cup {NoIntent}]
    /\ handed \in SUBSET Intents
    /\ sent \in SUBSET (Intents \X Kinds)
    /\ acked \in SUBSET (Intents \X Kinds)
    /\ registered \in SUBSET (Intents \X Kinds)
    /\ call \in [Requests -> Calls]

Init ==
    /\ status = [b \in Bookings |-> "PENDING"]
    /\ payment = [b \in Bookings |-> [state |-> "NONE", intent |-> NoIntent]]
    /\ stripe = [i \in Intents |-> "none"]
    /\ intentFor = [i \in Intents |-> NoBooking]
    /\ keyed = [b \in Bookings |-> NoIntent]
    /\ handed = {}
    /\ sent = {}
    /\ acked = {}
    /\ registered = {}
    /\ call = [r \in Requests |-> Idle]

-----------------------------------------------------------------------------
At(r, step) == call[r].at = step
Goto(r, step) == call' = [call EXCEPT ![r].at = step]
Begin(r, step, b, i, k) ==
    call' = [call EXCEPT ![r] = [at |-> step, booking |-> b, intent |-> i, kind |-> k]]
Done(r) == call' = [call EXCEPT ![r] = Idle]

\* SELECT ... FOR UPDATE on the booking, held by a success transaction.
RowLocked(b) == \E r \in Requests : At(r, "success_commit") /\ call[r].booking = b

\* The unique key of webhook_events: an insert of the same id waits for one
\* that has not committed, and fails on one that has.
Registering(i, k) ==
    \E r \in Requests : At(r, "success_commit") /\ call[r].intent = i /\ call[r].kind = k

\* Mutant: the event id is not registered, so nothing was ever seen.
NeverSeen(i, k) == FALSE

Seen(i, k) == <<i, k>> \in registered

\* The webhook answers 200 and the call is over.
Answered(r, i, k) == acked' = acked \cup {<<i, k>>} /\ Done(r)

\* Mutant: the state is written to the wrong column.
SetWrongColumn(b, state) == payment' = [payment EXCEPT ![b].intent = state]

SetPayment(b, state) == payment' = [payment EXCEPT ![b].state = state]

-----------------------------------------------------------------------------
(* createPaymentIntent: the status of the booking is never looked at       *)

\* Neither 409 (already PAID) nor the stored secret of an INITIATED payment.
Payable(b) == payment[b].state \notin {"PAID", "INITIATED"}

IntentFind(r, b) ==
    /\ "intent" \in Events /\ At(r, "idle")
    /\ Payable(b)
    /\ Begin(r, "intent_stripe", b, NoIntent, "none")
    /\ UNCHANGED <<books, world, acked>>

\* Stripe creates an intent, replays the answer it gave for the same key, or
\* throws (as it does when the instance has no intent left).
IntentStripe(r) ==
    /\ At(r, "intent_stripe")
    /\ LET b == call[r].booking IN
         \/ /\ keyed[b] # NoIntent
            /\ Begin(r, "intent_upsert", b, keyed[b], "none")
            /\ UNCHANGED <<stripe, intentFor, keyed>>
         \/ /\ keyed[b] = NoIntent
            /\ \E i \in Intents : stripe[i] = "none"
            /\ LET i == CHOOSE i \in Intents : stripe[i] = "none" IN
                 /\ stripe' = [stripe EXCEPT ![i] = "open"]
                 /\ intentFor' = [intentFor EXCEPT ![i] = b]
                 /\ keyed' = [keyed EXCEPT ![b] = i]
                 /\ Begin(r, "intent_upsert", b, i, "none")
         \/ /\ Done(r)
            /\ UNCHANGED <<stripe, intentFor, keyed>>
    /\ UNCHANGED <<books, handed, sent, acked>>

\* The upsert overwrites whatever the row has become, then the client gets the
\* secret.
IntentUpsert(r) ==
    /\ At(r, "intent_upsert")
    /\ payment' = [payment EXCEPT ![call[r].booking] =
                     [state |-> "INITIATED", intent |-> call[r].intent]]
    /\ handed' = handed \cup {call[r].intent}
    /\ Done(r)
    /\ UNCHANGED <<status, registered, stripe, intentFor, keyed, sent, acked>>

-----------------------------------------------------------------------------
(* The webhooks                                                            *)

\* Mutant: the switch treats a payment being processed as one that succeeded.
TreatedEarly(k) == k \in {"processing", "succeeded"}

TreatedAsSuccess(k) == k = "succeeded"

\* Mutant: only an INITIATED payment is handled.
HandledUnlessInitiated(b) == payment[b].state # "INITIATED"

\* The early return of handlePaymentSuccess.
AlreadyHandled(b) == payment[b].state = "PAID"

\* handlePaymentSuccess, the unlocked read: without a row for the intent, or
\* with a PAID one, the event is answered and not registered.
SuccessFind(r, i, k) ==
    /\ At(r, "idle") /\ <<i, k>> \in sent /\ TreatedAsSuccess(k)
    /\ \/ /\ \A b \in Bookings : payment[b].intent = i => AlreadyHandled(b)
          /\ Answered(r, i, k)
       \/ \E b \in Bookings :
            /\ payment[b].intent = i /\ ~AlreadyHandled(b)
            /\ Begin(r, "success_tx", b, i, k)
            /\ UNCHANGED acked
    /\ UNCHANGED <<books, world>>

\* The transaction registers the event and locks the booking.
SuccessLock(r) ==
    LET i == call[r].intent
        k == call[r].kind IN
    /\ At(r, "success_tx")
    /\ ~Registering(i, k)
    /\ \/ Seen(i, k) /\ Answered(r, i, k)
       \/ ~Seen(i, k) /\ ~RowLocked(call[r].booking) /\ Goto(r, "success_commit") /\ UNCHANGED acked
    /\ UNCHANGED <<books, world>>

\* Mutant: the booking is confirmed without looking at its status again.
ConfirmsAny(b) == TRUE

\* The check made under the row lock.
Confirms(b) == status[b] = "PENDING"

SuccessCommit(r) ==
    /\ At(r, "success_commit")
    /\ LET b == call[r].booking IN
         /\ SetPayment(b, "PAID")
         /\ status' = IF Confirms(b) THEN [status EXCEPT ![b] = "CONFIRMED"] ELSE status
    /\ registered' = registered \cup {<<call[r].intent, call[r].kind>>}
    /\ Answered(r, call[r].intent, call[r].kind)
    /\ UNCHANGED world

\* handlePaymentFailed, the unlocked read.
FailedFind(r, i) ==
    /\ At(r, "idle") /\ <<i, "failed">> \in sent
    /\ \/ /\ \A b \in Bookings : payment[b].intent # i
          /\ Answered(r, i, "failed")
       \/ \E b \in Bookings :
            /\ payment[b].intent = i
            /\ Begin(r, "failed_tx", b, i, "failed")
            /\ UNCHANGED acked
    /\ UNCHANGED <<books, world>>

\* Its transaction: FAILED, whatever the payment has become.
FailedTx(r) ==
    LET i == call[r].intent IN
    /\ At(r, "failed_tx")
    /\ \/ Seen(i, "failed") /\ UNCHANGED books
       \/ /\ ~Seen(i, "failed")
          /\ registered' = registered \cup {<<i, "failed">>}
          /\ SetPayment(call[r].booking, "FAILED")
          /\ UNCHANGED status
    /\ Answered(r, i, "failed")
    /\ UNCHANGED world

\* handlePaymentProcessing: one transaction, updateMany by intent.
ProcessingTx(r, i) ==
    /\ At(r, "idle") /\ <<i, "processing">> \in sent
    /\ ~Seen(i, "processing")
    /\ registered' = registered \cup {<<i, "processing">>}
    /\ payment' = [b \in Bookings |-> IF payment[b].intent = i
                                      THEN [payment[b] EXCEPT !.state = "PROCESSING"]
                                      ELSE payment[b]]
    /\ Answered(r, i, "processing")
    /\ UNCHANGED <<status, world>>

-----------------------------------------------------------------------------
(* refund                                                                  *)

\* Mutant: the Stripe call is moved behind the transaction.
RefundFindLate(r, b) ==
    /\ "refund" \in Events /\ At(r, "idle")
    /\ payment[b].state = "PAID"
    /\ Begin(r, "refund_tx", b, payment[b].intent, "none")
    /\ UNCHANGED <<books, world, acked>>

\* The unlocked checks.  Whether the slot has started is left to Booking.
RefundFind(r, b) ==
    /\ "refund" \in Events /\ At(r, "idle")
    /\ payment[b].state = "PAID"
    /\ Begin(r, "refund_stripe", b, payment[b].intent, "none")
    /\ UNCHANGED <<books, world, acked>>

\* Stripe refunds a captured intent once; otherwise the call throws.
RefundStripe(r) ==
    LET i == call[r].intent IN
    /\ At(r, "refund_stripe")
    /\ \/ /\ stripe[i] = "succeeded"
          /\ stripe' = [stripe EXCEPT ![i] = "refunded"]
          /\ Goto(r, "refund_tx")
       \/ /\ stripe[i] # "succeeded"
          /\ Done(r)
          /\ UNCHANGED stripe
    /\ UNCHANGED <<books, intentFor, keyed, handed, sent, acked>>

\* Mutant: the booking keeps its status.
RefundPaymentOnly(r) ==
    /\ At(r, "refund_tx")
    /\ ~RowLocked(call[r].booking)
    /\ SetPayment(call[r].booking, "REFUNDED")
    /\ Done(r)
    /\ UNCHANGED <<status, registered, world, acked>>

\* Lock the booking, REFUNDED and CANCELLED, COMMIT.
RefundTx(r) ==
    /\ At(r, "refund_tx")
    /\ ~RowLocked(call[r].booking)
    /\ SetPayment(call[r].booking, "REFUNDED")
    /\ status' = [status EXCEPT ![call[r].booking] = "CANCELLED"]
    /\ Done(r)
    /\ UNCHANGED <<registered, world, acked>>

-----------------------------------------------------------------------------
(* Stripe, the customer, the bookings, faults                              *)

\* The customer confirms an intent with its client secret.
Customer(i, from, to, k) ==
    /\ i \in handed
    /\ stripe[i] \in from
    /\ <<i, k>> \notin sent
    /\ stripe' = [stripe EXCEPT ![i] = to]
    /\ sent' = sent \cup {<<i, k>>}
    /\ UNCHANGED <<books, intentFor, keyed, handed, acked, call>>

Pays(i) == Customer(i, {"open", "processing"}, "succeeded", "succeeded")
Fails(i) == "failed" \in Events /\ Customer(i, {"open", "processing"}, "open", "failed")
Processes(i) == "processing" \in Events /\ Customer(i, {"open"}, "processing", "processing")

\* Stripe forgets an idempotency key after twenty-four hours.
KeyExpires(b) ==
    /\ "expire" \in Events
    /\ keyed[b] # NoIntent
    /\ keyed' = [keyed EXCEPT ![b] = NoIntent]
    /\ UNCHANGED <<books, stripe, intentFor, handed, sent, acked, call>>

\* The owner cancels, or the sweep finds the booking PENDING for too long.
Cancel(b) ==
    /\ "cancel" \in Events
    /\ status[b] # "CANCELLED" /\ ~RowLocked(b)
    /\ status' = [status EXCEPT ![b] = "CANCELLED"]
    /\ UNCHANGED <<payment, registered, world, acked, call>>

\* The process dies, or the transaction is rolled back and the call throws: an
\* event stays unanswered, a refund already made at Stripe stays made.
Stops(r) ==
    /\ "stop" \in Events
    /\ ~At(r, "idle")
    /\ Done(r)
    /\ UNCHANGED <<books, world, acked>>

-----------------------------------------------------------------------------
Webhook(r, i) ==
    \/ \E k \in Kinds : SuccessFind(r, i, k)
    \/ FailedFind(r, i)
    \/ ProcessingTx(r, i)

Step(r) ==
    \/ IntentStripe(r) \/ IntentUpsert(r)
    \/ SuccessLock(r) \/ SuccessCommit(r) \/ FailedTx(r)
    \/ RefundStripe(r) \/ RefundTx(r)

Next ==
    \/ \E r \in Requests :
         \/ Step(r) \/ Stops(r)
         \/ \E i \in Intents : Webhook(r, i)
         \/ \E b \in Bookings : IntentFind(r, b) \/ RefundFind(r, b)
    \/ \E i \in Intents : Pays(i) \/ Fails(i) \/ Processes(i)
    \/ \E b \in Bookings : KeyExpires(b) \/ Cancel(b)

Spec == Init /\ [][Next]_vars

\* A call in progress goes on, in turn when it waits for a row, and Stripe
\* delivers an unanswered event again and again.
Redeliver(r, i) == <<i, "succeeded">> \notin acked /\ SuccessFind(r, i, "succeeded")

Fairness ==
    /\ \A r \in Requests : SF_vars(Step(r))
    /\ \A i \in Intents : SF_vars(\E r \in Requests : Redeliver(r, i))

FairSpec == Spec /\ Fairness

-----------------------------------------------------------------------------
(* Properties                                                              *)

\* A booking is CONFIRMED only after Stripe captured money for it and the event
\* that says so was registered, whatever else was delivered before.
ConfirmedWasCaptured ==
    \A b \in Bookings : status[b] = "CONFIRMED" =>
        \E i \in Intents : /\ intentFor[i] = b
                           /\ stripe[i] \in {"succeeded", "refunded"}
                           /\ <<i, "succeeded">> \in registered

\* A payment that succeeds while its booking is being cancelled or swept does
\* not bring the booking back (handlePaymentSuccess looks again under the lock).
CancelledStays ==
    [][\A b \in Bookings : status[b] = "CANCELLED" => status'[b] = "CANCELLED"]_vars

\* A payment becomes PAID only with an event that was never applied before: a
\* duplicate cannot turn a refunded or failed payment into a paid one.
DuplicateHarmless ==
    [][\A b \in Bookings : payment[b].state # "PAID" /\ payment'[b].state = "PAID" =>
         registered' # registered]_vars

\* A payment called REFUNDED belongs to a cancelled booking, and Stripe did
\* refund an intent of that booking.
RefundedIsSettled ==
    \A b \in Bookings : payment[b].state = "REFUNDED" =>
        /\ status[b] = "CANCELLED"
        /\ \E i \in Intents : intentFor[i] = b /\ stripe[i] = "refunded"

\* Money that Stripe captured reaches the books, however failed, processing and
\* success events, retries of the intent, cancellations and refunds interleave:
\* as long as calls do not stop for ever and the idempotency key outlives the
\* payment, the success of every intent is registered in the end.
StopsEnd == <>[][\A r \in Requests : ~Stops(r)]_vars

CaptureRecorded ==
    StopsEnd =>
      \A i \in Intents : <<i, "succeeded">> \in sent ~> <<i, "succeeded">> \in registered

\* A CONFIRMED booking has a PAID payment (stripe_payment_plan.md:83).
ConfirmedIsPaid ==
    \A b \in Bookings : status[b] = "CONFIRMED" => payment[b].state = "PAID"
=============================================================================
