---------------------------- MODULE PaymentProofs ----------------------------
(***************************************************************************)
(* Theorems about Payment, for every value of its constants: a booking is  *)
(* confirmed only by captured money, a refund settles both sides, a        *)
(* cancelled booking stays cancelled and a duplicate event changes         *)
(* nothing.                                                                *)
(*                                                                         *)
(* The invariant follows an intent through the code: Stripe's metadata, the *)
(* row and every call in progress agree on the booking an intent is for,   *)
(* and a call has seen what it acts on.  An intent belongs to its booking  *)
(* for good, because Stripe hands out only intents that nobody has.        *)
(***************************************************************************)
EXTENDS Payment, TLAPS

\* What Stripe knows: only intents that exist have a booking, the key of a
\* booking replays an intent of that booking, and a success event is sent only
\* when the money was captured.
Owned == \A i \in Intents : intentFor[i] # NoBooking => stripe[i] # "none"
KeyIntent == \A b \in Bookings : keyed[b] # NoIntent => intentFor[keyed[b]] = b
SentCaptured ==
    \A i \in Intents : <<i, "succeeded">> \in sent => stripe[i] \in {"succeeded", "refunded"}

\* The payments row has an intent of its booking as soon as it has a state.
RowIntent ==
    \A b \in Bookings : payment[b].intent # NoIntent => intentFor[payment[b].intent] = b
RowState == \A b \in Bookings : payment[b].state # "NONE" => payment[b].intent # NoIntent

\* What a call in progress has seen, by the step it is at.
SuccessSteps == {"success_tx", "success_commit"}
RowSteps == SuccessSteps \cup {"failed_tx", "refund_stripe", "refund_tx"}
Sees(c) ==
    /\ c.at # "idle" => c.booking \in Bookings
    /\ c.at \in RowSteps \cup {"intent_upsert"} =>
         c.intent \in Intents /\ intentFor[c.intent] = c.booking
    /\ c.at \in RowSteps => payment[c.booking].intent # NoIntent
    /\ c.at \in SuccessSteps => c.kind = "succeeded" /\ <<c.intent, "succeeded">> \in sent
    /\ c.at = "refund_tx" => stripe[c.intent] = "refunded"

\* One transaction at a time registers an event, and none that is registered.
CommitAlone ==
    \A q, r \in Requests :
        At(q, "success_commit") /\ At(r, "success_commit") /\ call[q].intent = call[r].intent
          => q = r
CommitFresh ==
    \A r \in Requests : At(r, "success_commit") =>
        <<call[r].intent, "succeeded">> \notin registered

StripeInv == Owned /\ KeyIntent /\ SentCaptured
RowsInv == RowIntent /\ RowState
WorkInv == (\A r \in Requests : Sees(call[r])) /\ CommitAlone /\ CommitFresh
Settled == ConfirmedWasCaptured /\ RefundedIsSettled

\* The inductive invariant.
PInv == TypeOK /\ StripeInv /\ RowsInv /\ WorkInv /\ Settled

-----------------------------------------------------------------------------
\* A step that only moves one call, to a state in which it has seen what it
\* needs, keeps the invariant.
LEMMA CallMoves ==
    ASSUME PInv, NEW r \in Requests, NEW c \in Calls,
           call' = [call EXCEPT ![r] = c], UNCHANGED <<books, world>>,
           acked' \in SUBSET (Intents \X Kinds),
           Sees(c),
           c.at = "success_commit" =>
             /\ <<c.intent, "succeeded">> \notin registered
             /\ \A q \in Requests : At(q, "success_commit") => call[q].intent # c.intent
    PROVE PInv'
<1>1. TypeOK'
  BY DEF PInv, TypeOK, books, world
<1>2. \A q \in Requests : call'[q] = IF q = r THEN c ELSE call[q]
  BY DEF PInv, TypeOK
<1>3. StripeInv' /\ RowsInv'
  BY DEF PInv, StripeInv, RowsInv, Owned, KeyIntent, SentCaptured, RowIntent, RowState,
         books, world
<1>4. \A q \in Requests : Sees(call[q])'
  BY <1>2 DEF PInv, WorkInv, Sees, books, world
<1>5. CommitAlone' /\ CommitFresh'
  BY <1>2 DEF PInv, WorkInv, CommitAlone, CommitFresh, At, books, world
<1>6. Settled'
  BY DEF PInv, Settled, ConfirmedWasCaptured, RefundedIsSettled, books, world
<1>7. QED
  BY <1>1, <1>3, <1>4, <1>5, <1>6 DEF PInv, WorkInv

\* The three ways in which a call moves.
LEMMA IdleMoves ==
    ASSUME PInv, NEW r \in Requests, Done(r), UNCHANGED <<books, world>>,
           acked' \in SUBSET (Intents \X Kinds)
    PROVE PInv'
<1>1. Idle \in Calls /\ Sees(Idle) /\ Idle.at # "success_commit"
  BY DEF Idle, Calls, Steps, Sees, RowSteps, SuccessSteps
<1>2. QED
  BY <1>1, CallMoves DEF Done

LEMMA BeginMoves ==
    ASSUME PInv, NEW r \in Requests, NEW step \in Steps \ {"success_commit"},
           NEW b \in Bookings, NEW i \in Intents \cup {NoIntent}, NEW k \in Kinds \cup {"none"},
           Begin(r, step, b, i, k), UNCHANGED <<books, world, acked>>,
           Sees([at |-> step, booking |-> b, intent |-> i, kind |-> k])
    PROVE PInv'
<1>1. [at |-> step, booking |-> b, intent |-> i, kind |-> k] \in Calls
  BY DEF Calls
<1>2. acked' \in SUBSET (Intents \X Kinds)
  BY DEF PInv, TypeOK
<1>3. QED
  BY <1>1, <1>2, CallMoves DEF Begin

\* The typed call of r, and the record it becomes.
LEMMA GotoFact ==
    ASSUME PInv, NEW r \in Requests, NEW step \in Steps, Goto(r, step)
    PROVE  LET c == [at |-> step, booking |-> call[r].booking, intent |-> call[r].intent,
                     kind |-> call[r].kind]
           IN c \in Calls /\ call' = [call EXCEPT ![r] = c]
<1>1. call[r] \in Calls
  BY DEF PInv, TypeOK
<1>2. [call[r] EXCEPT !.at = step] =
        [at |-> step, booking |-> call[r].booking, intent |-> call[r].intent,
         kind |-> call[r].kind]
  BY <1>1 DEF Calls
<1>3. QED
  BY <1>1, <1>2 DEF Goto, Calls

-----------------------------------------------------------------------------
(* One lemma per action that is not a mere move                            *)

LEMMA SuccessFindKeeps ==
    ASSUME PInv, NEW r \in Requests, NEW i \in Intents, NEW k \in Kinds, SuccessFind(r, i, k)
    PROVE PInv'
<1>1. CASE Answered(r, i, k)
  BY <1>1, IdleMoves DEF SuccessFind, Answered, PInv, TypeOK
<1>2. ASSUME NEW b \in Bookings, payment[b].intent = i, Begin(r, "success_tx", b, i, k),
             UNCHANGED acked
      PROVE PInv'
  <2>1. k = "succeeded" /\ <<i, "succeeded">> \in sent
    BY DEF SuccessFind, TreatedAsSuccess
  <2>2. i # NoIntent /\ intentFor[i] = b
    BY <1>2, ConstantsOK DEF PInv, RowsInv, RowIntent
  <2>3. Sees([at |-> "success_tx", booking |-> b, intent |-> i, kind |-> k])
    BY <1>2, <2>1, <2>2 DEF Sees, RowSteps, SuccessSteps
  <2>4. QED
    BY <1>2, <2>3, BeginMoves DEF SuccessFind, Steps
<1>3. QED
  BY <1>1, <1>2 DEF SuccessFind

LEMMA FailedFindKeeps ==
    ASSUME PInv, NEW r \in Requests, NEW i \in Intents, FailedFind(r, i)
    PROVE PInv'
<1>1. CASE Answered(r, i, "failed")
  BY <1>1, IdleMoves DEF FailedFind, Answered, PInv, TypeOK, Kinds
<1>2. ASSUME NEW b \in Bookings, payment[b].intent = i, Begin(r, "failed_tx", b, i, "failed"),
             UNCHANGED acked
      PROVE PInv'
  <2>1. i # NoIntent /\ intentFor[i] = b
    BY <1>2, ConstantsOK DEF PInv, RowsInv, RowIntent
  <2>2. Sees([at |-> "failed_tx", booking |-> b, intent |-> i, kind |-> "failed"])
    BY <1>2, <2>1 DEF Sees, RowSteps, SuccessSteps
  <2>3. QED
    BY <1>2, <2>2, BeginMoves DEF FailedFind, Steps, Kinds
<1>3. QED
  BY <1>1, <1>2 DEF FailedFind

LEMMA SuccessLockKeeps ==
    ASSUME PInv, NEW r \in Requests, SuccessLock(r)
    PROVE PInv'
<1> DEFINE i == call[r].intent
           c == [at |-> "success_commit", booking |-> call[r].booking, intent |-> i,
                 kind |-> call[r].kind]
<1>1. At(r, "success_tx") /\ Sees(call[r]) /\ call[r] \in Calls
  BY DEF SuccessLock, PInv, TypeOK, WorkInv
<1>2. i \in Intents /\ call[r].kind = "succeeded"
  BY <1>1 DEF Sees, At, RowSteps, SuccessSteps
<1>3. CASE Seen(i, call[r].kind) /\ Answered(r, i, call[r].kind)
  BY <1>2, <1>3, IdleMoves DEF SuccessLock, Answered, PInv, TypeOK, Kinds
<1>4. CASE ~Seen(i, call[r].kind) /\ Goto(r, "success_commit") /\ UNCHANGED acked
  <2>1. c \in Calls /\ call' = [call EXCEPT ![r] = c]
    BY <1>4, GotoFact DEF Steps
  <2>2. Sees(c)
    BY <1>1 DEF Sees, At, RowSteps, SuccessSteps
  <2>3. <<i, "succeeded">> \notin registered
    BY <1>2, <1>4 DEF Seen
  <2>4. \A q \in Requests : At(q, "success_commit") => call[q].intent # i
    <3> SUFFICES ASSUME NEW q \in Requests, At(q, "success_commit"), call[q].intent = i
                 PROVE FALSE
      OBVIOUS
    <3>1. call[q].kind = "succeeded"
      BY DEF PInv, WorkInv, Sees, At, RowSteps, SuccessSteps
    <3>2. QED
      BY <1>2, <3>1 DEF SuccessLock, Registering
  <2>5. acked' \in SUBSET (Intents \X Kinds)
    BY <1>4 DEF PInv, TypeOK
  <2>6. QED
    BY <2>1, <2>2, <2>3, <2>4, <2>5, CallMoves DEF SuccessLock
<1>5. QED
  BY <1>3, <1>4 DEF SuccessLock

\* The facts about the call that acts, and about those that do not.
LEMMA DoneFact ==
    ASSUME PInv, NEW r \in Requests, Done(r)
    PROVE  /\ call' \in [Requests -> Calls]
           /\ call'[r] = Idle
           /\ \A q \in Requests \ {r} : call'[q] = call[q]
<1>1. Idle \in Calls
  BY DEF Idle, Calls, Steps
<1>2. QED
  BY <1>1 DEF Done, PInv, TypeOK

\* A step that ends the call r keeps what the others have seen, as long as no
\* intent changes hands, no row loses its intent and no refund is taken back.
LEMMA OthersSee ==
    ASSUME PInv, NEW r \in Requests, Done(r),
           \A i \in Intents : intentFor[i] # NoBooking => intentFor'[i] = intentFor[i],
           \A i \in Intents : stripe[i] = "refunded" => stripe'[i] = "refunded",
           \A b \in Bookings : payment[b].intent # NoIntent => payment'[b].intent # NoIntent,
           sent \subseteq sent',
           \A q \in Requests \ {r} : At(q, "success_commit") =>
             (<<call[q].intent, "succeeded">> \in registered'
                => <<call[q].intent, "succeeded">> \in registered)
    PROVE WorkInv'
<1>1. Idle.at = "idle"
  BY DEF Idle
<1>2. \A q \in Requests : Sees(call[q])'
  <2> SUFFICES ASSUME NEW q \in Requests PROVE Sees(call[q])'
    OBVIOUS
  <2>1. CASE q = r
    BY <1>1, <2>1, DoneFact DEF Sees, RowSteps, SuccessSteps
  <2>2. CASE q # r
    <3>1. Sees(call[q]) /\ call'[q] = call[q]
      BY <2>2, DoneFact DEF PInv, WorkInv
    <3>2. call[q].at # "idle" => call[q].booking \in Bookings /\ call[q].booking # NoBooking
      BY <3>1, ConstantsOK DEF Sees
    <3>3. QED
      BY <3>1, <3>2 DEF Sees, RowSteps, SuccessSteps
  <2>3. QED
    BY <2>1, <2>2
<1>3. CommitAlone' /\ CommitFresh'
  BY <1>1, DoneFact DEF PInv, WorkInv, CommitAlone, CommitFresh, At
<1>4. QED
  BY <1>2, <1>3 DEF WorkInv

\* The upsert gives the row the intent that was created for its booking.
LEMMA IntentUpsertKeeps ==
    ASSUME PInv, NEW r \in Requests, IntentUpsert(r)
    PROVE PInv'
<1> DEFINE b == call[r].booking
           i == call[r].intent
<1>1. b \in Bookings /\ i \in Intents /\ intentFor[i] = b /\ i # NoIntent
  <2>1. Sees(call[r]) /\ call[r].at = "intent_upsert"
    BY DEF IntentUpsert, At, PInv, WorkInv
  <2>2. QED
    BY <2>1, ConstantsOK DEF Sees
<1>2. /\ payment' = [payment EXCEPT ![b] = [state |-> "INITIATED", intent |-> i]]
      /\ handed' = handed \cup {i} /\ Done(r)
      /\ UNCHANGED <<status, registered, stripe, intentFor, keyed, sent, acked>>
  BY DEF IntentUpsert
<1>3. \A c \in Bookings :
        payment'[c] = IF c = b THEN [state |-> "INITIATED", intent |-> i] ELSE payment[c]
  BY <1>1, <1>2 DEF PInv, TypeOK
<1>4. TypeOK'
  BY <1>1, <1>2, DoneFact DEF PInv, TypeOK, PaymentStates
<1>5. StripeInv'
  BY <1>2 DEF PInv, StripeInv, Owned, KeyIntent, SentCaptured
<1>6. RowsInv'
  BY <1>1, <1>2, <1>3 DEF PInv, RowsInv, RowIntent, RowState
<1>7. WorkInv'
  BY <1>1, <1>2, <1>3, OthersSee
<1>8. Settled'
  BY <1>2, <1>3 DEF PInv, Settled, ConfirmedWasCaptured, RefundedIsSettled
<1>9. QED
  BY <1>4, <1>5, <1>6, <1>7, <1>8 DEF PInv

\* What SetPayment does to the rows.
LEMMA SetPaymentFact ==
    ASSUME PInv, NEW b \in Bookings, NEW state \in PaymentStates, SetPayment(b, state)
    PROVE  /\ payment' \in [Bookings -> [state : PaymentStates, intent : Intents \cup {NoIntent}]]
           /\ \A c \in Bookings : payment'[c].intent = payment[c].intent
           /\ payment'[b].state = state
           /\ \A c \in Bookings \ {b} : payment'[c] = payment[c]
<1>1. payment[b] \in [state : PaymentStates, intent : Intents \cup {NoIntent}]
  BY DEF PInv, TypeOK
<1>2. QED
  BY <1>1 DEF SetPayment, PInv, TypeOK

\* The transaction confirms only what is PENDING, by money that was captured.
LEMMA SuccessCommitKeeps ==
    ASSUME PInv, NEW r \in Requests, SuccessCommit(r)
    PROVE PInv'
<1> DEFINE b == call[r].booking
           i == call[r].intent
<1>1. Sees(call[r]) /\ At(r, "success_commit")
  BY DEF SuccessCommit, PInv, WorkInv
<1>2. /\ b \in Bookings /\ i \in Intents /\ intentFor[i] = b /\ payment[b].intent # NoIntent
      /\ call[r].kind = "succeeded" /\ stripe[i] \in {"succeeded", "refunded"}
  BY <1>1 DEF Sees, At, RowSteps, SuccessSteps, PInv, StripeInv, SentCaptured
<1>3. /\ SetPayment(b, "PAID") /\ Done(r)
      /\ status' = IF Confirms(b) THEN [status EXCEPT ![b] = "CONFIRMED"] ELSE status
      /\ registered' = registered \cup {<<i, "succeeded">>}
      /\ acked' = acked \cup {<<i, "succeeded">>}
      /\ UNCHANGED world
  BY <1>2 DEF SuccessCommit, Answered
<1>4. /\ payment' \in [Bookings -> [state : PaymentStates, intent : Intents \cup {NoIntent}]]
      /\ \A c \in Bookings : payment'[c].intent = payment[c].intent
      /\ payment'[b].state = "PAID"
      /\ \A c \in Bookings \ {b} : payment'[c] = payment[c]
  BY <1>2, <1>3, SetPaymentFact DEF PaymentStates
<1>5. TypeOK'
  BY <1>2, <1>3, <1>4, DoneFact DEF PInv, TypeOK, Kinds, BookingStates, world
<1>6. StripeInv'
  BY <1>3 DEF PInv, StripeInv, Owned, KeyIntent, SentCaptured, world
<1>7. RowsInv'
  BY <1>2, <1>3, <1>4 DEF PInv, RowsInv, RowIntent, RowState, world
<1>8. WorkInv'
  <2>1. \A q \in Requests \ {r} : At(q, "success_commit") => call[q].intent # i
    BY <1>1 DEF PInv, WorkInv, CommitAlone
  <2>2. QED
    BY <1>3, <1>4, <2>1, OthersSee DEF world
<1>9. \A c \in Bookings :
        status'[c] = IF c = b /\ status[b] = "PENDING" THEN "CONFIRMED" ELSE status[c]
  BY <1>2, <1>3 DEF Confirms, PInv, TypeOK
<1>10. ConfirmedWasCaptured'
  <2> SUFFICES ASSUME NEW c \in Bookings, status'[c] = "CONFIRMED"
               PROVE \E j \in Intents : /\ intentFor'[j] = c
                                        /\ stripe'[j] \in {"succeeded", "refunded"}
                                        /\ <<j, "succeeded">> \in registered'
    BY DEF ConfirmedWasCaptured
  <2>1. CASE c = b
    BY <1>2, <1>3, <2>1 DEF world
  <2>2. CASE c # b
    BY <1>3, <1>9, <2>2 DEF PInv, Settled, ConfirmedWasCaptured, world
  <2>3. QED
    BY <2>1, <2>2
<1>11. RefundedIsSettled'
  BY <1>2, <1>3, <1>4, <1>9 DEF PInv, Settled, RefundedIsSettled, world
<1>12. QED
  BY <1>5, <1>6, <1>7, <1>8, <1>10, <1>11 DEF PInv, Settled

\* A failure writes the row, whatever it has become, and nothing else.
LEMMA FailedTxKeeps ==
    ASSUME PInv, NEW r \in Requests, FailedTx(r)
    PROVE PInv'
<1> DEFINE b == call[r].booking
           i == call[r].intent
<1>1. b \in Bookings /\ i \in Intents /\ payment[b].intent # NoIntent
  BY DEF FailedTx, At, PInv, WorkInv, Sees, RowSteps
<1>2. Answered(r, i, "failed") /\ UNCHANGED world
  BY DEF FailedTx
<1>3. CASE UNCHANGED books
  BY <1>1, <1>2, <1>3, IdleMoves DEF Answered, PInv, TypeOK, Kinds
<1>4. CASE registered' = registered \cup {<<i, "failed">>} /\ SetPayment(b, "FAILED")
             /\ UNCHANGED status
  <2>1. /\ payment' \in [Bookings -> [state : PaymentStates, intent : Intents \cup {NoIntent}]]
        /\ \A c \in Bookings : payment'[c].intent = payment[c].intent
        /\ payment'[b].state = "FAILED"
        /\ \A c \in Bookings \ {b} : payment'[c] = payment[c]
    BY <1>1, <1>4, SetPaymentFact DEF PaymentStates
  <2>2. TypeOK'
    BY <1>1, <1>2, <1>4, <2>1, DoneFact DEF Answered, PInv, TypeOK, Kinds, world
  <2>3. StripeInv'
    BY <1>2 DEF PInv, StripeInv, Owned, KeyIntent, SentCaptured, world
  <2>4. RowsInv'
    BY <1>1, <1>2, <2>1 DEF PInv, RowsInv, RowIntent, RowState, world
  <2>5. WorkInv'
    BY <1>2, <1>4, <2>1, OthersSee DEF Answered, world
  <2>6. Settled'
    <3>1. ConfirmedWasCaptured'
      BY <1>2, <1>4 DEF PInv, Settled, ConfirmedWasCaptured, world
    <3>2. RefundedIsSettled'
      BY <1>2, <1>4, <2>1 DEF PInv, Settled, RefundedIsSettled, world
    <3>3. QED
      BY <3>1, <3>2 DEF Settled
  <2>7. QED
    BY <2>2, <2>3, <2>4, <2>5, <2>6 DEF PInv
<1>5. QED
  BY <1>3, <1>4 DEF FailedTx

\* The same for the rows of the intent that is being processed.
LEMMA ProcessingTxKeeps ==
    ASSUME PInv, NEW r \in Requests, NEW i \in Intents, ProcessingTx(r, i)
    PROVE PInv'
<1>1. /\ registered' = registered \cup {<<i, "processing">>}
      /\ acked' = acked \cup {<<i, "processing">>} /\ Done(r)
      /\ UNCHANGED <<status, world>>
  BY DEF ProcessingTx, Answered
<1>2. /\ payment' \in [Bookings -> [state : PaymentStates, intent : Intents \cup {NoIntent}]]
      /\ \A c \in Bookings : /\ payment'[c].intent = payment[c].intent
                             /\ payment'[c] = payment[c] \/ payment'[c].state = "PROCESSING"
                             /\ payment[c].intent # i => payment'[c] = payment[c]
  <2>1. \A c \in Bookings :
          payment[c] \in [state : PaymentStates, intent : Intents \cup {NoIntent}]
    BY DEF PInv, TypeOK
  <2>2. "PROCESSING" \in PaymentStates
    BY DEF PaymentStates
  <2>3. QED
    BY <2>1, <2>2 DEF ProcessingTx
<1>3. TypeOK'
  BY <1>1, <1>2, DoneFact DEF PInv, TypeOK, Kinds, world
<1>4. StripeInv'
  BY <1>1 DEF PInv, StripeInv, Owned, KeyIntent, SentCaptured, world
<1>5. RowsInv'
  BY <1>1, <1>2, ConstantsOK DEF PInv, RowsInv, RowIntent, RowState, world
<1>6. WorkInv'
  BY <1>1, <1>2, OthersSee DEF world
<1>7. ConfirmedWasCaptured'
  BY <1>1 DEF PInv, Settled, ConfirmedWasCaptured, world
<1>8. RefundedIsSettled'
  BY <1>1, <1>2 DEF PInv, Settled, RefundedIsSettled, world
<1>9. QED
  BY <1>3, <1>4, <1>5, <1>6, <1>7, <1>8 DEF PInv, Settled

\* A PAID row has an intent.
LEMMA RefundFindKeeps ==
    ASSUME PInv, NEW r \in Requests, NEW b \in Bookings, RefundFind(r, b)
    PROVE PInv'
<1> DEFINE i == payment[b].intent
<1>1. i \in Intents /\ i # NoIntent /\ intentFor[i] = b
  BY DEF RefundFind, PInv, TypeOK, RowsInv, RowIntent, RowState
<1>2. Sees([at |-> "refund_stripe", booking |-> b, intent |-> i, kind |-> "none"])
  BY <1>1 DEF Sees, RowSteps, SuccessSteps
<1>3. QED
  BY <1>1, <1>2, BeginMoves DEF RefundFind, Steps

\* Stripe takes a captured intent back, once.
LEMMA RefundStripeKeeps ==
    ASSUME PInv, NEW r \in Requests, RefundStripe(r)
    PROVE PInv'
<1> DEFINE i == call[r].intent
           c == [at |-> "refund_tx", booking |-> call[r].booking, intent |-> i,
                 kind |-> call[r].kind]
<1>1. Sees(call[r]) /\ call[r] \in Calls /\ call[r].at = "refund_stripe"
  BY DEF RefundStripe, At, PInv, TypeOK, WorkInv
<1>2. CASE Done(r) /\ UNCHANGED stripe
  BY <1>2, IdleMoves DEF RefundStripe, PInv, TypeOK, world
<1>3. CASE stripe[i] = "succeeded" /\ stripe' = [stripe EXCEPT ![i] = "refunded"]
             /\ Goto(r, "refund_tx")
  <2>1. c \in Calls /\ call' = [call EXCEPT ![r] = c]
    BY <1>3, GotoFact DEF Steps
  <2>2. \A q \in Requests : call'[q] = IF q = r THEN c ELSE call[q]
    BY <2>1 DEF PInv, TypeOK
  <2>3. i \in Intents
    BY <1>1 DEF Sees, RowSteps
  <2>4. \A j \in Intents : stripe'[j] = IF j = i THEN "refunded" ELSE stripe[j]
    BY <1>3, <2>3 DEF PInv, TypeOK
  <2>5. UNCHANGED <<books, intentFor, keyed, handed, sent, acked>>
    BY DEF RefundStripe
  <2>6. TypeOK'
    BY <1>3, <2>1, <2>5 DEF PInv, TypeOK, books
  <2>7. StripeInv'
    BY <2>4, <2>5 DEF PInv, StripeInv, Owned, KeyIntent, SentCaptured
  <2>8. RowsInv'
    BY <2>5 DEF PInv, RowsInv, RowIntent, RowState, books
  <2>9. \A q \in Requests : Sees(call[q])'
    <3> SUFFICES ASSUME NEW q \in Requests PROVE Sees(call[q])'
      OBVIOUS
    <3>1. CASE q = r
      BY <1>1, <2>2, <2>3, <2>4, <2>5, <3>1 DEF Sees, RowSteps, SuccessSteps, books
    <3>2. CASE q # r
      <4>1. Sees(call[q]) /\ call'[q] = call[q]
        BY <2>2, <3>2 DEF PInv, WorkInv
      <4>2. QED
        BY <4>1, <2>4, <2>5 DEF Sees, RowSteps, SuccessSteps, books
    <3>3. QED
      BY <3>1, <3>2
  <2>10. CommitAlone' /\ CommitFresh'
    BY <2>2, <2>5 DEF PInv, WorkInv, CommitAlone, CommitFresh, At, books
  <2>11. ConfirmedWasCaptured'
    BY <2>4, <2>5 DEF PInv, Settled, ConfirmedWasCaptured, books
  <2>12. RefundedIsSettled'
    BY <2>4, <2>5 DEF PInv, Settled, RefundedIsSettled, books
  <2>13. QED
    BY <2>6, <2>7, <2>8, <2>9, <2>10, <2>11, <2>12 DEF PInv, WorkInv, Settled
<1>4. QED
  BY <1>2, <1>3 DEF RefundStripe

\* The row and the booking are settled in one transaction, after Stripe.
LEMMA RefundTxKeeps ==
    ASSUME PInv, NEW r \in Requests, RefundTx(r)
    PROVE PInv'
<1> DEFINE b == call[r].booking
           i == call[r].intent
<1>1. /\ b \in Bookings /\ i \in Intents /\ intentFor[i] = b
      /\ payment[b].intent # NoIntent /\ stripe[i] = "refunded"
  BY DEF RefundTx, At, PInv, WorkInv, Sees, RowSteps
<1>2. /\ SetPayment(b, "REFUNDED") /\ Done(r)
      /\ status' = [status EXCEPT ![b] = "CANCELLED"]
      /\ UNCHANGED <<registered, world, acked>>
  BY DEF RefundTx
<1>3. /\ payment' \in [Bookings -> [state : PaymentStates, intent : Intents \cup {NoIntent}]]
      /\ \A c \in Bookings : payment'[c].intent = payment[c].intent
      /\ \A c \in Bookings \ {b} : payment'[c] = payment[c]
  BY <1>1, <1>2, SetPaymentFact DEF PaymentStates
<1>4. \A c \in Bookings : status'[c] = IF c = b THEN "CANCELLED" ELSE status[c]
  BY <1>2 DEF PInv, TypeOK
<1>5. TypeOK'
  BY <1>2, <1>3, DoneFact DEF PInv, TypeOK, BookingStates, world
<1>6. StripeInv'
  BY <1>2 DEF PInv, StripeInv, Owned, KeyIntent, SentCaptured, world
<1>7. RowsInv'
  BY <1>1, <1>2, <1>3 DEF PInv, RowsInv, RowIntent, RowState, world
<1>8. WorkInv'
  BY <1>2, <1>3, OthersSee DEF world
<1>9. ConfirmedWasCaptured'
  BY <1>2, <1>4 DEF PInv, Settled, ConfirmedWasCaptured, world
<1>10. RefundedIsSettled'
  BY <1>1, <1>2, <1>3, <1>4 DEF PInv, Settled, RefundedIsSettled, world
<1>11. QED
  BY <1>5, <1>6, <1>7, <1>8, <1>9, <1>10 DEF PInv, Settled

-----------------------------------------------------------------------------
(* Stripe and the customer                                                 *)

\* A call that is to pay for a booking of its own.
LEMMA IntentFindKeeps ==
    ASSUME PInv, NEW r \in Requests, NEW b \in Bookings, IntentFind(r, b)
    PROVE PInv'
<1>1. Sees([at |-> "intent_stripe", booking |-> b, intent |-> NoIntent, kind |-> "none"])
  BY DEF Sees, RowSteps, SuccessSteps
<1>2. QED
  BY <1>1, BeginMoves DEF IntentFind, Steps

\* Stripe creates an intent that nobody has yet: no row, no key and no call
\* knows it.  A replayed intent is one of the same booking.
LEMMA IntentStripeKeeps ==
    ASSUME PInv, NEW r \in Requests, IntentStripe(r)
    PROVE PInv'
<1> DEFINE b == call[r].booking
           c(i) == [at |-> "intent_upsert", booking |-> b, intent |-> i, kind |-> "none"]
<1>1. b \in Bookings /\ b # NoBooking
  BY ConstantsOK DEF IntentStripe, At, PInv, WorkInv, Sees
<1>2. CASE /\ keyed[b] # NoIntent /\ Begin(r, "intent_upsert", b, keyed[b], "none")
           /\ UNCHANGED <<stripe, intentFor, keyed>>
  <2>1. keyed[b] \in Intents /\ intentFor[keyed[b]] = b
    BY <1>1, <1>2 DEF PInv, TypeOK, StripeInv, KeyIntent
  <2>2. Sees(c(keyed[b]))
    BY <1>1, <2>1 DEF Sees, RowSteps, SuccessSteps
  <2>3. UNCHANGED <<books, world, acked>>
    BY <1>2 DEF IntentStripe, world
  <2>4. QED
    BY <1>1, <1>2, <2>1, <2>2, <2>3, BeginMoves DEF Steps
<1>3. CASE Done(r) /\ UNCHANGED <<stripe, intentFor, keyed>>
  BY <1>3, IdleMoves DEF IntentStripe, PInv, TypeOK, world
<1>4. ASSUME NEW i \in Intents, stripe[i] = "none",
             stripe' = [stripe EXCEPT ![i] = "open"],
             intentFor' = [intentFor EXCEPT ![i] = b],
             keyed' = [keyed EXCEPT ![b] = i],
             Begin(r, "intent_upsert", b, i, "none")
      PROVE PInv'
  <2>1. UNCHANGED <<books, handed, sent, acked>>
    BY DEF IntentStripe
  <2>2. intentFor[i] = NoBooking /\ i # NoIntent
    BY <1>4, ConstantsOK DEF PInv, StripeInv, Owned
  <2>3. \A j \in Intents : /\ stripe'[j] = IF j = i THEN "open" ELSE stripe[j]
                           /\ intentFor'[j] = IF j = i THEN b ELSE intentFor[j]
    BY <1>4 DEF PInv, TypeOK
  <2>4. \A a \in Bookings : keyed'[a] = IF a = b THEN i ELSE keyed[a]
    BY <1>1, <1>4 DEF PInv, TypeOK
  <2>5. c(i) \in Calls /\ call' = [call EXCEPT ![r] = c(i)]
    BY <1>1, <1>4 DEF Begin, Calls, Steps
  <2>6. \A q \in Requests : call'[q] = IF q = r THEN c(i) ELSE call[q]
    BY <2>5 DEF PInv, TypeOK
  <2>7. TypeOK'
    BY <1>1, <1>4, <2>1, <2>5 DEF PInv, TypeOK, books
  <2>8. StripeInv'
    <3>1. Owned'
      BY <2>3 DEF PInv, StripeInv, Owned
    <3>2. KeyIntent'
      <4> SUFFICES ASSUME NEW a \in Bookings, keyed'[a] # NoIntent
                   PROVE intentFor'[keyed'[a]] = a
        BY DEF KeyIntent
      <4>1. CASE a = b
        BY <2>3, <2>4, <4>1
      <4>2. CASE a # b
        <5>1. keyed'[a] = keyed[a] /\ keyed[a] \in Intents /\ intentFor[keyed[a]] = a
          BY <2>4, <4>2 DEF PInv, TypeOK, StripeInv, KeyIntent
        <5>2. a # NoBooking
          BY ConstantsOK
        <5>3. QED
          BY <2>2, <2>3, <5>1, <5>2
      <4>3. QED
        BY <4>1, <4>2
    <3>3. SentCaptured'
      BY <1>4, <2>1, <2>3 DEF PInv, StripeInv, SentCaptured
    <3>4. QED
      BY <3>1, <3>2, <3>3 DEF StripeInv
  <2>9. RowsInv'
    <3>1. RowIntent'
      <4> SUFFICES ASSUME NEW a \in Bookings, payment[a].intent # NoIntent
                   PROVE intentFor'[payment[a].intent] = a
        BY <2>1 DEF RowIntent, books
      <4>1. payment[a].intent \in Intents /\ intentFor[payment[a].intent] = a
        BY DEF PInv, TypeOK, RowsInv, RowIntent
      <4>2. a # NoBooking
        BY ConstantsOK
      <4>3. QED
        BY <2>2, <2>3, <4>1, <4>2
    <3>2. RowState'
      BY <2>1 DEF PInv, RowsInv, RowState, books
    <3>3. QED
      BY <3>1, <3>2 DEF RowsInv
  <2>10. \A q \in Requests : Sees(call[q])'
    <3> SUFFICES ASSUME NEW q \in Requests PROVE Sees(call[q])'
      OBVIOUS
    <3>1. CASE q = r
      BY <1>1, <2>3, <2>6, <3>1 DEF Sees, RowSteps, SuccessSteps
    <3>2. CASE q # r
      <4>1. Sees(call[q]) /\ call'[q] = call[q]
        BY <2>6, <3>2 DEF PInv, WorkInv
      <4>2. call[q].at # "idle" => call[q].booking # NoBooking
        BY <4>1, ConstantsOK DEF Sees
      <4>3. call[q].at \in RowSteps \cup {"intent_upsert"} => call[q].intent # i
        BY <2>2, <4>1, <4>2 DEF Sees, RowSteps, SuccessSteps
      <4>4. call[q].at = "refund_tx" => call[q].at \in RowSteps
        BY DEF RowSteps
      <4>5. QED
        BY <2>1, <2>3, <4>1, <4>3, <4>4 DEF Sees, books
    <3>3. QED
      BY <3>1, <3>2
  <2>11. CommitAlone' /\ CommitFresh'
    BY <2>1, <2>6 DEF PInv, WorkInv, CommitAlone, CommitFresh, At, books
  <2>12. ConfirmedWasCaptured'
    <3> SUFFICES ASSUME NEW a \in Bookings, status[a] = "CONFIRMED"
                 PROVE \E j \in Intents : /\ intentFor'[j] = a
                                          /\ stripe'[j] \in {"succeeded", "refunded"}
                                          /\ <<j, "succeeded">> \in registered
      BY <2>1 DEF ConfirmedWasCaptured, books
    <3>1. PICK j \in Intents : /\ intentFor[j] = a
                               /\ stripe[j] \in {"succeeded", "refunded"}
                               /\ <<j, "succeeded">> \in registered
      BY DEF PInv, Settled, ConfirmedWasCaptured
    <3>2. j # i
      BY <1>4, <3>1
    <3>3. QED
      BY <2>3, <3>1, <3>2
  <2>13. RefundedIsSettled'
    <3> SUFFICES ASSUME NEW a \in Bookings, payment[a].state = "REFUNDED"
                 PROVE /\ status[a] = "CANCELLED"
                       /\ \E j \in Intents : intentFor'[j] = a /\ stripe'[j] = "refunded"
      BY <2>1 DEF RefundedIsSettled, books
    <3>1. PICK j \in Intents : intentFor[j] = a /\ stripe[j] = "refunded"
      BY DEF PInv, Settled, RefundedIsSettled
    <3>2. j # i
      BY <1>4, <3>1
    <3>3. QED
      BY <2>3, <3>1, <3>2 DEF PInv, Settled, RefundedIsSettled
  <2>14. QED
    BY <2>7, <2>8, <2>9, <2>10, <2>11, <2>12, <2>13 DEF PInv, WorkInv, Settled
<1>5. CASE /\ keyed[b] = NoIntent
           /\ \E i \in Intents : stripe[i] = "none"
           /\ LET i == CHOOSE i \in Intents : stripe[i] = "none" IN
                /\ stripe' = [stripe EXCEPT ![i] = "open"]
                /\ intentFor' = [intentFor EXCEPT ![i] = b]
                /\ keyed' = [keyed EXCEPT ![b] = i]
                /\ Begin(r, "intent_upsert", b, i, "none")
  <2> DEFINE i == CHOOSE i \in Intents : stripe[i] = "none"
  <2>1. i \in Intents /\ stripe[i] = "none"
    BY <1>5
  <2>2. QED
    BY <1>4, <1>5, <2>1
<1>6. QED
  BY <1>2, <1>3, <1>5 DEF IntentStripe

\* The customer moves an intent on: never one that was captured, and an event
\* of success goes out with the money.
LEMMA CustomerKeeps ==
    ASSUME PInv, NEW i \in Intents, NEW from \in SUBSET {"open", "processing"},
           NEW to \in {"open", "processing", "succeeded"}, NEW k \in Kinds,
           k = "succeeded" => to = "succeeded",
           Customer(i, from, to, k)
    PROVE PInv'
<1>1. /\ stripe[i] \in {"open", "processing"}
      /\ stripe' = [stripe EXCEPT ![i] = to] /\ sent' = sent \cup {<<i, k>>}
      /\ UNCHANGED <<books, intentFor, keyed, handed, acked, call>>
  BY DEF Customer
<1>2. \A j \in Intents : stripe'[j] = IF j = i THEN to ELSE stripe[j]
  BY <1>1 DEF PInv, TypeOK
<1>3. TypeOK'
  BY <1>1 DEF PInv, TypeOK, books
<1>4. StripeInv'
  BY <1>1, <1>2 DEF PInv, StripeInv, Owned, KeyIntent, SentCaptured
<1>5. RowsInv'
  BY <1>1 DEF PInv, RowsInv, RowIntent, RowState, books
<1>6. WorkInv'
  <2>1. \A q \in Requests : Sees(call[q])'
    <3> SUFFICES ASSUME NEW q \in Requests PROVE Sees(call[q])'
      OBVIOUS
    <3>1. Sees(call[q]) /\ call'[q] = call[q]
      BY <1>1 DEF PInv, WorkInv
    <3>2. QED
      BY <1>1, <1>2, <3>1 DEF Sees, RowSteps, SuccessSteps, books
  <2>2. QED
    BY <1>1, <2>1 DEF PInv, WorkInv, CommitAlone, CommitFresh, At, books
<1>7. \A j \in Intents : stripe[j] \in {"succeeded", "refunded"} => stripe'[j] = stripe[j]
  BY <1>1, <1>2
<1>8. UNCHANGED <<status, payment, registered, intentFor>>
  BY <1>1 DEF books
<1>9. ConfirmedWasCaptured'
  <2> SUFFICES ASSUME NEW a \in Bookings, status[a] = "CONFIRMED"
               PROVE \E j \in Intents : /\ intentFor[j] = a
                                        /\ stripe'[j] \in {"succeeded", "refunded"}
                                        /\ <<j, "succeeded">> \in registered
    BY <1>8 DEF ConfirmedWasCaptured
  <2>1. QED
    BY <1>7 DEF PInv, Settled, ConfirmedWasCaptured
<1>10. RefundedIsSettled'
  BY <1>7, <1>8 DEF PInv, Settled, RefundedIsSettled
<1>11. QED
  BY <1>3, <1>4, <1>5, <1>6, <1>9, <1>10 DEF PInv, Settled

\* A key that is forgotten replays nothing.
LEMMA KeyExpiresKeeps ==
    ASSUME PInv, NEW b \in Bookings, KeyExpires(b)
    PROVE PInv'
<1>1. /\ keyed' = [keyed EXCEPT ![b] = NoIntent]
      /\ UNCHANGED <<books, stripe, intentFor, handed, sent, acked, call>>
  BY DEF KeyExpires
<1>2. TypeOK'
  BY <1>1 DEF PInv, TypeOK, books
<1>3. StripeInv' /\ RowsInv'
  BY <1>1 DEF PInv, TypeOK, StripeInv, RowsInv, Owned, KeyIntent, SentCaptured, RowIntent,
         RowState, books
<1>4. WorkInv'
  BY <1>1 DEF PInv, WorkInv, Sees, CommitAlone, CommitFresh, At, books
<1>5. Settled'
  BY <1>1 DEF PInv, Settled, ConfirmedWasCaptured, RefundedIsSettled, books
<1>6. QED
  BY <1>2, <1>3, <1>4, <1>5 DEF PInv

\* Cancelling a booking leaves its money alone.
LEMMA CancelKeeps ==
    ASSUME PInv, NEW b \in Bookings, Cancel(b)
    PROVE PInv'
<1>1. /\ status' = [status EXCEPT ![b] = "CANCELLED"]
      /\ UNCHANGED <<payment, registered, world, acked, call>>
  BY DEF Cancel
<1>2. TypeOK'
  BY <1>1 DEF PInv, TypeOK, BookingStates, world
<1>3. StripeInv' /\ RowsInv'
  BY <1>1 DEF PInv, StripeInv, RowsInv, Owned, KeyIntent, SentCaptured, RowIntent,
         RowState, world
<1>4. WorkInv'
  BY <1>1 DEF PInv, WorkInv, Sees, CommitAlone, CommitFresh, At, world
<1>5. \A a \in Bookings : status'[a] = IF a = b THEN "CANCELLED" ELSE status[a]
  BY <1>1 DEF PInv, TypeOK
<1>6. Settled'
  BY <1>1, <1>5 DEF PInv, Settled, ConfirmedWasCaptured, RefundedIsSettled, world
<1>7. QED
  BY <1>2, <1>3, <1>4, <1>6 DEF PInv

-----------------------------------------------------------------------------
(* The invariant                                                           *)

LEMMA InitInv == Init => PInv
<1> SUFFICES ASSUME Init PROVE PInv
  OBVIOUS
<1>1. \A r \in Requests : call[r] = Idle /\ call[r].at = "idle"
  BY DEF Init, Idle
<1>2. TypeOK
  BY DEF Init, TypeOK, BookingStates, PaymentStates, Calls, Steps, Idle
<1>3. StripeInv /\ RowsInv
  BY DEF Init, StripeInv, RowsInv, Owned, KeyIntent, SentCaptured, RowIntent, RowState
<1>4. WorkInv
  BY <1>1 DEF WorkInv, Sees, RowSteps, SuccessSteps, CommitAlone, CommitFresh, At
<1>5. Settled
  BY DEF Init, Settled, ConfirmedWasCaptured, RefundedIsSettled
<1>6. QED
  BY <1>2, <1>3, <1>4, <1>5 DEF PInv

\* The steps of one call.
LEMMA RequestKeeps ==
    ASSUME PInv, NEW r \in Requests,
           \/ Step(r) \/ Stops(r)
           \/ \E i \in Intents : Webhook(r, i)
           \/ \E b \in Bookings : IntentFind(r, b) \/ RefundFind(r, b)
    PROVE PInv'
<1>1. CASE Step(r)
  BY <1>1, IntentStripeKeeps, IntentUpsertKeeps, SuccessLockKeeps, SuccessCommitKeeps,
     FailedTxKeeps, RefundStripeKeeps, RefundTxKeeps DEF Step
<1>2. CASE Stops(r)
  BY <1>2, IdleMoves DEF Stops, PInv, TypeOK
<1>3. CASE \E i \in Intents : Webhook(r, i)
  BY <1>3, SuccessFindKeeps, FailedFindKeeps, ProcessingTxKeeps DEF Webhook
<1>4. CASE \E b \in Bookings : IntentFind(r, b) \/ RefundFind(r, b)
  BY <1>4, IntentFindKeeps, RefundFindKeeps
<1>5. QED
  BY <1>1, <1>2, <1>3, <1>4

LEMMA StepKeeps == PInv /\ [Next]_vars => PInv'
<1> SUFFICES ASSUME PInv, [Next]_vars PROVE PInv'
  OBVIOUS
<1>1. CASE \E i \in Intents : Pays(i) \/ Fails(i) \/ Processes(i)
  <2>1. ASSUME NEW i \in Intents, Pays(i) PROVE PInv'
    BY <2>1, CustomerKeeps DEF Pays, Kinds
  <2>2. ASSUME NEW i \in Intents, Fails(i) PROVE PInv'
    BY <2>2, CustomerKeeps DEF Fails, Kinds
  <2>3. ASSUME NEW i \in Intents, Processes(i) PROVE PInv'
    <3>1. Customer(i, {"open"}, "processing", "processing")
      BY <2>3 DEF Processes
    <3>2. {"open"} \in SUBSET {"open", "processing"}
      OBVIOUS
    <3>3. QED
      BY <3>1, <3>2, CustomerKeeps DEF Kinds
  <2>4. QED
    BY <1>1, <2>1, <2>2, <2>3
<1>2. CASE \E b \in Bookings : KeyExpires(b) \/ Cancel(b)
  BY <1>2, KeyExpiresKeeps, CancelKeeps
<1>3. CASE UNCHANGED vars
  <2>1. UNCHANGED <<books, world, acked, call>>
    BY <1>3 DEF vars, books, world
  <2>2. TypeOK' /\ StripeInv' /\ RowsInv'
    BY <2>1 DEF PInv, TypeOK, StripeInv, RowsInv, Owned, KeyIntent, SentCaptured,
           RowIntent, RowState, books, world
  <2>3. WorkInv'
    BY <2>1 DEF PInv, WorkInv, Sees, CommitAlone, CommitFresh, At, books, world
  <2>4. Settled'
    BY <2>1 DEF PInv, Settled, ConfirmedWasCaptured, RefundedIsSettled, books, world
  <2>5. QED
    BY <2>2, <2>3, <2>4 DEF PInv
<1>4. QED
  BY <1>1, <1>2, <1>3, RequestKeeps DEF Next

\* Every reachable state satisfies the invariant.
THEOREM PInvHolds == Spec => []PInv
<1>1. QED
  BY InitInv, StepKeeps, PTL DEF Spec

-----------------------------------------------------------------------------
(* What it is for                                                          *)

\* Every variable keeps its type.
THEOREM TypeCorrect == Spec => []TypeOK
<1>1. PInv => TypeOK
  BY DEF PInv
<1>2. QED
  BY <1>1, PInvHolds, PTL

\* A CONFIRMED booking has an intent of its own that Stripe captured, with the
\* event registered (handlePaymentSuccess), for any bookings, intents and calls.
THEOREM ConfirmedWasCapturedHolds == Spec => []ConfirmedWasCaptured
<1>1. PInv => ConfirmedWasCaptured
  BY DEF PInv, Settled
<1>2. QED
  BY <1>1, PInvHolds, PTL

\* A REFUNDED payment is that of a cancelled booking, and Stripe refunded an
\* intent of it (refund).
THEOREM RefundedIsSettledHolds == Spec => []RefundedIsSettled
<1>1. PInv => RefundedIsSettled
  BY DEF PInv, Settled
<1>2. QED
  BY <1>1, PInvHolds, PTL

\* What a step can do to the status of a booking and to a row.
LEMMA StepEffects ==
    ASSUME PInv, [Next]_vars
    PROVE  /\ \A b \in Bookings : status[b] = "CANCELLED" => status'[b] = "CANCELLED"
           /\ \A b \in Bookings : payment[b].state # "PAID" /\ payment'[b].state = "PAID"
                => registered' # registered
<1> DEFINE Stays == \A b \in Bookings : status[b] = "CANCELLED" => status'[b] = "CANCELLED"
           New == \A b \in Bookings :
                    payment[b].state # "PAID" /\ payment'[b].state = "PAID"
                      => registered' # registered
<1>1. CASE UNCHANGED <<status, payment>>
  BY <1>1
<1>2. ASSUME NEW r \in Requests, SuccessCommit(r) PROVE Stays /\ New
  <2>1. /\ status' = IF Confirms(call[r].booking)
                     THEN [status EXCEPT ![call[r].booking] = "CONFIRMED"] ELSE status
        /\ registered' = registered \cup {<<call[r].intent, call[r].kind>>}
        /\ At(r, "success_commit")
    BY <1>2 DEF SuccessCommit
  <2>2. Sees(call[r]) /\ call[r].kind = "succeeded"
    BY <2>1 DEF PInv, WorkInv, Sees, At, SuccessSteps
  <2>3. <<call[r].intent, call[r].kind>> \notin registered
    BY <2>1, <2>2 DEF PInv, WorkInv, CommitFresh
  <2>4. Stays
    BY <2>1 DEF Confirms, PInv, TypeOK
  <2>5. QED
    BY <2>1, <2>3, <2>4
<1>3. ASSUME NEW r \in Requests, FailedTx(r) PROVE Stays /\ New
  <2>1. call[r].booking \in Bookings
    BY <1>3 DEF FailedTx, At, PInv, WorkInv, Sees
  <2>2. CASE UNCHANGED books
    BY <2>2 DEF books
  <2>3. CASE SetPayment(call[r].booking, "FAILED") /\ UNCHANGED status
    <3>1. \A b \in Bookings : payment'[b].state = payment[b].state
                              \/ payment'[b].state = "FAILED"
      BY <2>1, <2>3, SetPaymentFact DEF PaymentStates
    <3>2. QED
      BY <2>3, <3>1
  <2>4. QED
    BY <1>3, <2>2, <2>3 DEF FailedTx
<1>4. ASSUME NEW r \in Requests, RefundTx(r) PROVE Stays /\ New
  <2>1. call[r].booking \in Bookings
    BY <1>4 DEF RefundTx, At, PInv, WorkInv, Sees
  <2>2. /\ SetPayment(call[r].booking, "REFUNDED")
        /\ status' = [status EXCEPT ![call[r].booking] = "CANCELLED"]
    BY <1>4 DEF RefundTx
  <2>3. \A b \in Bookings : payment'[b].state = payment[b].state
                            \/ payment'[b].state = "REFUNDED"
    BY <2>1, <2>2, SetPaymentFact DEF PaymentStates
  <2>4. Stays
    BY <2>2 DEF PInv, TypeOK
  <2>5. QED
    BY <2>3, <2>4
<1>5. ASSUME NEW r \in Requests, IntentUpsert(r) PROVE Stays /\ New
  <2>1. \A b \in Bookings : payment'[b] = payment[b] \/ payment'[b].state = "INITIATED"
    BY <1>5 DEF IntentUpsert, PInv, TypeOK
  <2>2. UNCHANGED status
    BY <1>5 DEF IntentUpsert
  <2>3. QED
    BY <2>1, <2>2
<1>6. ASSUME NEW r \in Requests, NEW i \in Intents, ProcessingTx(r, i) PROVE Stays /\ New
  <2>1. registered' # registered
    BY <1>6 DEF ProcessingTx, Seen
  <2>2. UNCHANGED status
    BY <1>6 DEF ProcessingTx
  <2>3. QED
    BY <2>1, <2>2
<1>7. ASSUME NEW b \in Bookings, Cancel(b) PROVE Stays /\ New
  BY <1>7 DEF Cancel, PInv, TypeOK
<1>8. QED
  <2>1. ASSUME NEW r \in Requests, Step(r) PROVE Stays /\ New
    <3>1. CASE IntentStripe(r) \/ SuccessLock(r) \/ RefundStripe(r)
      BY <1>1, <3>1 DEF IntentStripe, SuccessLock, RefundStripe, books
    <3>2. QED
      BY <1>2, <1>3, <1>4, <1>5, <2>1, <3>1 DEF Step
  <2>2. ASSUME NEW r \in Requests, Stops(r) PROVE Stays /\ New
    BY <1>1, <2>2 DEF Stops, books
  <2>3. ASSUME NEW r \in Requests, NEW i \in Intents, Webhook(r, i) PROVE Stays /\ New
    BY <1>1, <1>6, <2>3 DEF Webhook, SuccessFind, FailedFind, books
  <2>4. ASSUME NEW r \in Requests, NEW b \in Bookings, IntentFind(r, b) \/ RefundFind(r, b)
        PROVE Stays /\ New
    BY <1>1, <2>4 DEF IntentFind, RefundFind, books
  <2>5. ASSUME NEW i \in Intents, Pays(i) \/ Fails(i) \/ Processes(i) PROVE Stays /\ New
    BY <1>1, <2>5 DEF Pays, Fails, Processes, Customer, books
  <2>6. ASSUME NEW b \in Bookings, KeyExpires(b) PROVE Stays /\ New
    BY <1>1, <2>6 DEF KeyExpires, books
  <2>7. CASE UNCHANGED vars
    BY <1>1, <2>7 DEF vars
  <2>8. QED
    BY <1>7, <2>1, <2>2, <2>3, <2>4, <2>5, <2>6, <2>7 DEF Next

\* No step brings a cancelled booking back: the status is looked at again under
\* the row lock (handlePaymentSuccess).
THEOREM CancelledStaysHolds == Spec => CancelledStays
<1>1. PInv /\ [Next]_vars =>
        [\A b \in Bookings : status[b] = "CANCELLED" => status'[b] = "CANCELLED"]_vars
  BY StepEffects
<1>2. QED
  BY <1>1, PInvHolds, PTL DEF Spec, CancelledStays

\* A payment turns PAID only in the transaction that registers its event for the
\* first time: the unique key of webhook_events makes a duplicate harmless.
THEOREM DuplicateHarmlessHolds == Spec => DuplicateHarmless
<1>1. PInv /\ [Next]_vars =>
        [\A b \in Bookings : payment[b].state # "PAID" /\ payment'[b].state = "PAID" =>
           registered' # registered]_vars
  BY StepEffects
<1>2. QED
  BY <1>1, PInvHolds, PTL DEF Spec, DuplicateHarmless
=============================================================================
