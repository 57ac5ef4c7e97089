------------------------------- MODULE Notices -------------------------------
(***************************************************************************)
(* The notifications about payments, on top of Payment: the webhook        *)
(* handlers of payment.service.ts put jobs into the Bull queue, and        *)
(* notification.processor.ts sends a text for each.                        *)
(*                                                                         *)
(* The success job is added inside the transaction that confirms the       *)
(* booking, before it commits; the failure job after its transaction.  An  *)
(* error of the queue is logged and forgotten.  Bull is seen as a set of   *)
(* jobs that are run at least once: it gives a job whose worker died to    *)
(* another.  Jobs of the same kind for one intent tell the same.           *)
(***************************************************************************)
EXTENDS Payment, Naturals

VARIABLES
    jobs,    \* the jobs in the queue
    added,   \* how often each job was added: never, once or more often (history)
    refused, \* the jobs that the queue did not take (history)
    noted,   \* the calls whose open transaction has added its job
    owes     \* the intent whose failure a call has recorded and not reported

notices == <<jobs, added, refused, noted, owes>>
allVars == <<vars, notices>>

Jobs == {"success", "failed"} \X Intents

NoticesOK ==
    /\ TypeOK
    /\ jobs \in SUBSET Jobs
    /\ added \in [Jobs -> 0..2]
    /\ refused \in SUBSET Jobs
    /\ noted \in SUBSET {r \in Requests : At(r, "success_commit")}
    /\ owes \in [Requests -> Intents \cup {NoIntent}]
    /\ \A r \in Requests : owes[r] # NoIntent => At(r, "idle")

NoticesInit ==
    /\ Init
    /\ jobs = {} /\ refused = {} /\ noted = {}
    /\ added = [j \in Jobs |-> 0]
    /\ owes = [r \in Requests |-> NoIntent]

-----------------------------------------------------------------------------
\* queue.add, which may throw.
Enqueue(j) ==
    \/ /\ jobs' = jobs \cup {j}
       /\ added' = [added EXCEPT ![j] = IF @ < 2 THEN @ + 1 ELSE @]
       /\ UNCHANGED refused
    \/ /\ "refuse" \in Events
       /\ refused' = refused \cup {j}
       /\ UNCHANGED <<jobs, added>>

\* handlePaymentSuccess, with the booking still locked.
SuccessNotice(r) ==
    /\ At(r, "success_commit") /\ r \notin noted
    /\ Confirms(call[r].booking)
    /\ Enqueue(<<"success", call[r].intent>>)
    /\ noted' = noted \cup {r}
    /\ UNCHANGED <<vars, owes>>

\* Mutant: the transaction commits without waiting for its job.
CommitsFirst(r) == TRUE

CommitsNow(r) == Confirms(call[r].booking) => r \in noted

Commits(r) ==
    /\ SuccessCommit(r) /\ CommitsNow(r)
    /\ noted' = noted \ {r}
    /\ UNCHANGED <<jobs, added, refused, owes>>

\* Mutant: a failure that is delivered again is reported again.
ReportsAlways(r) == TRUE

\* The event was not registered before: otherwise P2002 ends the call.
Reports(r) == ~Seen(call[r].intent, "failed")

Records(r) ==
    /\ FailedTx(r)
    /\ owes' = IF Reports(r) THEN [owes EXCEPT ![r] = call[r].intent] ELSE owes
    /\ UNCHANGED <<jobs, added, refused, noted>>

\* handlePaymentFailed, after its transaction.
FailedNotice(r) ==
    /\ owes[r] # NoIntent
    /\ Enqueue(<<"failed", owes[r]>>)
    /\ owes' = [owes EXCEPT ![r] = NoIntent]
    /\ UNCHANGED <<vars, noted>>

\* The other steps of a call, which must have reported what it owes.
Elsewhere(r) ==
    \/ IntentStripe(r) \/ IntentUpsert(r) \/ SuccessLock(r)
    \/ RefundStripe(r) \/ RefundTx(r)

Begins(r) ==
    \/ \E i \in Intents : Webhook(r, i)
    \/ \E b \in Bookings : IntentFind(r, b) \/ RefundFind(r, b)

\* The transaction is rolled back; its job stays in the queue.
StopsCall(r) ==
    \/ /\ Stops(r)
       /\ noted' = noted \ {r}
       /\ UNCHANGED <<jobs, added, refused, owes>>
    \/ /\ "stop" \in Events
       /\ owes[r] # NoIntent
       /\ owes' = [owes EXCEPT ![r] = NoIntent]
       /\ UNCHANGED <<vars, jobs, added, refused, noted>>

Around ==
    \/ \E i \in Intents : Pays(i) \/ Fails(i) \/ Processes(i)
    \/ \E b \in Bookings : KeyExpires(b) \/ Cancel(b)

-----------------------------------------------------------------------------
(* notification.processor.ts                                               *)

\* The kinds of job for which there is a @Process handler.
Processed == {"success", "failed"}

\* The handler sends its text and returns, and Bull takes the job off.  (A job
\* without a handler would fail.)
Tell(j) ==
    /\ j \in jobs /\ j[1] \in Processed
    /\ jobs' = jobs \ {j}
    /\ UNCHANGED <<vars, added, refused, noted, owes>>

-----------------------------------------------------------------------------
NoticeStep(r) ==
    \/ SuccessNotice(r) \/ Commits(r) \/ Records(r) \/ FailedNotice(r)
    \/ Elsewhere(r) /\ UNCHANGED notices

NoticesNext ==
    \/ \E r \in Requests :
         \/ NoticeStep(r) \/ StopsCall(r)
         \/ owes[r] = NoIntent /\ Begins(r) /\ UNCHANGED notices
    \/ Around /\ UNCHANGED notices
    \/ \E j \in Jobs : Tell(j)

RedeliverSuccess(r, i) == owes[r] = NoIntent /\ Redeliver(r, i) /\ UNCHANGED notices

\* As in Payment, and Bull hands out every job.
NoticesFairness ==
    /\ \A r \in Requests : SF_allVars(NoticeStep(r))
    /\ \A i \in Intents : SF_allVars(\E r \in Requests : RedeliverSuccess(r, i))
    /\ \A j \in Jobs : WF_allVars(Tell(j))

NoticesSpec == NoticesInit /\ [][NoticesNext]_allVars /\ NoticesFairness

-----------------------------------------------------------------------------
(* Properties                                                              *)

\* Nobody is told that a payment succeeded which Stripe has not captured,
\* although the job is added before anything is committed.
ToldWasCaptured ==
    \A i \in Intents : added[<<"success", i>>] > 0 => stripe[i] \in {"succeeded", "refunded"}

\* The customer of a confirmed booking is told in the end, even if the process
\* dies right after the COMMIT, as long as the queue takes its jobs: this is what
\* adding the job inside the transaction (payment.service.ts:267-288) buys.
ConfirmedIsTold ==
    \A b \in Bookings :
      status[b] = "CONFIRMED" ~>
        \E j \in {"success"} \X Intents : j \in refused \/ (added[j] > 0 /\ j \notin jobs)

\* A failed event that Stripe delivers twice, or to two processes at once, is
\* reported to the customer once (payment.service.ts:315-344).
FailureToldOnce == \A i \in Intents : added[<<"failed", i>>] <= 1

\* A text that says "confirmed" for a transaction that was rolled back comes true
\* in the end, unless the booking is cancelled meanwhile: Stripe delivers the
\* event again (payment.service.ts:269).
ToldComesTrue ==
    StopsEnd =>
      \A i \in Intents, b \in Bookings :
        added[<<"success", i>>] > 0 /\ intentFor[i] = b ~> status[b] # "PENDING"
=============================================================================
