---------------------------- MODULE NoticesProofs ----------------------------
(***************************************************************************)
(* Theorems about Notices, for every value of its constants: a handler     *)
(* with its notifications does nothing to the books that Payment does not  *)
(* do, so that the invariant of Payment holds of it; nobody is told of     *)
(* money that was not captured; a failure is told at most once.            *)
(***************************************************************************)
EXTENDS Notices, PaymentProofs

\* The failure of an intent is told by the one call whose transaction registered
\* it: what is owed or was told is registered, by one call, once.
OwesRegistered ==
    \A r \in Requests : owes[r] # NoIntent => <<owes[r], "failed">> \in registered
OwesAlone ==
    \A q, r \in Requests : owes[q] # NoIntent /\ owes[q] = owes[r] => q = r
ToldRegistered ==
    \A i \in Intents : added[<<"failed", i>>] > 0 =>
      /\ <<i, "failed">> \in registered
      /\ \A r \in Requests : owes[r] # i

\* The inductive invariant.
ToldInv == OwesRegistered /\ OwesAlone /\ ToldRegistered /\ FailureToldOnce
NInv == PInv /\ NoticesOK /\ ToldWasCaptured /\ ToldInv

-----------------------------------------------------------------------------
(* Refinement                                                              *)

\* What a handler does with its notifications is a step of Payment, or leaves
\* the books alone.
LEMMA NoticesStepIsStep == [NoticesNext]_allVars => [Next]_vars
<1> SUFFICES ASSUME [NoticesNext]_allVars PROVE [Next]_vars
  OBVIOUS
<1>1. ASSUME NEW r \in Requests, NoticeStep(r) PROVE [Next]_vars
  BY <1>1 DEF NoticeStep, SuccessNotice, Commits, Records, FailedNotice, Elsewhere, Next, Step
<1>2. ASSUME NEW r \in Requests, StopsCall(r) PROVE [Next]_vars
  BY <1>2 DEF StopsCall, Next
<1>3. ASSUME NEW r \in Requests, Begins(r) PROVE [Next]_vars
  BY <1>3 DEF Begins, Next
<1>4. CASE Around
  BY <1>4 DEF Around, Next
<1>5. ASSUME NEW j \in Jobs, Tell(j) PROVE [Next]_vars
  BY <1>5 DEF Tell
<1>6. CASE UNCHANGED allVars
  BY <1>6 DEF allVars
<1>7. QED
  BY <1>1, <1>2, <1>3, <1>4, <1>5, <1>6 DEF NoticesNext

\* The handlers with their notifications implement Payment's specification: the
\* jobs, and the errors of the queue, are invisible to the books
\* (payment.service.ts catches and logs them).
THEOREM NoticesImplementPayment == NoticesSpec => Spec
<1>1. NoticesInit => Init
  BY DEF NoticesInit
<1>2. QED
  BY <1>1, NoticesStepIsStep, PTL DEF NoticesSpec, Spec

-----------------------------------------------------------------------------
(* What a step of Payment keeps                                            *)

\* Captured money stays captured, or is given back; a registered event stays
\* registered.
LEMMA StepGrows ==
    ASSUME PInv, [Next]_vars
    PROVE  /\ \A i \in Intents : stripe[i] \in {"succeeded", "refunded"} =>
                stripe'[i] \in {"succeeded", "refunded"}
           /\ registered \subseteq registered'
<1> DEFINE Stays == \A i \in Intents : stripe[i] \in {"succeeded", "refunded"} =>
                      stripe'[i] \in {"succeeded", "refunded"}
           Grows == registered \subseteq registered'
<1>1. ASSUME NEW r \in Requests, Step(r) PROVE Stays /\ Grows
  <2>1. CASE IntentStripe(r)
    <3>1. UNCHANGED stripe \/ \E i \in Intents : /\ stripe[i] = "none"
                                                 /\ stripe' = [stripe EXCEPT ![i] = "open"]
      BY <2>1 DEF IntentStripe
    <3>2. UNCHANGED registered
      BY <2>1 DEF IntentStripe, books
    <3>3. QED
      BY <3>1, <3>2 DEF PInv, TypeOK
  <2>2. CASE RefundStripe(r)
    <3>1. UNCHANGED registered
      BY <2>2 DEF RefundStripe, books
    <3>2. UNCHANGED stripe \/ stripe' = [stripe EXCEPT ![call[r].intent] = "refunded"]
      BY <2>2 DEF RefundStripe
    <3>3. QED
      BY <3>1, <3>2 DEF PInv, TypeOK
  <2>3. CASE SuccessCommit(r) \/ FailedTx(r)
    BY <2>3 DEF SuccessCommit, FailedTx, books, world
  <2>4. CASE IntentUpsert(r) \/ SuccessLock(r) \/ RefundTx(r)
    BY <2>4 DEF IntentUpsert, SuccessLock, RefundTx, books, world
  <2>5. QED
    BY <1>1, <2>1, <2>2, <2>3, <2>4 DEF Step
<1>2. ASSUME NEW r \in Requests,
             \/ Stops(r)
             \/ \E i \in Intents : Webhook(r, i)
             \/ \E b \in Bookings : IntentFind(r, b) \/ RefundFind(r, b)
      PROVE Stays /\ Grows
  BY <1>2 DEF Stops, Webhook, SuccessFind, FailedFind, ProcessingTx, IntentFind, RefundFind,
         books, world
<1>3. ASSUME NEW i \in Intents, Pays(i) \/ Fails(i) \/ Processes(i) PROVE Stays /\ Grows
  <2>1. stripe[i] \notin {"succeeded", "refunded"}
    BY <1>3 DEF Pays, Fails, Processes, Customer
  <2>2. UNCHANGED registered /\ \E to : stripe' = [stripe EXCEPT ![i] = to]
    BY <1>3 DEF Pays, Fails, Processes, Customer, books
  <2>3. QED
    BY <2>1, <2>2 DEF PInv, TypeOK
<1>4. ASSUME NEW b \in Bookings, KeyExpires(b) \/ Cancel(b) PROVE Stays /\ Grows
  BY <1>4 DEF KeyExpires, Cancel, books, world
<1>5. CASE UNCHANGED vars
  BY <1>5 DEF vars
<1>6. QED
  BY <1>1, <1>2, <1>3, <1>4, <1>5 DEF Next

\* The step of one call leaves the others where they are.
LEMMA OwnCall ==
    ASSUME PInv, NEW r \in Requests, Step(r) \/ Stops(r) \/ Begins(r),
           NEW q \in Requests \ {r}
    PROVE call'[q] = call[q]
<1>1. CASE \E c : call' = [call EXCEPT ![r] = c]
  BY <1>1 DEF PInv, TypeOK
<1>2. CASE Step(r)
  BY <1>1, <1>2 DEF Step, IntentStripe, IntentUpsert, SuccessLock, SuccessCommit, FailedTx,
         RefundStripe, RefundTx, Answered, Done, Goto, Begin
<1>3. CASE Stops(r) \/ Begins(r)
  BY <1>1, <1>3 DEF Stops, Begins, Webhook, SuccessFind, FailedFind, ProcessingTx,
         IntentFind, RefundFind, Answered, Done, Begin
<1>4. QED
  BY <1>2, <1>3

-----------------------------------------------------------------------------
(* The actions                                                             *)

\* A step that adds no job, and no debt, keeps the invariant, if the calls that
\* have added a job or owe one stay where they are.
LEMMA NoticeFrame ==
    ASSUME NInv, [Next]_vars, UNCHANGED <<added, refused>>, jobs' \in SUBSET Jobs,
           noted' \subseteq noted,
           \A q \in noted' : call'[q] = call[q],
           owes' \in [Requests -> Intents \cup {NoIntent}],
           \A q \in Requests : owes'[q] # NoIntent =>
             owes'[q] = owes[q] /\ call'[q] = call[q]
    PROVE NInv'
<1>1. PInv' /\ TypeOK'
  BY StepKeeps DEF NInv, PInv
<1>2. NoticesOK'
  <2>1. noted' \in SUBSET {r \in Requests : At(r, "success_commit")'}
    BY DEF NInv, NoticesOK, At
  <2>2. \A r \in Requests : owes'[r] # NoIntent => At(r, "idle")'
    BY DEF NInv, NoticesOK, At
  <2>3. QED
    BY <1>1, <2>1, <2>2 DEF NInv, NoticesOK, Jobs
<1>3. ToldWasCaptured'
  BY StepGrows DEF NInv, ToldWasCaptured
<1>4. ToldInv'
  <2>1. registered \subseteq registered'
    BY StepGrows DEF NInv
  <2>2. OwesRegistered' /\ OwesAlone' /\ FailureToldOnce'
    BY <2>1 DEF NInv, ToldInv, OwesRegistered, OwesAlone, FailureToldOnce
  <2>3. ToldRegistered'
    BY <2>1, ConstantsOK DEF NInv, ToldInv, ToldRegistered
  <2>4. QED
    BY <2>2, <2>3 DEF ToldInv
<1>5. QED
  BY <1>1, <1>2, <1>3, <1>4 DEF NInv

\* What queue.add does to the history: at most one more of the job.
LEMMA EnqueueFact ==
    ASSUME NoticesOK, NEW j \in Jobs, Enqueue(j)
    PROVE  /\ jobs' \in SUBSET Jobs
           /\ added' \in [Jobs -> 0..2]
           /\ refused' \in SUBSET Jobs
           /\ added'[j] <= added[j] + 1
           /\ \A h \in Jobs \ {j} : added'[h] = added[h]
BY DEF NoticesOK, Enqueue

\* A job is added while the transaction of its event is open: the event was sent,
\* and the money captured.
LEMMA SuccessNoticeKeeps ==
    ASSUME NInv, NEW r \in Requests, SuccessNotice(r)
    PROVE NInv'
<1> DEFINE i == call[r].intent
<1>1. /\ At(r, "success_commit") /\ Enqueue(<<"success", i>>)
      /\ noted' = noted \cup {r} /\ UNCHANGED <<vars, owes>>
  BY DEF SuccessNotice
<1>2. i \in Intents /\ stripe[i] \in {"succeeded", "refunded"}
  BY <1>1 DEF At, NInv, PInv, WorkInv, Sees, RowSteps, SuccessSteps, StripeInv, SentCaptured
<1>3. <<"success", i>> \in Jobs
  BY <1>2 DEF Jobs
<1>4. /\ jobs' \in SUBSET Jobs /\ added' \in [Jobs -> 0..2] /\ refused' \in SUBSET Jobs
      /\ \A h \in Jobs : h # <<"success", i>> => added'[h] = added[h]
  BY <1>1, <1>3, EnqueueFact DEF NInv
<1>5. PInv' /\ TypeOK'
  BY <1>1, StepKeeps DEF NInv, PInv
<1>6. UNCHANGED <<stripe, registered, call>>
  BY <1>1 DEF vars
<1>7. NoticesOK'
  BY <1>1, <1>4, <1>5, <1>6 DEF NInv, NoticesOK, Jobs, At
<1>8. ToldWasCaptured'
  <2> SUFFICES ASSUME NEW h \in Intents, added'[<<"success", h>>] > 0
               PROVE stripe[h] \in {"succeeded", "refunded"}
    BY <1>6 DEF ToldWasCaptured
  <2>1. CASE h = i
    BY <1>2, <2>1
  <2>2. CASE h # i
    <3>1. <<"success", h>> \in Jobs /\ <<"success", h>> # <<"success", i>>
      BY <2>2 DEF Jobs
    <3>2. QED
      BY <1>4, <3>1 DEF NInv, ToldWasCaptured
  <2>3. QED
    BY <2>1, <2>2
<1>9. \A h \in Intents : added'[<<"failed", h>>] = added[<<"failed", h>>]
  <2> TAKE h \in Intents
  <2>1. <<"failed", h>> \in Jobs /\ <<"failed", h>> # <<"success", i>>
    BY DEF Jobs
  <2>2. QED
    BY <1>4, <2>1
<1>10. ToldInv'
  BY <1>1, <1>6, <1>9 DEF NInv, ToldInv, OwesRegistered, OwesAlone, ToldRegistered,
         FailureToldOnce
<1>11. QED
  BY <1>5, <1>7, <1>8, <1>10 DEF NInv

\* A failure that was not registered before is owed by nobody and was not told.
LEMMA RecordsKeeps ==
    ASSUME NInv, NEW r \in Requests, Records(r)
    PROVE NInv'
<1> DEFINE i == call[r].intent
<1>1. /\ FailedTx(r) /\ At(r, "failed_tx") /\ Done(r)
      /\ UNCHANGED <<jobs, added, refused, noted>>
      /\ UNCHANGED world
  BY DEF Records, FailedTx, Answered
<1>2. [Next]_vars /\ Step(r)
  BY <1>1 DEF Step, Next
<1>3. i \in Intents /\ i # NoIntent
  BY <1>1, ConstantsOK DEF At, NInv, PInv, WorkInv, Sees, RowSteps
<1>4. owes[r] = NoIntent /\ r \notin noted
  BY <1>1 DEF At, NInv, NoticesOK
<1>5. \A q \in Requests \ {r} : call'[q] = call[q]
  BY <1>2, OwnCall DEF NInv
<1>6. CASE ~Reports(r)
  <2>1. UNCHANGED owes
    BY <1>6 DEF Records
  <2>2. QED
    BY <1>1, <1>2, <1>4, <1>5, <2>1, NoticeFrame DEF NInv, NoticesOK
<1>7. CASE Reports(r)
  <2>1. <<i, "failed">> \notin registered /\ registered' = registered \cup {<<i, "failed">>}
    BY <1>1, <1>7 DEF Reports, Seen, FailedTx
  <2>2. owes' = [owes EXCEPT ![r] = i]
    BY <1>7 DEF Records
  <2>3. \A q \in Requests : owes'[q] = IF q = r THEN i ELSE owes[q]
    BY <2>2 DEF NInv, NoticesOK
  <2>4. PInv' /\ TypeOK'
    BY <1>2, StepKeeps DEF NInv, PInv
  <2>5. NoticesOK'
    <3>1. At(r, "idle")'
      BY <1>1, DoneFact DEF At, NInv, Idle
    <3>2. \A q \in Requests : owes'[q] # NoIntent => At(q, "idle")'
      BY <1>5, <2>3, <3>1 DEF NInv, NoticesOK, At
    <3>3. noted' \in SUBSET {q \in Requests : At(q, "success_commit")'}
      BY <1>1, <1>4, <1>5 DEF NInv, NoticesOK, At
    <3>4. owes' \in [Requests -> Intents \cup {NoIntent}]
      BY <1>3, <2>2 DEF NInv, NoticesOK
    <3>5. QED
      BY <1>1, <2>4, <3>2, <3>3, <3>4 DEF NInv, NoticesOK, Jobs
  <2>6. ToldWasCaptured'
    BY <1>1 DEF NInv, ToldWasCaptured, world
  <2>7. added[<<"failed", i>>] = 0
    <3>1. <<"failed", i>> \in Jobs
      BY <1>3 DEF Jobs
    <3>2. added[<<"failed", i>>] \in 0..2
      BY <3>1 DEF NInv, NoticesOK
    <3>3. ~(added[<<"failed", i>>] > 0)
      BY <1>3, <2>1 DEF NInv, ToldInv, ToldRegistered
    <3>4. QED
      BY <3>2, <3>3
  <2>8. \A q \in Requests : owes[q] # i
    BY <1>3, <2>1 DEF NInv, ToldInv, OwesRegistered
  <2>9. OwesRegistered' /\ OwesAlone' /\ FailureToldOnce'
    BY <1>1, <2>1, <2>3, <2>8 DEF NInv, ToldInv, OwesRegistered, OwesAlone, FailureToldOnce
  <2>10. ToldRegistered'
    BY <1>1, <2>1, <2>3, <2>7 DEF NInv, ToldInv, ToldRegistered
  <2>11. QED
    BY <2>4, <2>5, <2>6, <2>9, <2>10 DEF NInv, ToldInv
<1>8. QED
  BY <1>6, <1>7

\* The debt is paid once: nobody else owes the same.
LEMMA FailedNoticeKeeps ==
    ASSUME NInv, NEW r \in Requests, FailedNotice(r)
    PROVE NInv'
<1> DEFINE i == owes[r]
<1>1. /\ i # NoIntent /\ Enqueue(<<"failed", i>>)
      /\ owes' = [owes EXCEPT ![r] = NoIntent] /\ UNCHANGED <<vars, noted>>
  BY DEF FailedNotice
<1>2. i \in Intents
  BY <1>1 DEF NInv, NoticesOK
<1>3. <<"failed", i>> \in Jobs
  BY <1>2 DEF Jobs
<1>4. /\ jobs' \in SUBSET Jobs /\ added' \in [Jobs -> 0..2] /\ refused' \in SUBSET Jobs
      /\ added'[<<"failed", i>>] <= added[<<"failed", i>>] + 1
      /\ \A h \in Jobs : h # <<"failed", i>> => added'[h] = added[h]
  BY <1>1, <1>3, EnqueueFact DEF NInv
<1>5. PInv' /\ TypeOK'
  BY <1>1, StepKeeps DEF NInv, PInv
<1>6. UNCHANGED <<stripe, registered, call>>
  BY <1>1 DEF vars
<1>7. \A q \in Requests : owes'[q] = IF q = r THEN NoIntent ELSE owes[q]
  BY <1>1 DEF NInv, NoticesOK
<1>8. NoticesOK'
  <2>1. owes' \in [Requests -> Intents \cup {NoIntent}]
    BY <1>1 DEF NInv, NoticesOK
  <2>2. \A q \in Requests : owes'[q] # NoIntent => At(q, "idle")'
    BY <1>6, <1>7 DEF NInv, NoticesOK, At
  <2>3. noted' \in SUBSET {q \in Requests : At(q, "success_commit")'}
    BY <1>1, <1>6 DEF NInv, NoticesOK, At
  <2>4. QED
    BY <1>4, <1>5, <2>1, <2>2, <2>3 DEF NoticesOK, Jobs
<1>9. ToldWasCaptured'
  <2>1. \A h \in Intents : added'[<<"success", h>>] = added[<<"success", h>>]
    <3> TAKE h \in Intents
    <3>1. <<"success", h>> \in Jobs /\ <<"success", h>> # <<"failed", i>>
      BY DEF Jobs
    <3>2. QED
      BY <1>4, <3>1
  <2>2. QED
    BY <1>6, <2>1 DEF NInv, ToldWasCaptured
<1>10. /\ <<i, "failed">> \in registered
       /\ added[<<"failed", i>>] = 0
       /\ \A q \in Requests \ {r} : owes[q] # i
  <2>1. added[<<"failed", i>>] \in 0..2
    BY <1>3 DEF NInv, NoticesOK
  <2>2. ~(added[<<"failed", i>>] > 0)
    BY <1>2 DEF NInv, ToldInv, ToldRegistered
  <2>3. QED
    BY <1>1, <2>1, <2>2 DEF NInv, ToldInv, OwesRegistered, OwesAlone
<1>11. added'[<<"failed", i>>] <= 1
  BY <1>4, <1>10
<1>12. \A h \in Intents : h # i => added'[<<"failed", h>>] = added[<<"failed", h>>]
  <2> TAKE h \in Intents
  <2> HAVE h # i
  <2>1. <<"failed", h>> \in Jobs /\ <<"failed", h>> # <<"failed", i>>
    BY DEF Jobs
  <2>2. QED
    BY <1>4, <2>1
<1>13. OwesRegistered' /\ OwesAlone' /\ FailureToldOnce'
  BY <1>6, <1>7, <1>11, <1>12 DEF NInv, ToldInv, OwesRegistered, OwesAlone, FailureToldOnce
<1>14. ToldRegistered'
  <2> SUFFICES ASSUME NEW h \in Intents, added'[<<"failed", h>>] > 0
               PROVE <<h, "failed">> \in registered /\ \A q \in Requests : owes'[q] # h
    BY <1>6 DEF ToldRegistered
  <2>1. CASE h = i
    BY <1>1, <1>7, <1>10, <2>1
  <2>2. CASE h # i
    BY <1>7, <1>12, <2>2, ConstantsOK DEF NInv, ToldInv, ToldRegistered
  <2>3. QED
    BY <2>1, <2>2
<1>15. QED
  BY <1>5, <1>8, <1>9, <1>13, <1>14 DEF NInv, ToldInv

\* The steps of a call that add nothing and owe nothing.
LEMMA QuietKeeps ==
    ASSUME NInv, NEW r \in Requests,
           Step(r) \/ Stops(r) \/ Begins(r),
           owes[r] = NoIntent, noted' = noted \ {r}, UNCHANGED <<jobs, added, refused, owes>>
    PROVE NInv'
<1>1. [Next]_vars
  BY DEF Next, Begins
<1>2. \A q \in Requests \ {r} : call'[q] = call[q]
  BY OwnCall DEF NInv
<1>3. noted \subseteq Requests
  BY DEF NInv, NoticesOK
<1>4. QED
  BY <1>1, <1>2, <1>3, NoticeFrame DEF NInv, NoticesOK

-----------------------------------------------------------------------------
(* The invariant                                                           *)

LEMMA NoticesInitInv == NoticesInit => NInv
<1> SUFFICES ASSUME NoticesInit PROVE NInv
  OBVIOUS
<1>1. PInv /\ TypeOK
  BY InitInv DEF NoticesInit, PInv
<1>2. NoticesOK
  BY <1>1 DEF NoticesInit, NoticesOK
<1>3. ToldWasCaptured
  BY DEF NoticesInit, ToldWasCaptured, Jobs
<1>4. ToldInv
  BY DEF NoticesInit, ToldInv, OwesRegistered, OwesAlone, ToldRegistered, FailureToldOnce, Jobs
<1>5. QED
  BY <1>1, <1>2, <1>3, <1>4 DEF NInv

LEMMA NoticesStepKeeps == NInv /\ [NoticesNext]_allVars => NInv'
<1> SUFFICES ASSUME NInv, [NoticesNext]_allVars PROVE NInv'
  OBVIOUS
<1>1. [Next]_vars
  BY NoticesStepIsStep
<1>2. ASSUME NEW r \in Requests, NoticeStep(r) PROVE NInv'
  <2>1. CASE SuccessNotice(r) \/ Records(r) \/ FailedNotice(r)
    BY <2>1, SuccessNoticeKeeps, RecordsKeeps, FailedNoticeKeeps
  <2>2. CASE Commits(r)
    <3>1. Step(r) /\ ~At(r, "idle")
      BY <2>2 DEF Commits, Step, SuccessCommit, At
    <3>2. owes[r] = NoIntent
      BY <3>1 DEF NInv, NoticesOK
    <3>3. QED
      BY <2>2, <3>1, <3>2, QuietKeeps DEF Commits
  <2>3. CASE Elsewhere(r) /\ UNCHANGED notices
    <3>1. Step(r) /\ ~At(r, "idle") /\ ~At(r, "success_commit")
      BY <2>3 DEF Elsewhere, Step, IntentStripe, IntentUpsert, SuccessLock, RefundStripe,
             RefundTx, At
    <3>2. owes[r] = NoIntent /\ r \notin noted
      BY <3>1 DEF NInv, NoticesOK
    <3>3. noted' = noted \ {r} /\ UNCHANGED <<jobs, added, refused, owes>>
      BY <2>3, <3>2 DEF notices
    <3>4. QED
      BY <3>1, <3>2, <3>3, QuietKeeps
  <2>4. QED
    BY <1>2, <2>1, <2>2, <2>3 DEF NoticeStep
<1>3. ASSUME NEW r \in Requests, StopsCall(r) PROVE NInv'
  <2>1. CASE /\ Stops(r) /\ noted' = noted \ {r}
             /\ UNCHANGED <<jobs, added, refused, owes>>
    <3>1. owes[r] = NoIntent
      BY <2>1 DEF Stops, NInv, NoticesOK
    <3>2. QED
      BY <2>1, <3>1, QuietKeeps
  <2>2. CASE /\ owes' = [owes EXCEPT ![r] = NoIntent]
             /\ UNCHANGED <<vars, jobs, added, refused, noted>>
    <3>1. UNCHANGED call
      BY <2>2 DEF vars
    <3>2. QED
      BY <1>1, <2>2, <3>1, NoticeFrame DEF NInv, NoticesOK
  <2>3. QED
    BY <1>3, <2>1, <2>2 DEF StopsCall
<1>4. ASSUME NEW r \in Requests, owes[r] = NoIntent, Begins(r), UNCHANGED notices PROVE NInv'
  <2>1. At(r, "idle")
    BY <1>4 DEF Begins, Webhook, SuccessFind, FailedFind, ProcessingTx, IntentFind, RefundFind
  <2>2. noted' = noted \ {r} /\ UNCHANGED <<jobs, added, refused, owes>>
    BY <1>4, <2>1 DEF notices, NInv, NoticesOK, At
  <2>3. QED
    BY <1>4, <2>2, QuietKeeps
<1>5. CASE Around /\ UNCHANGED notices
  <2>1. UNCHANGED call
    BY <1>5 DEF Around, Pays, Fails, Processes, Customer, KeyExpires, Cancel
  <2>2. QED
    BY <1>1, <1>5, <2>1, NoticeFrame DEF notices, NInv, NoticesOK
<1>6. ASSUME NEW j \in Jobs, Tell(j) PROVE NInv'
  <2>1. UNCHANGED <<call, added, refused, noted, owes>> /\ jobs' \in SUBSET Jobs
    BY <1>6 DEF Tell, vars, NInv, NoticesOK
  <2>2. QED
    BY <1>1, <2>1, NoticeFrame DEF NInv, NoticesOK
<1>7. CASE UNCHANGED allVars
  <2>1. UNCHANGED <<call, jobs, added, refused, noted, owes>>
    BY <1>7 DEF allVars, vars, notices
  <2>2. QED
    BY <1>1, <2>1, NoticeFrame DEF NInv, NoticesOK
<1>8. QED
  BY <1>2, <1>3, <1>4, <1>5, <1>6, <1>7 DEF NoticesNext

\* Every reachable state satisfies the invariant.
THEOREM NInvHolds == NoticesSpec => []NInv
<1>1. QED
  BY NoticesInitInv, NoticesStepKeeps, PTL DEF NoticesSpec

\* Every variable keeps its type, and a call that has added its job, or owes one,
\* is at the step where the handler does so.
THEOREM NoticesTypeCorrect == NoticesSpec => []NoticesOK
<1>1. NInv => NoticesOK
  BY DEF NInv
<1>2. QED
  BY <1>1, NInvHolds, PTL

\* Nobody is told of a success that Stripe has not captured, although the job is
\* added before the transaction commits (handlePaymentSuccess).
THEOREM ToldWasCapturedHolds == NoticesSpec => []ToldWasCaptured
<1>1. NInv => ToldWasCaptured
  BY DEF NInv
<1>2. QED
  BY <1>1, NInvHolds, PTL

\* However often a failed event is delivered, and to how many processes at once,
\* the customer is told once (handlePaymentFailed).
THEOREM FailureToldOnceHolds == NoticesSpec => []FailureToldOnce
<1>1. NInv => FailureToldOnce
  BY DEF NInv, ToldInv
<1>2. QED
  BY <1>1, NInvHolds, PTL
=============================================================================
