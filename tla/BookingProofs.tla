---------------------------- MODULE BookingProofs ----------------------------
(* Theorems about Booking, for every value of its constants. *)
EXTENDS Booking, TLAPS

-----------------------------------------------------------------------------
(* What the helpers do to the record of a call                             *)

\* Goto moves one call to another step and changes nothing else of it.
LEMMA GotoFact ==
    ASSUME TypeOK, NEW r \in Requests, NEW step \in Steps, Goto(r, step)
    PROVE  /\ call' \in [Requests -> Calls]
           /\ call'[r].at = step
           /\ call'[r].user = call[r].user
           /\ call'[r].slot = call[r].slot
           /\ call'[r].work = call[r].work
           /\ \A q \in Requests \ {r} : call'[q] = call[q]
<1>1. call[r] \in Calls
  BY DEF TypeOK
<1>2. [call[r] EXCEPT !.at = step] \in Calls
  BY <1>1 DEF Calls
<1>3. call' = [call EXCEPT ![r] = [call[r] EXCEPT !.at = step]]
  BY DEF Goto
<1>4. QED
  BY <1>1, <1>2, <1>3 DEF TypeOK, Calls

\* Begin starts a step of one call on a set of bookings.
LEMMA BeginFact ==
    ASSUME TypeOK, NEW r \in Requests, NEW step \in Steps, NEW B \in SUBSET Bookings,
           Begin(r, step, B)
    PROVE  /\ call' \in [Requests -> Calls]
           /\ call'[r].at = step
           /\ call'[r].work = B
           /\ \A q \in Requests \ {r} : call'[q] = call[q]
<1>1. /\ Idle \in Calls
      /\ [Idle EXCEPT !.at = step, !.work = B] \in Calls
      /\ [Idle EXCEPT !.at = step, !.work = B].at = step
      /\ [Idle EXCEPT !.at = step, !.work = B].work = B
  BY DEF Idle, Calls, Steps
<1>2. QED
  BY <1>1 DEF TypeOK, Begin

\* Done ends one call.
LEMMA DoneFact ==
    ASSUME TypeOK, NEW r \in Requests, Done(r)
    PROVE  /\ call' \in [Requests -> Calls]
           /\ call'[r].at = "idle"
           /\ call'[r].work = {}
           /\ \A q \in Requests \ {r} : call'[q] = call[q]
<1>1. Idle \in Calls /\ Idle.at = "idle" /\ Idle.work = {}
  BY DEF Idle, Calls, Steps
<1>2. QED
  BY <1>1 DEF TypeOK, Done

-----------------------------------------------------------------------------
(* Type correctness                                                        *)

\* Every step keeps the types: one step of the proof per action.
LEMMA TypeStep == TypeOK /\ [Next]_vars => TypeOK'
<1> SUFFICES ASSUME TypeOK, [Next]_vars PROVE TypeOK'
  OBVIOUS
<1> USE ConstantsOK
<1>0. \A r \in Requests : call[r] \in Calls
  BY DEF TypeOK
<1>call. ASSUME call' \in [Requests -> Calls], UNCHANGED <<db, clock, redisLock>>
         PROVE TypeOK'
  BY <1>call DEF TypeOK, db, clock
<1>1. ASSUME NEW r \in Requests, NEW u \in Users, NEW s \in Slots, CreateLock(r, u, s)
      PROVE TypeOK'
  <2>1. [at |-> "select", user |-> u, slot |-> s, work |-> {}] \in Calls
    BY DEF Calls, Steps, WaitingTx
  <2>2. QED
    BY <1>1, <2>1 DEF CreateLock, TypeOK, db, clock
<1>2. ASSUME NEW r \in Requests, CreateSelect(r) PROVE TypeOK'
  <2>1. CASE Goto(r, "insert")
    BY <2>1, <1>2, GotoFact, <1>call DEF CreateSelect, Steps, SlotTx
  <2>2. CASE Goto(r, "unlock")
    BY <2>2, <1>2, GotoFact, <1>call DEF CreateSelect, Steps
  <2>3. QED
    BY <1>2, <2>1, <2>2 DEF CreateSelect
<1>3. ASSUME NEW r \in Requests, CreateInsert(r) PROVE TypeOK'
  <2>1. call' \in [Requests -> Calls]
    BY <1>3, GotoFact DEF CreateInsert, Steps
  <2>2. call[r].user \in Users \cup {Nobody} /\ call[r].slot \in Slots \cup {NoSlot}
    BY <1>0 DEF Calls
  <2>3. QED
    BY <1>3, <2>1, <2>2 DEF CreateInsert, TypeOK, Statuses, clock
<1>4. ASSUME NEW r \in Requests, CreateConflict(r) PROVE TypeOK'
  BY <1>4, GotoFact, <1>call DEF CreateConflict, Steps
<1>5. ASSUME NEW r \in Requests, CreateUnlock(r) PROVE TypeOK'
  BY <1>5, DoneFact DEF CreateUnlock, AfterRelease, TypeOK, db, clock
<1>6. ASSUME NEW r \in Requests, NEW b \in Bookings, CancelFind(r, b) PROVE TypeOK'
  BY <1>6, BeginFact, <1>call DEF CancelFind, Steps, WaitingTx
<1>7. ASSUME NEW r \in Requests, CancelLock(r) PROVE TypeOK'
  <2>1. CASE Goto(r, "cancel_commit")
    BY <2>1, <1>7, GotoFact, <1>call DEF CancelLock, Steps, BookingTx
  <2>2. CASE Done(r)
    BY <2>2, <1>7, DoneFact, <1>call DEF CancelLock
  <2>3. QED
    BY <1>7, <2>1, <2>2 DEF CancelLock
<1>8. ASSUME NEW r \in Requests, CancelCommit(r) PROVE TypeOK'
  BY <1>8, DoneFact DEF CancelCommit, Released, TypeOK, Statuses, clock
<1>9. ASSUME NEW r \in Requests, SweepFind(r) PROVE TypeOK'
  <2>1. {b \in stale : status[b] = "PENDING"} \in SUBSET Bookings
    BY DEF TypeOK
  <2>2. QED
    BY <1>9, <2>1, BeginFact, <1>call DEF SweepFind, Steps, WaitingTx
<1>10. ASSUME NEW r \in Requests, SweepLock(r) PROVE TypeOK'
  <2>1. StillPending(call[r].work) \in SUBSET Bookings
    BY <1>0 DEF StillPending, Calls
  <2>2. CASE Done(r)
    BY <2>2, <1>10, DoneFact, <1>call DEF SweepLock
  <2>3. CASE Begin(r, "sweep_commit", StillPending(call[r].work))
    BY <2>1, <2>3, <1>10, BeginFact, <1>call DEF SweepLock, Steps, BookingTx
  <2>4. QED
    BY <1>10, <2>2, <2>3 DEF SweepLock
<1>11. ASSUME NEW r \in Requests, SweepCommit(r) PROVE TypeOK'
  BY <1>11, DoneFact DEF SweepCommit, Released, TypeOK, Statuses, clock
<1>12. ASSUME NEW r \in Requests, JobFind(r) PROVE TypeOK'
  BY <1>12, BeginFact, <1>call DEF JobFind, Steps
<1>13. ASSUME NEW r \in Requests, JobUpdate(r) PROVE TypeOK'
  <2>1. PICK b \in call[r].work :
           /\ status' = [status EXCEPT ![b] = "COMPLETED"]
           /\ Done(r) \/ Begin(r, "complete", call[r].work \ {b})
    BY <1>13 DEF JobUpdate
  <2>2. call[r].work \ {b} \in SUBSET Bookings
    BY <1>0 DEF Calls
  <2>3. call' \in [Requests -> Calls]
    BY <2>1, <2>2, DoneFact, BeginFact DEF Steps
  <2>4. QED
    BY <1>13, <2>1, <2>3 DEF JobUpdate, TypeOK, Statuses, clock
<1>14. ASSUME NEW r \in Requests, NEW b \in Bookings, AdminFind(r, b) PROVE TypeOK'
  BY <1>14, BeginFact, <1>call DEF AdminFind, Steps
<1>15. ASSUME NEW r \in Requests, AdminUpdate(r) PROVE TypeOK'
  BY <1>15, DoneFact DEF AdminUpdate, TypeOK, Statuses, clock
<1>16. ASSUME NEW r \in Requests, NEW b \in Bookings, RefundCheck(r, b) PROVE TypeOK'
  BY <1>16, BeginFact, <1>call DEF RefundCheck, Steps, WaitingTx
<1>17. ASSUME NEW r \in Requests, RefundLock(r) PROVE TypeOK'
  <2>1. ASSUME NEW step \in {"refund_keep", "refund_free"}, Goto(r, step) PROVE TypeOK'
    BY <2>1, <1>17, GotoFact, <1>call DEF RefundLock, Steps, BookingTx
  <2>2. QED
    BY <1>17, <2>1 DEF RefundLock
<1>18. ASSUME NEW r \in Requests, RefundCommit(r) PROVE TypeOK'
  BY <1>18, DoneFact DEF RefundCommit, TypeOK, Statuses, clock
<1>19. ASSUME NEW r \in Requests, TxAborts(r) PROVE TypeOK'
  <2>1. CASE Goto(r, "unlock")
    BY <2>1, <1>19, GotoFact, <1>call DEF TxAborts, Steps
  <2>2. CASE Done(r)
    BY <2>2, <1>19, DoneFact, <1>call DEF TxAborts
  <2>3. QED
    BY <1>19, <2>1, <2>2 DEF TxAborts
<1>20. ASSUME NEW r \in Requests, Crash(r) PROVE TypeOK'
  BY <1>20, DoneFact DEF Crash, TypeOK, db, clock
<1>21. ASSUME NEW b \in Bookings, PaymentSucceeds(b) \/ PaymentOverwritten(b) \/ Ages(b)
       PROVE TypeOK'
  BY <1>21 DEF PaymentSucceeds, PaymentOverwritten, Ages, TypeOK, Statuses, db, clock
<1>22. ASSUME NEW t \in Turfs, RemoveTurf(t) PROVE TypeOK'
  BY <1>22 DEF RemoveTurf, TypeOK, clock
<1>23. ASSUME NEW s \in Slots, SlotTime(s) PROVE TypeOK'
  BY <1>23 DEF SlotTime, NextPhase, TypeOK, Phases, db
<1>24. ASSUME NEW s \in Slots, LockExpires(s) PROVE TypeOK'
  BY <1>24 DEF LockExpires, TypeOK, db, clock
<1>25. CASE CleanupOldSlots
  BY <1>25 DEF CleanupOldSlots, TypeOK, clock
<1>26. CASE UNCHANGED vars
  BY <1>26 DEF vars, TypeOK
<1>27. QED
  BY <1>1, <1>2, <1>3, <1>4, <1>5, <1>6, <1>7, <1>8, <1>9, <1>10, <1>11, <1>12, <1>13,
     <1>14, <1>15, <1>16, <1>17, <1>18, <1>19, <1>20, <1>21, <1>22, <1>23, <1>24, <1>25, <1>26
     DEF Next, Arrive, Step, Outside

\* The tables, the Redis keys and the calls always have their types.
THEOREM TypeCorrect == Spec => []TypeOK
<1>1. Init => TypeOK
  <2>1. Idle \in Calls
    BY DEF Idle, Calls, Steps
  <2>2. QED
    BY <2>1 DEF Init, TypeOK, Phases, Statuses
<1>2. QED
  BY <1>1, TypeStep, PTL DEF Spec

-----------------------------------------------------------------------------
(* The inductive invariant                                                 *)

\* What a step that leaves the tables alone has to show: the call it moves does
\* not end up inserting, and works on bookings that exist.
LEMMA CallStep ==
    ASSUME IInv, TypeOK', UNCHANGED <<slotRow, status, slotOf>>, NEW r \in Requests,
           \A q \in Requests \ {r} : call'[q] = call[q],
           call'[r].at \notin {"insert", "refund_keep"},
           call'[r].at = "select" => call'[r].slot \in Slots,
           \A b \in call'[r].work : Exists(b)
    PROVE  IInv'
<1>1. /\ OneRowPerSlot' /\ NoDanglingSlot' /\ ActiveHoldsSlot' /\ NoGhostHold'
  BY DEF IInv, OneRowPerSlot, NoDanglingSlot, ActiveHoldsSlot, NoGhostHold, Exists, Active, OnSlot
<1>2. SelectsSlot' /\ InsertAlone'
  BY DEF IInv, SelectsSlot, InsertAlone, At
<1>3. WorkExists'
  BY DEF IInv, WorkExists, Exists
<1>4. NoKeep'
  BY DEF IInv, NoKeep, At
<1>5. QED
  BY <1>1, <1>2, <1>3, <1>4 DEF IInv

\* The status of one booking changes and its slot stays held: the new status is
\* neither CANCELLED nor more live than the old one.
LEMMA StatusStep ==
    ASSUME IInv, TypeOK', UNCHANGED <<slotRow, slotOf>>,
           NEW b \in Bookings, NEW v \in {"CONFIRMED", "COMPLETED"}, Exists(b),
           status' = [status EXCEPT ![b] = v],
           v = "CONFIRMED" => Active(b),
           \A q \in Requests :
              \/ call'[q] = call[q]
              \/ /\ call'[q].at \notin {"select", "insert", "refund_keep"}
                 /\ call'[q].work \subseteq call[q].work
    PROVE  IInv'
<1> USE DEF TypeOK
<1>1. \A c \in Bookings : Exists(c)' <=> Exists(c)
  BY DEF IInv, Exists
<1>2. OneRowPerSlot' /\ NoDanglingSlot'
  BY <1>1 DEF IInv, OneRowPerSlot, NoDanglingSlot
<1>3. ActiveHoldsSlot'
  BY DEF IInv, ActiveHoldsSlot, Active
<1>4. NoGhostHold'
  BY <1>1 DEF IInv, NoGhostHold, OnSlot
<1>5. SelectsSlot' /\ InsertAlone' /\ NoKeep'
  BY DEF IInv, SelectsSlot, InsertAlone, NoKeep, At
<1>6. WorkExists'
  <2>1. \A q \in Requests : call[q].work \in SUBSET Bookings
    BY DEF IInv, Calls
  <2>2. \A q \in Requests : \A c \in call'[q].work : c \in call[q].work
    OBVIOUS
  <2>3. QED
    BY <1>1, <2>1, <2>2 DEF IInv, WorkExists
<1>7. QED
  BY <1>2, <1>3, <1>4, <1>5, <1>6 DEF IInv

\* No booking outside B is on a slot of B, so releasing B frees all its slots.
LEMMA ReleasedFrees ==
    ASSUME IInv, NEW B \in SUBSET Bookings, \A b \in B : Exists(b)
    PROVE  Released(B) = [s \in Slots |-> IF s \in SlotsOf(B) THEN "free" ELSE slotRow[s]]
<1>1. \A s \in SlotsOf(B) : ~ActiveElsewhere(s, B)
  BY DEF IInv, SlotsOf, ActiveElsewhere, OnSlot, OneRowPerSlot
<1>2. QED
  BY <1>1 DEF Released

\* The bookings B are cancelled and their slots freed in one step.
LEMMA CancelStep ==
    ASSUME IInv, TypeOK', NEW B \in SUBSET Bookings, \A b \in B : Exists(b),
           status' = [b \in Bookings |-> IF b \in B THEN "CANCELLED" ELSE status[b]],
           slotRow' = [s \in Slots |-> IF s \in SlotsOf(B) THEN "free" ELSE slotRow[s]],
           UNCHANGED slotOf, NEW r \in Requests, Done(r)
    PROVE  IInv'
<1>0. TypeOK
  BY DEF IInv
<1>1. \A c \in Bookings : Exists(c)' <=> Exists(c)
  BY DEF Exists
<1>2. OneRowPerSlot'
  BY <1>1 DEF IInv, OneRowPerSlot
<1>3. NoDanglingSlot'
  BY <1>1 DEF IInv, NoDanglingSlot
<1>4. ActiveHoldsSlot'
  <2> SUFFICES ASSUME NEW c \in Bookings, Active(c)'
               PROVE  slotOf[c] \in Slots /\ slotRow'[slotOf[c]] = "booked"
    BY DEF ActiveHoldsSlot
  <2>1. c \notin B /\ Active(c) /\ Exists(c)
    BY DEF Active, Exists
  <2>2. slotOf[c] \in Slots /\ slotRow[slotOf[c]] = "booked"
    BY <2>1 DEF IInv, ActiveHoldsSlot
  <2>3. slotOf[c] \notin SlotsOf(B)
    BY <2>1 DEF IInv, OneRowPerSlot, SlotsOf
  <2>4. QED
    BY <2>2, <2>3
<1>5. NoGhostHold'
  <2> SUFFICES ASSUME NEW s \in Slots, slotRow'[s] = "booked"
               PROVE  \E b \in Bookings : Exists(b)' /\ slotOf[b] = s /\ status'[b] # "CANCELLED"
    BY DEF NoGhostHold, OnSlot
  <2>1. s \notin SlotsOf(B) /\ slotRow[s] = "booked"
    OBVIOUS
  <2>2. PICK b \in Bookings : Exists(b) /\ slotOf[b] = s /\ status[b] # "CANCELLED"
    BY <2>1 DEF IInv, NoGhostHold, OnSlot
  <2>3. b \notin B
    BY <2>1, <2>2 DEF SlotsOf
  <2>4. QED
    BY <2>2, <2>3, <1>1
<1>6. /\ call'[r].at = "idle"
      /\ call'[r].work = {}
      /\ \A q \in Requests \ {r} : call'[q] = call[q]
  BY <1>0, DoneFact
<1>7. SelectsSlot' /\ InsertAlone' /\ NoKeep'
  BY <1>6 DEF IInv, SelectsSlot, InsertAlone, NoKeep, At
<1>8. WorkExists'
  BY <1>0, <1>1, <1>6 DEF IInv, WorkExists, TypeOK, Calls
<1>9. QED
  BY <1>2, <1>3, <1>4, <1>5, <1>7, <1>8 DEF IInv

\* Every step keeps the invariant: one step of the proof per action.
LEMMA InvStep == IInv /\ [Next]_vars => IInv'
<1> SUFFICES ASSUME IInv, [Next]_vars PROVE IInv'
  OBVIOUS
<1> USE ConstantsOK
<1>t. TypeOK /\ TypeOK'
  BY TypeStep DEF IInv
<1>c. \A r \in Requests : call[r] \in Calls
  BY <1>t DEF TypeOK
<1>w. \A r \in Requests : /\ call[r].work \in SUBSET Bookings
                          /\ \A b \in call[r].work : Exists(b)
  BY <1>c DEF IInv, WorkExists, Calls
<1>d. ASSUME NEW r \in Requests, Done(r), UNCHANGED <<slotRow, status, slotOf>> PROVE IInv'
  BY <1>t, <1>d, DoneFact, CallStep
<1>g. ASSUME NEW r \in Requests, NEW step \in Steps \ {"select", "insert", "refund_keep"}, Goto(r, step),
             UNCHANGED <<slotRow, status, slotOf>>
      PROVE IInv'
  BY <1>t, <1>g, <1>w, GotoFact, CallStep
<1>b. ASSUME NEW r \in Requests, NEW step \in Steps \ {"select", "insert", "refund_keep"},
             NEW B \in SUBSET Bookings, \A b \in B : Exists(b), Begin(r, step, B),
             UNCHANGED <<slotRow, status, slotOf>>
      PROVE IInv'
  BY <1>t, <1>b, BeginFact, CallStep
<1>1. ASSUME NEW r \in Requests, NEW u \in Users, NEW s \in Slots, CreateLock(r, u, s)
      PROVE IInv'
  <2>1. /\ call'[r].at = "select" /\ call'[r].slot = s /\ call'[r].work = {}
        /\ \A q \in Requests \ {r} : call'[q] = call[q]
    BY <1>1, <1>t DEF CreateLock, TypeOK
  <2>2. QED
    BY <1>1, <1>t, <2>1, CallStep DEF CreateLock, db
<1>2. ASSUME NEW r \in Requests, CreateSelect(r) PROVE IInv'
  <2>1. CASE Goto(r, "unlock")
    BY <2>1, <1>2, <1>g DEF CreateSelect, Steps, db
  <2>2. CASE Goto(r, "insert") /\ Bookable(call[r].user, call[r].slot)
    <3>1. /\ call'[r].at = "insert"
          /\ call'[r].slot = call[r].slot
          /\ call'[r].work = call[r].work
          /\ \A q \in Requests \ {r} : call'[q] = call[q]
      BY <2>2, <1>t, GotoFact DEF Steps, SlotTx
    <3>2. UNCHANGED <<slotRow, status, slotOf>>
      BY <1>2 DEF CreateSelect, db
    <3>3. slotRow[call[r].slot] = "free"
      BY <2>2 DEF Bookable
    <3>4. call[r].slot \in Slots
      BY <1>2, <1>c DEF CreateSelect, IInv, SelectsSlot, At
    <3>5. \A q \in Requests : ~(At(q, "insert") /\ call[q].slot = call[r].slot)
      BY <1>2 DEF CreateSelect, SlotLocked, SlotTx, At
    <3>6. SelectsSlot' /\ InsertAlone'
      BY <3>1, <3>2, <3>3, <3>4, <3>5 DEF IInv, SelectsSlot, InsertAlone, At
    <3>7. WorkExists' /\ NoKeep'
      BY <3>1, <3>2 DEF IInv, WorkExists, NoKeep, Exists, At
    <3>8. /\ OneRowPerSlot' /\ NoDanglingSlot' /\ ActiveHoldsSlot' /\ NoGhostHold'
      BY <3>2 DEF IInv, OneRowPerSlot, NoDanglingSlot, ActiveHoldsSlot, NoGhostHold, Exists,
                  Active, OnSlot
    <3>9. QED
      BY <1>t, <3>6, <3>7, <3>8 DEF IInv
  <2>3. QED
    BY <1>2, <2>1, <2>2 DEF CreateSelect
<1>3. ASSUME NEW r \in Requests, CreateInsert(r) PROVE IInv'
  <2> DEFINE s == call[r].slot
  <2>1. PICK b \in Bookings :
           /\ ~Exists(b)
           /\ status' = [status EXCEPT ![b] = "PENDING"]
           /\ slotOf' = [slotOf EXCEPT ![b] = s]
    BY <1>3 DEF CreateInsert
  <2>2. /\ OnSlot(s) = {}
        /\ slotRow' = [slotRow EXCEPT ![s] = "booked"]
    BY <1>3 DEF CreateInsert, SlotIndexed
  <2>3. s \in Slots /\ slotRow[s] = "free"
    BY <1>3 DEF CreateInsert, IInv, InsertAlone, At
  <2>4. /\ call'[r].at = "unlock"
        /\ call'[r].work = call[r].work
        /\ \A q \in Requests \ {r} : call'[q] = call[q]
    BY <1>3, <1>t, GotoFact DEF CreateInsert, Steps
  <2> USE <1>t, <2>1, <2>2, <2>3, <2>4 DEF TypeOK
  <2>5. /\ Exists(b)' /\ slotOf'[b] = s /\ status'[b] = "PENDING"
        /\ \A c \in Bookings \ {b} :
             /\ Exists(c)' <=> Exists(c)
             /\ Active(c)' <=> Active(c)
             /\ slotOf'[c] = slotOf[c] /\ status'[c] = status[c]
             /\ Exists(c) => slotOf[c] # s
    BY DEF Exists, Active, OnSlot
  <2> HIDE DEF s, TypeOK
  <2>6. OneRowPerSlot'
    BY <2>5 DEF IInv, OneRowPerSlot
  <2>7. NoDanglingSlot'
    BY <2>5 DEF IInv, NoDanglingSlot, TypeOK
  <2>8. ActiveHoldsSlot'
    BY <2>5 DEF IInv, ActiveHoldsSlot, TypeOK
  <2>9. NoGhostHold'
    <3> SUFFICES ASSUME NEW x \in Slots, slotRow'[x] = "booked"
                 PROVE  \E c \in Bookings : Exists(c)' /\ slotOf'[c] = x /\ status'[c] # "CANCELLED"
      BY DEF NoGhostHold, OnSlot
    <3>1. CASE x = s
      BY <3>1, <2>5
    <3>2. CASE x # s
      <4>1. PICK c \in Bookings : Exists(c) /\ slotOf[c] = x /\ status[c] # "CANCELLED"
        BY <3>2 DEF IInv, NoGhostHold, OnSlot, TypeOK
      <4>2. QED
        BY <4>1, <2>5
    <3>3. QED
      BY <3>1, <3>2
  <2>10. InsertAlone'
    <3>1. \A q \in Requests \ {r} : At(q, "insert") => call[q].slot # s
      BY <1>3 DEF IInv, InsertAlone, CreateInsert, s
    <3>2. QED
      BY <3>1 DEF IInv, InsertAlone, At, TypeOK
  <2>11. SelectsSlot' /\ WorkExists' /\ NoKeep'
    <3>1. \A c \in Bookings : Exists(c) => Exists(c)'
      BY <2>5
    <3>2. QED
      BY <3>1, <1>w DEF IInv, SelectsSlot, WorkExists, NoKeep, At
  <2>12. QED
    BY <2>6, <2>7, <2>8, <2>9, <2>10, <2>11 DEF IInv
<1>4. ASSUME NEW r \in Requests, CreateConflict(r) PROVE IInv'
  BY <1>4, <1>g DEF CreateConflict, Steps, db
<1>5. ASSUME NEW r \in Requests, CreateUnlock(r) PROVE IInv'
  BY <1>5, <1>d DEF CreateUnlock, db
<1>6. ASSUME NEW r \in Requests, NEW b \in Bookings, CancelFind(r, b) PROVE IInv'
  BY <1>6, <1>b DEF CancelFind, Steps, WaitingTx, Exists, db
<1>7. ASSUME NEW r \in Requests, CancelLock(r) PROVE IInv'
  BY <1>7, <1>d, <1>g DEF CancelLock, Steps, BookingTx, db
<1>8. ASSUME NEW r \in Requests, CancelCommit(r) PROVE IInv'
  BY <1>8, <1>t, <1>w, ReleasedFrees, CancelStep DEF CancelCommit
<1>9. ASSUME NEW r \in Requests, SweepFind(r) PROVE IInv'
  <2>1. {b \in stale : status[b] = "PENDING"} \in SUBSET Bookings
    BY <1>t DEF TypeOK
  <2>2. QED
    BY <1>9, <2>1, <1>b DEF SweepFind, Steps, WaitingTx, Exists, db
<1>10. ASSUME NEW r \in Requests, SweepLock(r) PROVE IInv'
  <2>1. /\ StillPending(call[r].work) \in SUBSET Bookings
        /\ \A b \in StillPending(call[r].work) : Exists(b)
    BY <1>w DEF StillPending
  <2>2. QED
    BY <1>10, <2>1, <1>d, <1>b DEF SweepLock, Steps, BookingTx, db
<1>11. ASSUME NEW r \in Requests, SweepCommit(r) PROVE IInv'
  BY <1>11, <1>t, <1>w, ReleasedFrees, CancelStep DEF SweepCommit
<1>12. ASSUME NEW r \in Requests, JobFind(r) PROVE IInv'
  <2> DEFINE due == {b \in Bookings : status[b] = "CONFIRMED" /\ JobDue(slotOf[b])}
  <2>1. due \in SUBSET Bookings /\ \A b \in due : Exists(b)
    BY DEF Exists
  <2>2. Begin(r, "complete", due) /\ UNCHANGED <<slotRow, status, slotOf>>
    BY <1>12 DEF JobFind, db
  <2> HIDE DEF due
  <2>3. QED
    BY <2>1, <2>2, <1>b DEF Steps
<1>13. ASSUME NEW r \in Requests, JobUpdate(r) PROVE IInv'
  <2>1. PICK b \in call[r].work :
           /\ status' = [status EXCEPT ![b] = "COMPLETED"]
           /\ Done(r) \/ Begin(r, "complete", call[r].work \ {b})
    BY <1>13 DEF JobUpdate
  <2>2. /\ call'[r].at \in {"idle", "complete"}
        /\ call'[r].work \subseteq call[r].work
        /\ \A q \in Requests \ {r} : call'[q] = call[q]
    BY <2>1, <1>t, <1>w, DoneFact, BeginFact DEF Steps
  <2>3. \A q \in Requests :
           \/ call'[q] = call[q]
           \/ /\ call'[q].at \notin {"select", "insert", "refund_keep"}
              /\ call'[q].work \subseteq call[q].work
    BY <2>2
  <2>4. b \in Bookings /\ Exists(b) /\ UNCHANGED <<slotRow, slotOf>>
    BY <1>13, <1>w DEF JobUpdate
  <2>5. QED
    BY <1>t, <2>1, <2>3, <2>4, StatusStep
<1>14. ASSUME NEW r \in Requests, NEW b \in Bookings, AdminFind(r, b) PROVE IInv'
  BY <1>14, <1>b DEF AdminFind, Steps, Exists, db
<1>15. ASSUME NEW r \in Requests, AdminUpdate(r) PROVE IInv'
  <2>1. PICK b \in call[r].work : status' = [status EXCEPT ![b] = "COMPLETED"]
    BY <1>15 DEF AdminUpdate
  <2>2. /\ call'[r].at = "idle" /\ call'[r].work = {}
        /\ \A q \in Requests \ {r} : call'[q] = call[q]
    BY <1>15, <1>t, DoneFact DEF AdminUpdate
  <2>3. \A q \in Requests :
           \/ call'[q] = call[q]
           \/ /\ call'[q].at \notin {"select", "insert", "refund_keep"}
              /\ call'[q].work \subseteq call[q].work
    BY <2>2
  <2>4. b \in Bookings /\ Exists(b) /\ UNCHANGED <<slotRow, slotOf>>
    BY <1>15, <1>w DEF AdminUpdate
  <2>5. QED
    BY <1>t, <2>1, <2>3, <2>4, StatusStep
<1>16. ASSUME NEW r \in Requests, NEW b \in Bookings, RefundCheck(r, b) PROVE IInv'
  BY <1>16, <1>b DEF RefundCheck, Steps, WaitingTx, Exists, db
<1>17. ASSUME NEW r \in Requests, RefundLock(r) PROVE IInv'
  <2>1. \A b \in call[r].work : ~ActiveElsewhere(slotOf[b], {b})
    BY <1>w DEF IInv, OneRowPerSlot, ActiveElsewhere, OnSlot
  <2>2. Goto(r, "refund_free") /\ UNCHANGED <<slotRow, status, slotOf>>
    BY <1>17, <2>1 DEF RefundLock, db
  <2>3. QED
    BY <2>2, <1>g DEF Steps, BookingTx
<1>18. ASSUME NEW r \in Requests, RefundCommit(r) PROVE IInv'
  <2>1. At(r, "refund_free")
    BY <1>18 DEF RefundCommit, IInv, NoKeep, At
  <2>2. PICK b \in call[r].work :
           /\ status' = [status EXCEPT ![b] = "CANCELLED"]
           /\ slotRow' = [slotRow EXCEPT ![slotOf[b]] = "free"]
    BY <1>18, <2>1 DEF RefundCommit
  <2>3. b \in Bookings /\ Exists(b)
    BY <1>w
  <2>4. /\ status' = [c \in Bookings |-> IF c \in {b} THEN "CANCELLED" ELSE status[c]]
        /\ slotRow' = [s \in Slots |-> IF s \in SlotsOf({b}) THEN "free" ELSE slotRow[s]]
    <3>1. SlotsOf({b}) = {slotOf[b]}
      BY DEF SlotsOf
    <3>2. status \in [Bookings -> Statuses] /\ slotRow \in [Slots -> {"free", "booked", "deleted"}]
      BY <1>t DEF TypeOK
    <3>3. QED
      BY <2>2, <2>3, <3>1, <3>2
  <2>5. Done(r) /\ UNCHANGED slotOf
    BY <1>18 DEF RefundCommit
  <2>6. {b} \in SUBSET Bookings /\ \A c \in {b} : Exists(c)
    BY <2>3
  <2>7. QED
    BY <1>t, <2>4, <2>5, <2>6, CancelStep
<1>19. ASSUME NEW r \in Requests, TxAborts(r) PROVE IInv'
  BY <1>19, <1>d, <1>g DEF TxAborts, Steps, db
<1>20. ASSUME NEW r \in Requests, Crash(r) PROVE IInv'
  BY <1>20, <1>d DEF Crash, db
<1>same. ASSUME UNCHANGED <<slotRow, status, slotOf, call>> PROVE IInv'
  BY <1>t, <1>same DEF IInv, OneRowPerSlot, NoDanglingSlot, ActiveHoldsSlot, NoGhostHold,
     SelectsSlot, InsertAlone, WorkExists, NoKeep, Exists, Active, OnSlot, At
<1>21. ASSUME NEW b \in Bookings, PaymentSucceeds(b) PROVE IInv'
  <2>1. CASE status[b] = "PENDING"
    <3>1. status' = [status EXCEPT ![b] = "CONFIRMED"] /\ UNCHANGED <<slotRow, slotOf, call>>
      BY <2>1, <1>21 DEF PaymentSucceeds
    <3>2. Exists(b) /\ Active(b)
      BY <2>1 DEF Exists, Active
    <3>3. QED
      BY <1>t, <3>1, <3>2, StatusStep
  <2>2. CASE status[b] # "PENDING"
    BY <2>2, <1>21, <1>same DEF PaymentSucceeds
  <2>3. QED
    BY <2>1, <2>2
<1>22. ASSUME NEW b \in Bookings, PaymentOverwritten(b) \/ Ages(b) PROVE IInv'
  BY <1>22, <1>same DEF PaymentOverwritten, Ages, db
<1>23. ASSUME NEW t \in Turfs, RemoveTurf(t) PROVE IInv'
  BY <1>23, <1>same DEF RemoveTurf
<1>24. ASSUME NEW s \in Slots, SlotTime(s) \/ LockExpires(s) PROVE IInv'
  BY <1>24, <1>same DEF SlotTime, LockExpires, db
<1>25. CASE CleanupOldSlots
  <2>1. /\ slotRow' = [s \in Slots |-> IF s \in Removable THEN "deleted" ELSE slotRow[s]]
        /\ \A s \in Removable : slotRow[s] = "free" /\ OnSlot(s) = {} /\ ~SlotLocked(s)
        /\ UNCHANGED <<status, slotOf, call>>
    BY <1>25 DEF CleanupOldSlots, Removable
  <2>2. OneRowPerSlot' /\ SelectsSlot' /\ WorkExists' /\ NoKeep'
    BY <2>1 DEF IInv, OneRowPerSlot, SelectsSlot, WorkExists, NoKeep, Exists, At
  <2>3. NoDanglingSlot'
    BY <2>1 DEF IInv, NoDanglingSlot, OnSlot, Exists
  <2>4. ActiveHoldsSlot'
    BY <2>1 DEF IInv, ActiveHoldsSlot, Active
  <2>5. NoGhostHold'
    BY <2>1 DEF IInv, NoGhostHold, OnSlot, Exists
  <2>6. InsertAlone'
    BY <2>1 DEF IInv, InsertAlone, SlotLocked, SlotTx, At
  <2>7. QED
    BY <1>t, <2>2, <2>3, <2>4, <2>5, <2>6 DEF IInv
<1>26. CASE UNCHANGED vars
  BY <1>26, <1>same DEF vars
<1>27. QED
  BY <1>1, <1>2, <1>3, <1>4, <1>5, <1>6, <1>7, <1>8, <1>9, <1>10, <1>11, <1>12, <1>13,
     <1>14, <1>15, <1>16, <1>17, <1>18, <1>19, <1>20, <1>21, <1>22, <1>23, <1>24, <1>25, <1>26
     DEF Next, Arrive, Step, Outside

\* The inductive invariant holds in every reachable state.
THEOREM InvHolds == Spec => []IInv
<1>1. Init => IInv
  <2>1. Init => TypeOK
    BY DEF Init, TypeOK, Idle, Calls, Steps, Phases, Statuses
  <2>2. QED
    BY <2>1 DEF Init, IInv, OneRowPerSlot, NoDanglingSlot, ActiveHoldsSlot, NoGhostHold,
       SelectsSlot, InsertAlone, WorkExists, NoKeep, Exists, Active, OnSlot, At, Idle
<1>2. QED
  BY <1>1, InvStep, PTL DEF Spec

-----------------------------------------------------------------------------
(* The properties of the tables                                            *)

\* No interleaving of create, cancel, sweep, refund and completion leaves two
\* live bookings on one slot.
THEOREM NoDoubleBookingHolds == Spec => []NoDoubleBooking
<1>1. IInv => NoDoubleBooking
  BY DEF IInv, OneRowPerSlot, NoDoubleBooking, Active, Exists
<1>2. QED
  BY <1>1, InvHolds, PTL

\* The slot of a live booking is marked as booked.
THEOREM ActiveHoldsSlotHolds == Spec => []ActiveHoldsSlot
<1>1. IInv => ActiveHoldsSlot
  BY DEF IInv
<1>2. QED
  BY <1>1, InvHolds, PTL

\* A slot marked as booked has a booking that was not cancelled: none is blocked
\* for good.
THEOREM NoGhostHoldHolds == Spec => []NoGhostHold
<1>1. IInv => NoGhostHold
  BY DEF IInv
<1>2. QED
  BY <1>1, InvHolds, PTL

\* A cancelled booking is never live again.
THEOREM NoRevivalHolds == Spec => NoRevival
<1> DEFINE Kept == \A b \in Bookings :
                     status[b] = "CANCELLED" => status'[b] \notin {"PENDING", "CONFIRMED"}
<1>1. TypeOK /\ [Next]_vars => Kept
  <2> SUFFICES ASSUME TypeOK, [Next]_vars, NEW b \in Bookings, status[b] = "CANCELLED"
               PROVE  status'[b] \notin {"PENDING", "CONFIRMED"}
    OBVIOUS
  <2>1. CASE status' = status
    BY <2>1
  <2>2. ASSUME NEW r \in Requests, CreateInsert(r)
        PROVE  status'[b] \notin {"PENDING", "CONFIRMED"}
    BY <2>2 DEF CreateInsert, Exists, TypeOK
  <2>3. ASSUME NEW r \in Requests, CancelCommit(r) \/ SweepCommit(r)
        PROVE  status'[b] \notin {"PENDING", "CONFIRMED"}
    BY <2>3 DEF CancelCommit, SweepCommit
  <2>4. ASSUME NEW r \in Requests, JobUpdate(r) \/ AdminUpdate(r) \/ RefundCommit(r)
        PROVE  status'[b] \notin {"PENDING", "CONFIRMED"}
    BY <2>4 DEF JobUpdate, AdminUpdate, RefundCommit, TypeOK
  <2>5. ASSUME NEW c \in Bookings, PaymentSucceeds(c)
        PROVE  status'[b] \notin {"PENDING", "CONFIRMED"}
    BY <2>5 DEF PaymentSucceeds, TypeOK
  <2>6. QED
    BY <2>1, <2>2, <2>3, <2>4, <2>5
       DEF Next, Arrive, Step, Outside, vars, db, CreateLock, CreateSelect, CreateConflict,
           CreateUnlock, CancelFind, CancelLock, SweepFind, SweepLock, JobFind, AdminFind,
           RefundCheck, RefundLock, TxAborts, Crash, PaymentOverwritten, Ages, RemoveTurf,
           SlotTime, LockExpires, CleanupOldSlots
<1>2. TypeOK /\ [Next]_vars => [Kept]_vars
  BY <1>1
<1>3. QED
  BY <1>2, TypeCorrect, PTL DEF Spec, NoRevival

\* A Redis lock leaves its owner only by expiry or in the owner's last step.
THEOREM OnlyOwnerReleasesHolds == Spec => OnlyOwnerReleases
<1> DEFINE Kept == \A s \in Slots, r \in Requests :
                     redisLock[s] = r /\ redisLock'[s] # r => call'[r].at = "idle" \/ call' = call
<1>1. TypeOK /\ [Next]_vars => Kept
  <2> SUFFICES ASSUME TypeOK, [Next]_vars, NEW s \in Slots, NEW r \in Requests,
                      redisLock[s] = r, redisLock'[s] # r
               PROVE  call'[r].at = "idle" \/ call' = call
    OBVIOUS
  <2> USE ConstantsOK
  <2>1. ASSUME NEW q \in Requests, NEW u \in Users, NEW z \in Slots, CreateLock(q, u, z)
        PROVE  FALSE
    BY <2>1 DEF CreateLock, TypeOK
  <2>2. ASSUME NEW q \in Requests, CreateUnlock(q) PROVE call'[r].at = "idle"
    <3>1. q = r
      BY <2>2 DEF CreateUnlock, AfterRelease, TypeOK
    <3>2. QED
      BY <2>2, <3>1, DoneFact DEF CreateUnlock
  <2>3. ASSUME NEW q \in Requests, Crash(q) PROVE call'[r].at = "idle"
    <3>1. q = r
      BY <2>3 DEF Crash, TypeOK
    <3>2. QED
      BY <2>3, <3>1, DoneFact DEF Crash
  <2>4. ASSUME NEW z \in Slots, LockExpires(z) PROVE call' = call
    BY <2>4 DEF LockExpires
  <2>5. CASE redisLock' = redisLock
    BY <2>5
  <2>6. QED
    BY <2>1, <2>2, <2>3, <2>4, <2>5
       DEF Next, Arrive, Step, Outside, vars, db, clock, CreateSelect, CreateConflict,
           CreateInsert, CancelFind, CancelLock, CancelCommit, SweepFind, SweepLock, SweepCommit,
           JobFind, JobUpdate, AdminFind, AdminUpdate, RefundCheck, RefundLock, RefundCommit,
           TxAborts, PaymentSucceeds, PaymentOverwritten, Ages, RemoveTurf, SlotTime,
           CleanupOldSlots
<1>2. TypeOK /\ [Next]_vars => [Kept]_vars
  BY <1>1
<1>3. QED
  BY <1>2, TypeCorrect, PTL DEF Spec, OnlyOwnerReleases

-----------------------------------------------------------------------------
(* The sweep and the rows that it has locked                               *)

\* The rows of bookings that a call has locked belong to it alone.
Holds(r, b) == call[r].at \in BookingTx /\ b \in call[r].work
RowsAlone == \A q, r \in Requests, b \in Bookings : Holds(q, b) /\ Holds(r, b) => q = r

\* What the sweep is about to cancel is PENDING for as long as it has it locked.
SweepsPending ==
    \A r \in Requests, b \in Bookings :
      At(r, "sweep_commit") /\ b \in call[r].work => status[b] = "PENDING"

\* A cancel or a refund that waits for its row is about one booking.
OneRow == \A r \in Requests : call[r].at \in {"cancel_lock", "refund_lock"} =>
                                \E b \in Bookings : call[r].work = {b}

LocksInv == RowsAlone /\ SweepsPending /\ OneRow

\* What a step of one call has to show: it locks rows that are unlocked, leaves
\* the rows that another call has locked PENDING, and sweeps what is PENDING.
LEMMA LocksStep ==
    ASSUME LocksInv, NEW r \in Requests, \A q \in Requests \ {r} : call'[q] = call[q],
           \A b \in Bookings : Holds(r, b)' => Holds(r, b) \/ ~RowLocked(b),
           \A b \in Bookings, q \in Requests \ {r} :
             Holds(q, b) /\ status[b] = "PENDING" => status'[b] = "PENDING",
           call'[r].at = "sweep_commit" =>
             \A b \in Bookings : b \in call'[r].work => status'[b] = "PENDING",
           call'[r].at \in {"cancel_lock", "refund_lock"} =>
             \E b \in Bookings : call'[r].work = {b}
    PROVE  LocksInv'
<1>1. \A q \in Requests \ {r}, b \in Bookings : Holds(q, b)' <=> Holds(q, b)
  BY DEF Holds
<1>2. RowsAlone'
  BY <1>1 DEF LocksInv, RowsAlone, RowLocked, Holds
<1>3. SweepsPending'
  <2>1. ASSUME NEW q \in Requests \ {r}, NEW b \in Bookings, call'[q].at = "sweep_commit",
               b \in call'[q].work
        PROVE  status'[b] = "PENDING"
    BY <2>1 DEF LocksInv, SweepsPending, Holds, BookingTx, At
  <2>2. QED
    BY <2>1 DEF SweepsPending, At
<1>4. OneRow'
  BY DEF LocksInv, OneRow
<1>5. QED
  BY <1>2, <1>3, <1>4 DEF LocksInv

\* A call that ends, or waits for a row, locks nothing.
LEMMA LocksLeave ==
    ASSUME LocksInv, NEW r \in Requests, \A q \in Requests \ {r} : call'[q] = call[q],
           call'[r].at \notin BookingTx,
           \A b \in Bookings, q \in Requests \ {r} :
             Holds(q, b) /\ status[b] = "PENDING" => status'[b] = "PENDING",
           call'[r].at \in {"cancel_lock", "refund_lock"} =>
             \E b \in Bookings : call'[r].work = {b}
    PROVE  LocksInv'
<1>1. call'[r].at # "sweep_commit" /\ \A b \in Bookings : ~Holds(r, b)'
  BY DEF Holds, BookingTx
<1>2. QED
  BY <1>1, LocksStep

\* Every step keeps the locks as they should be.
LEMMA LocksKeep == IInv /\ LocksInv /\ [Next]_vars => LocksInv'
<1> SUFFICES ASSUME IInv, LocksInv, [Next]_vars PROVE LocksInv'
  OBVIOUS
<1>t. TypeOK /\ \A r \in Requests : call[r] \in Calls /\ call[r].work \in SUBSET Bookings
  BY DEF IInv, TypeOK, Calls
<1>d. ASSUME NEW r \in Requests, Done(r),
             \A b \in Bookings, q \in Requests \ {r} :
               Holds(q, b) /\ status[b] = "PENDING" => status'[b] = "PENDING"
      PROVE  LocksInv'
  BY <1>t, <1>d, DoneFact, LocksLeave DEF BookingTx
<1>g. ASSUME NEW r \in Requests, NEW step \in {"insert", "unlock"}, Goto(r, step),
             \A b \in Bookings, q \in Requests \ {r} :
               Holds(q, b) /\ status[b] = "PENDING" => status'[b] = "PENDING"
      PROVE  LocksInv'
  BY <1>t, <1>g, GotoFact, LocksLeave DEF BookingTx, Steps, SlotTx
<1>b. ASSUME NEW r \in Requests, NEW step \in WaitingTx \cup {"complete", "admin"},
             NEW B \in SUBSET Bookings, Begin(r, step, B), UNCHANGED status,
             step \in {"cancel_lock", "refund_lock"} => \E b \in Bookings : B = {b}
      PROVE  LocksInv'
  <2>1. step \in Steps \ BookingTx
    BY DEF WaitingTx, BookingTx, Steps
  <2>2. QED
    BY <1>t, <1>b, <2>1, BeginFact, LocksLeave
\* A call that writes only the rows that it has locked touches nobody else's.
<1>c. ASSUME NEW r \in Requests, call[r].at \in BookingTx, Done(r),
             \A b \in Bookings : b \notin call[r].work => status'[b] = status[b]
      PROVE  LocksInv'
  <2>1. \A b \in Bookings, q \in Requests \ {r} : Holds(q, b) => b \notin call[r].work
    BY <1>c DEF LocksInv, RowsAlone, Holds
  <2>2. QED
    BY <1>c, <1>d, <2>1
<1>1. ASSUME NEW r \in Requests, NEW u \in Users, NEW s \in Slots, CreateLock(r, u, s)
      PROVE  LocksInv'
  <2>1. call'[r].at = "select" /\ \A q \in Requests \ {r} : call'[q] = call[q]
    BY <1>1, <1>t DEF CreateLock, TypeOK
  <2>2. QED
    BY <1>1, <2>1, LocksLeave DEF CreateLock, BookingTx, db
<1>2. ASSUME NEW r \in Requests, CreateSelect(r) \/ CreateConflict(r) PROVE LocksInv'
  BY <1>2, <1>g DEF CreateSelect, CreateConflict, db
<1>3. ASSUME NEW r \in Requests, CreateInsert(r) PROVE LocksInv'
  <2>1. PICK b \in Bookings : ~Exists(b) /\ status' = [status EXCEPT ![b] = "PENDING"]
    BY <1>3 DEF CreateInsert
  <2>2. \A c \in Bookings : status[c] = "PENDING" => status'[c] = "PENDING"
    BY <1>t, <2>1 DEF TypeOK
  <2>3. QED
    BY <1>3, <1>g, <2>2 DEF CreateInsert
<1>4. ASSUME NEW r \in Requests, CreateUnlock(r) \/ Crash(r) PROVE LocksInv'
  BY <1>4, <1>d DEF CreateUnlock, Crash, db
<1>5. ASSUME NEW r \in Requests, NEW b \in Bookings,
             CancelFind(r, b) \/ AdminFind(r, b) \/ RefundCheck(r, b)
      PROVE  LocksInv'
  BY <1>5, <1>b DEF CancelFind, AdminFind, RefundCheck, WaitingTx, db
<1>6. ASSUME NEW r \in Requests, CancelLock(r) \/ RefundLock(r) PROVE LocksInv'
  <2>1. PICK b \in Bookings : call[r].work = {b} /\ ~RowLocked(b)
    BY <1>6 DEF CancelLock, RefundLock, LocksInv, OneRow, At
  <2>2. UNCHANGED status /\ (Done(r) \/ \E step \in BookingTx \ {"sweep_commit"} : Goto(r, step))
    BY <1>6 DEF CancelLock, RefundLock, BookingTx, db
  <2>3. ASSUME NEW step \in BookingTx \ {"sweep_commit"}, Goto(r, step) PROVE LocksInv'
    <3>1. /\ call'[r].at = step /\ call'[r].work = {b}
          /\ \A q \in Requests \ {r} : call'[q] = call[q]
      BY <1>t, <2>1, <2>3, GotoFact DEF Steps
    <3>2. \A c \in Bookings : Holds(r, c)' => ~RowLocked(c)
      BY <2>1, <3>1 DEF Holds
    <3>3. step \notin {"cancel_lock", "refund_lock", "sweep_commit"}
      BY DEF BookingTx
    <3>4. QED
      BY <2>2, <3>1, <3>2, <3>3, LocksStep
  <2>4. QED
    BY <1>d, <2>2, <2>3
<1>7. ASSUME NEW r \in Requests, CancelCommit(r) \/ SweepCommit(r) PROVE LocksInv'
  <2>1. /\ call[r].at \in BookingTx /\ Done(r)
        /\ \A b \in Bookings : b \notin call[r].work => status'[b] = status[b]
    BY <1>7 DEF CancelCommit, SweepCommit, BookingTx, At
  <2>2. QED
    BY <1>c, <2>1
<1>8. ASSUME NEW r \in Requests, RefundCommit(r) PROVE LocksInv'
  <2>1. /\ call[r].at \in BookingTx /\ Done(r)
        /\ \A b \in Bookings : b \notin call[r].work => status'[b] = status[b]
    BY <1>8, <1>t DEF RefundCommit, BookingTx, TypeOK
  <2>2. QED
    BY <1>c, <2>1
<1>9. ASSUME NEW r \in Requests, SweepFind(r) PROVE LocksInv'
  <2>1. {b \in stale : status[b] = "PENDING"} \in SUBSET Bookings
    BY <1>t DEF TypeOK
  <2>2. QED
    BY <1>9, <2>1, <1>b DEF SweepFind, WaitingTx, db
<1>10. ASSUME NEW r \in Requests, SweepLock(r) PROVE LocksInv'
  <2> DEFINE B == StillPending(call[r].work)
  <2>1. /\ B \in SUBSET Bookings /\ \A b \in B : status[b] = "PENDING" /\ ~RowLocked(b)
        /\ UNCHANGED status /\ (Done(r) \/ Begin(r, "sweep_commit", B))
    BY <1>10, <1>t DEF SweepLock, StillPending, db
  <2> HIDE DEF B
  <2>2. CASE Begin(r, "sweep_commit", B)
    <3>1. /\ call'[r].at = "sweep_commit" /\ call'[r].work = B
          /\ \A q \in Requests \ {r} : call'[q] = call[q]
      BY <1>t, <2>1, <2>2, BeginFact DEF Steps, BookingTx
    <3>2. \A b \in Bookings : Holds(r, b)' => ~RowLocked(b)
      BY <2>1, <3>1 DEF Holds
    <3>3. QED
      BY <2>1, <3>1, <3>2, LocksStep
  <2>3. QED
    BY <1>d, <2>1, <2>2
<1>11. ASSUME NEW r \in Requests, JobFind(r) PROVE LocksInv'
  BY <1>11, <1>b DEF JobFind, db
<1>12. ASSUME NEW r \in Requests, JobUpdate(r) \/ AdminUpdate(r) PROVE LocksInv'
  <2>1. PICK b \in call[r].work :
          /\ ~RowLocked(b) /\ status' = [status EXCEPT ![b] = "COMPLETED"]
          /\ Done(r) \/ Begin(r, "complete", call[r].work \ {b})
    BY <1>12 DEF JobUpdate, AdminUpdate
  <2>2. \A c \in Bookings, q \in Requests : Holds(q, c) => status'[c] = status[c]
    BY <1>t, <2>1 DEF RowLocked, Holds, TypeOK
  <2>3. CASE Done(r)
    BY <1>d, <2>2, <2>3
  <2>4. CASE Begin(r, "complete", call[r].work \ {b})
    <3>1. call'[r].at = "complete" /\ \A q \in Requests \ {r} : call'[q] = call[q]
      <4>1. call[r].work \ {b} \in SUBSET Bookings /\ "complete" \in Steps
        BY <1>t DEF Steps
      <4>2. QED
        BY <1>t, <2>4, <4>1, BeginFact
    <3>2. QED
      BY <2>2, <3>1, LocksLeave DEF BookingTx
  <2>5. QED
    BY <2>1, <2>3, <2>4
<1>13. ASSUME NEW r \in Requests, TxAborts(r) PROVE LocksInv'
  BY <1>13, <1>d, <1>g DEF TxAborts, db
<1>same. ASSUME UNCHANGED call,
                \A b \in Bookings : status'[b] = status[b] \/ ~RowLocked(b)
         PROVE  LocksInv'
  BY <1>same DEF LocksInv, RowsAlone, SweepsPending, OneRow, Holds, RowLocked, BookingTx, At
<1>14. ASSUME NEW b \in Bookings, PaymentSucceeds(b) PROVE LocksInv'
  BY <1>14, <1>t, <1>same DEF PaymentSucceeds, TypeOK
<1>15. CASE UNCHANGED <<status, call>>
  BY <1>15, <1>same
<1>16. QED
  BY <1>1, <1>2, <1>3, <1>4, <1>5, <1>6, <1>7, <1>8, <1>9, <1>10, <1>11, <1>12, <1>13, <1>14,
     <1>15
     DEF Next, Arrive, Step, Outside, vars, db, PaymentOverwritten, Ages, RemoveTurf, SlotTime,
         LockExpires, CleanupOldSlots

\* Locked rows belong to one call, and what the sweep has locked stays PENDING.
THEOREM LocksInvHolds == Spec => []LocksInv
<1>1. Init => LocksInv
  BY DEF Init, LocksInv, RowsAlone, SweepsPending, OneRow, Holds, At, Idle, BookingTx
<1>2. QED
  BY <1>1, LocksKeep, InvHolds, PTL DEF Spec

\* The sweep never cancels a booking that a payment has confirmed: it looks at
\* the status again under the row lock, which the webhook's transaction waits for.
THEOREM ConfirmedNotSweptHolds == Spec => ConfirmedNotSwept
<1> DEFINE Kept == \A b \in Bookings : status[b] = "CONFIRMED" /\ status'[b] = "CANCELLED" =>
                     \E r \in Requests : /\ call[r].at \in BookingTx \ {"sweep_commit"}
                                         /\ b \in call[r].work
<1>1. IInv /\ LocksInv /\ [Next]_vars => Kept
  <2> SUFFICES ASSUME IInv, LocksInv, [Next]_vars, NEW b \in Bookings,
                      status[b] = "CONFIRMED", status'[b] = "CANCELLED"
               PROVE  \E r \in Requests : /\ call[r].at \in BookingTx \ {"sweep_commit"}
                                          /\ b \in call[r].work
    OBVIOUS
  <2>t. status \in [Bookings -> Statuses]
    BY DEF IInv, TypeOK
  <2>1. ASSUME NEW r \in Requests, CreateInsert(r) \/ JobUpdate(r) \/ AdminUpdate(r) PROVE FALSE
    BY <2>1, <2>t DEF CreateInsert, JobUpdate, AdminUpdate
  <2>2. ASSUME NEW r \in Requests, SweepCommit(r) PROVE FALSE
    BY <2>2 DEF SweepCommit, LocksInv, SweepsPending, At
  <2>3. ASSUME NEW r \in Requests, CancelCommit(r) \/ RefundCommit(r)
        PROVE  call[r].at \in BookingTx \ {"sweep_commit"} /\ b \in call[r].work
    BY <2>3, <2>t DEF CancelCommit, RefundCommit, BookingTx, At
  <2>4. ASSUME NEW c \in Bookings, PaymentSucceeds(c) PROVE FALSE
    BY <2>4, <2>t DEF PaymentSucceeds
  <2>5. status' # status
    OBVIOUS
  <2>6. QED
    BY <2>1, <2>2, <2>3, <2>4, <2>5
       DEF Next, Arrive, Step, Outside, vars, db, CreateLock, CreateSelect, CreateConflict,
           CreateUnlock, CancelFind, CancelLock, SweepFind, SweepLock, JobFind, AdminFind,
           RefundCheck, RefundLock, TxAborts, Crash, PaymentOverwritten, Ages, RemoveTurf,
           SlotTime, LockExpires, CleanupOldSlots
<1>2. IInv /\ LocksInv /\ [Next]_vars => [Kept]_vars
  BY <1>1
<1>3. QED
  BY <1>2, InvHolds, LocksInvHolds, PTL DEF Spec, ConfirmedNotSwept

-----------------------------------------------------------------------------
(* The tables implement the ledger                                         *)

\* Every step of Booking is a step of BookingLedger or leaves it unchanged.
LEMMA LedgerStep == IInv /\ IInv' /\ [Next]_vars => [Ledger!Next]_(Ledger!ledger)
<1> SUFFICES ASSUME IInv, IInv', [Next]_vars PROVE [Ledger!Next]_(Ledger!ledger)
  OBVIOUS
<1> USE ConstantsOK
<1> DEFINE held == {s \in Slots : slotRow[s] = "booked"}
<1>t. TypeOK /\ \A r \in Requests : call[r].work \in SUBSET Bookings
  BY DEF IInv, TypeOK, Calls
<1>same. ASSUME UNCHANGED <<slotRow, status, slotOf>> PROVE UNCHANGED Ledger!ledger
  BY <1>same DEF Ledger!ledger
<1>1. ASSUME NEW r \in Requests, CreateInsert(r) PROVE Ledger!Next
  <2>1. PICK b \in Bookings :
           /\ ~Exists(b)
           /\ status' = [status EXCEPT ![b] = "PENDING"]
           /\ slotOf' = [slotOf EXCEPT ![b] = call[r].slot]
    BY <1>1 DEF CreateInsert
  <2>2. PICK s \in Slots : s = call[r].slot /\ slotRow[s] = "free"
    BY <1>1 DEF CreateInsert, IInv, InsertAlone, At
  <2>3. held' = held \cup {s}
    BY <1>1, <2>2, <1>t DEF CreateInsert, TypeOK
  <2>4. Ledger!Reserve(b, s)
    BY <2>1, <2>2, <2>3 DEF Ledger!Reserve, Exists
  <2>5. QED
    BY <2>4 DEF Ledger!Next
<1>2. ASSUME NEW B \in SUBSET Bookings, \A b \in B : Exists(b), UNCHANGED slotOf,
             status' = [b \in Bookings |-> IF b \in B THEN "CANCELLED" ELSE status[b]],
             slotRow' = [s \in Slots |-> IF s \in SlotsOf(B) THEN "free" ELSE slotRow[s]]
      PROVE  Ledger!Next
  <2>1. held' = held \ {slotOf[b] : b \in B}
    BY <1>2 DEF SlotsOf
  <2>2. \A c \in Bookings \ B : Ledger!Live(c) => \A b \in B : slotOf[b] # slotOf[c]
    BY <1>2 DEF IInv, OneRowPerSlot, Ledger!Live, Exists
  <2>3. Ledger!Cancel(B)
    BY <1>2, <2>1, <2>2 DEF Ledger!Cancel, Exists
  <2>4. QED
    BY <2>3 DEF Ledger!Next
<1>3. ASSUME NEW r \in Requests, CancelCommit(r) \/ SweepCommit(r) PROVE Ledger!Next
  <2>1. \A b \in call[r].work : Exists(b)
    BY DEF IInv, WorkExists
  <2>2. QED
    BY <1>3, <2>1, <1>t, <1>2, ReleasedFrees DEF CancelCommit, SweepCommit
<1>4. ASSUME NEW b \in Bookings, Exists(b), status' = [status EXCEPT ![b] = "COMPLETED"],
             UNCHANGED <<slotRow, slotOf>>
      PROVE  Ledger!Next
  BY <1>4 DEF Ledger!Next, Ledger!Complete, Exists
<1>5. ASSUME NEW r \in Requests, JobUpdate(r) \/ AdminUpdate(r) PROVE Ledger!Next
  <2>1. PICK b \in call[r].work : status' = [status EXCEPT ![b] = "COMPLETED"]
    BY <1>5 DEF JobUpdate, AdminUpdate
  <2>2. b \in Bookings /\ Exists(b)
    BY <1>t DEF IInv, WorkExists
  <2>3. QED
    BY <1>5, <2>1, <2>2, <1>4 DEF JobUpdate, AdminUpdate
<1>6. ASSUME NEW r \in Requests, RefundCommit(r) PROVE Ledger!Next
  <2>1. At(r, "refund_free")
    BY <1>6 DEF RefundCommit, IInv, NoKeep, At
  <2>2. PICK b \in call[r].work :
           /\ status' = [status EXCEPT ![b] = "CANCELLED"]
           /\ slotRow' = [slotRow EXCEPT ![slotOf[b]] = "free"]
    BY <1>6, <2>1 DEF RefundCommit
  <2>3. b \in Bookings /\ Exists(b)
    BY <1>t DEF IInv, WorkExists
  <2>4. /\ status' = [c \in Bookings |-> IF c \in {b} THEN "CANCELLED" ELSE status[c]]
        /\ slotRow' = [s \in Slots |-> IF s \in SlotsOf({b}) THEN "free" ELSE slotRow[s]]
    <3>1. SlotsOf({b}) = {slotOf[b]}
      BY DEF SlotsOf
    <3>2. status \in [Bookings -> Statuses] /\ slotRow \in [Slots -> {"free", "booked", "deleted"}]
      BY <1>t DEF TypeOK
    <3>3. QED
      BY <2>2, <2>3, <3>1, <3>2
  <2>5. {b} \in SUBSET Bookings /\ (\A c \in {b} : Exists(c)) /\ UNCHANGED slotOf
    BY <1>6, <2>3 DEF RefundCommit
  <2>6. QED
    BY <2>4, <2>5, <1>2
<1>7. ASSUME NEW b \in Bookings, PaymentSucceeds(b) PROVE [Ledger!Next]_(Ledger!ledger)
  <2>1. CASE status[b] = "PENDING"
    <3>1. Ledger!Confirm(b)
      <4>1. status' = [status EXCEPT ![b] = "CONFIRMED"] /\ UNCHANGED <<slotRow, slotOf>>
        BY <1>7, <2>1 DEF PaymentSucceeds
      <4>2. held' = held
        BY <4>1
      <4>3. QED
        BY <2>1, <4>1, <4>2 DEF Ledger!Confirm
    <3>2. QED
      BY <3>1 DEF Ledger!Next
  <2>2. CASE status[b] # "PENDING"
    BY <1>7, <2>2, <1>same DEF PaymentSucceeds
  <2>3. QED
    BY <2>1, <2>2
<1>8. CASE CleanupOldSlots
  <2>1. held' = held
    BY <1>8, <1>t DEF CleanupOldSlots, Removable, TypeOK
  <2>2. QED
    BY <1>8, <2>1 DEF CleanupOldSlots, Ledger!ledger
<1>9. QED
  BY <1>1, <1>3, <1>5, <1>6, <1>7, <1>8, <1>same
     DEF Next, Arrive, Step, Outside, vars, db, CreateLock, CreateSelect, CreateConflict,
         CreateUnlock, CancelFind, CancelLock, SweepFind, SweepLock, JobFind, AdminFind,
         RefundCheck, RefundLock, TxAborts, Crash, PaymentOverwritten, Ages, RemoveTurf,
         SlotTime, LockExpires

\* Booking implements BookingLedger: a booking and its slot change together,
\* although the code changes them in two statements among other calls.
THEOREM ImplementsLedger == Spec => LedgerSpec
<1>1. Init => Ledger!Init
  BY DEF Init, Ledger!Init
<1>2. QED
  BY <1>1, InvHolds, LedgerStep, PTL DEF Spec, LedgerSpec, Ledger!Spec

=============================================================================
