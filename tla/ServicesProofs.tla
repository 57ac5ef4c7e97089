---------------------------- MODULE ServicesProofs ----------------------------
(***************************************************************************)
(* Theorems about the services of MCServices, for every value of its       *)
(* constants: Accounts, Admin, Discounts and Reports, and what they make   *)
(* together.  The sessions and the reviews have modules of their own.      *)
(***************************************************************************)
EXTENDS MCServices, SessionsProofs, ReviewsProofs, CouponProofs, FiniteSetTheorems, TLAPS

-----------------------------------------------------------------------------
(* Composition                                                             *)

\* A behaviour of the services is one of each of them.
LEMMA EachSteps ==
    [ServicesNext]_<<service, rowVars, otherVars>> =>
      /\ [A!Next]_accountVars /\ [Next]_vars /\ [D!Next]_adminVars
      /\ [V!Next]_reviewVars /\ [U!Next]_couponVars /\ [P!Tick]_now /\ [C!Next]_discountVars
BY DEF ServicesNext, rowVars, otherVars

-----------------------------------------------------------------------------
(* Accounts                                                                *)

\* There is at most one user with the address.
OneRow == row = {} \/ \E u \in A!Rows : row = {u}
AccountInv == OneRow /\ accountCall \in [Requests -> A!Calls] /\ guesses \in 0..MaxFailed

LEMMA AccountInit == A!Init => AccountInv
<1> SUFFICES ASSUME A!Init PROVE AccountInv
  OBVIOUS
<1>1. A!Idle \in A!Calls
  BY ConstantsOK DEF A!Idle, A!Calls, A!Steps
<1>2. QED
  BY <1>1, ConstantsOK DEF A!Init, AccountInv, OneRow

LEMMA AccountStep == AccountInv /\ [A!Next]_accountVars => AccountInv'
<1> SUFFICES ASSUME AccountInv, [A!Next]_accountVars PROVE AccountInv'
  OBVIOUS
<1> DEFINE Types == accountCall' \in [Requests -> A!Calls] /\ guesses' \in 0..MaxFailed
           RowOK == OneRow'
<1>0. guesses \in 0..MaxFailed /\ 0 \in 0..MaxFailed
  BY ConstantsOK DEF AccountInv
<1>1. A!Idle \in A!Calls /\ A!Fresh \in A!Rows
  BY ConstantsOK DEF A!Idle, A!Calls, A!Steps, A!Fresh, A!Rows
<1>2. ASSUME UNCHANGED row PROVE RowOK
  BY <1>2 DEF AccountInv, OneRow
<1>3. ASSUME NEW r \in Requests, A!Done(r), guesses' \in {0, guesses} PROVE Types
  BY <1>0, <1>1, <1>3 DEF A!Done, AccountInv
<1>4. \A u \in row : u \in A!Rows /\ row = {u}
  BY DEF AccountInv, OneRow
<1>5. ASSUME NEW r \in Requests, A!RegisterFind(r) PROVE Types /\ RowOK
  <2>1. [A!Idle EXCEPT !.at = "register"] \in A!Calls
    BY <1>1 DEF A!Calls, A!Steps
  <2>2. QED
    BY <1>0, <1>2, <1>5, <2>1 DEF A!RegisterFind, A!Begin, AccountInv
<1>6. ASSUME NEW r \in Requests, A!RegisterCreate(r) PROVE Types /\ RowOK
  <2>1. row' = {A!Fresh} \/ UNCHANGED row
    BY <1>6 DEF A!RegisterCreate
  <2>2. QED
    BY <1>1, <1>2, <1>3, <1>6, <2>1 DEF A!RegisterCreate, OneRow
<1>7. ASSUME NEW r \in Requests, A!LoginFind(r) PROVE Types /\ RowOK
  <2>1. PICK u \in row :
          A!Begin(r, [at |-> "verify", failed |-> u.failed, locked |-> u.lock # "none"])
    BY <1>7 DEF A!LoginFind
  <2>2. [at |-> "verify", failed |-> u.failed, locked |-> u.lock # "none"] \in A!Calls
    BY <1>4 DEF A!Calls, A!Steps, A!Rows
  <2>3. QED
    BY <1>0, <1>2, <1>7, <2>1, <2>2 DEF A!LoginFind, A!Begin, AccountInv
<1>8. ASSUME NEW r \in Requests, A!LoginWrong(r) PROVE Types /\ RowOK
  <2> DEFINE n == accountCall[r].failed
  <2>1. n \in 0..MaxFailed
    BY DEF AccountInv, A!Calls
  <2>2. A!OneMore(n) \in 0..MaxFailed /\ A!OneMore(guesses) \in 0..MaxFailed
    BY <1>0, <2>1, ConstantsOK DEF A!OneMore
  <2>3. row' = {A!Counted(u, n) : u \in row} /\ A!Done(r) /\ guesses' = A!OneMore(guesses)
    BY <1>8 DEF A!LoginWrong
  <2>4. Types
    BY <1>1, <2>2, <2>3 DEF A!Done, AccountInv
  <2>5. ASSUME NEW u \in A!Rows PROVE A!Counted(u, n) \in A!Rows
    <3> DEFINE lock == IF n + 1 >= Threshold THEN "future" ELSE u.lock
               k == A!OneMore(n)
    <3>1. k \in 0..MaxFailed /\ lock \in {"none", "future", "past"}
      BY <2>2 DEF A!Rows
    <3>2. A!Counted(u, n) = [u EXCEPT !.failed = k, !.lock = lock]
      BY DEF A!Counted
    <3> HIDE DEF lock, k
    <3>3. QED
      BY <3>1, <3>2 DEF A!Rows
  <2> HIDE DEF n
  <2>6. CASE row = {}
    BY <2>3, <2>4, <2>6 DEF OneRow
  <2>7. ASSUME NEW u \in A!Rows, row = {u} PROVE RowOK
    BY <2>3, <2>5, <2>7 DEF OneRow
  <2>8. QED
    BY <2>4, <2>6, <2>7 DEF AccountInv, OneRow
<1>9. ASSUME NEW r \in Requests, A!LoginRight(r) PROVE Types /\ RowOK
  <2>1. A!Done(r) /\ guesses' = 0
    BY <1>9 DEF A!LoginRight
  <2>2. CASE UNCHANGED row
    BY <1>2, <1>3, <2>1, <2>2
  <2>3. CASE row' = {[u EXCEPT !.failed = 0, !.lock = "none"] : u \in row}
    <3>1. ASSUME NEW u \in A!Rows
          PROVE  [u EXCEPT !.failed = 0, !.lock = "none"] \in A!Rows
      BY <1>0 DEF A!Rows
    <3>2. CASE row = {}
      BY <1>3, <2>1, <2>3, <3>2 DEF OneRow
    <3>3. ASSUME NEW u \in A!Rows, row = {u} PROVE RowOK
      BY <2>3, <3>1, <3>3 DEF OneRow
    <3>4. QED
      BY <1>3, <2>1, <3>2, <3>3 DEF AccountInv, OneRow
  <2>4. QED
    BY <1>9, <2>2, <2>3 DEF A!LoginRight
<1>10. ASSUME NEW r \in Requests, A!ResetFind(r) PROVE Types /\ RowOK
  <2>1. [A!Idle EXCEPT !.at = "reset"] \in A!Calls
    BY <1>1 DEF A!Calls, A!Steps
  <2>2. QED
    BY <1>0, <1>2, <1>10, <2>1 DEF A!ResetFind, A!Begin, AccountInv
<1>11. ASSUME NEW r \in Requests, A!ResetWrite(r) PROVE Types /\ RowOK
  BY <1>1, <1>3, <1>11 DEF A!ResetWrite, OneRow
<1>12. ASSUME NEW r \in Requests, A!Stops(r) PROVE Types /\ RowOK
  BY <1>2, <1>3, <1>12 DEF A!Stops
<1>13. CASE A!ForgotPassword \/ A!LockPasses \/ A!LinkPasses
  <2>1. PICK u \in row : \/ row' = {[u EXCEPT !.link = TRUE]}
                         \/ row' = {[u EXCEPT !.lock = "past"]}
                         \/ row' = {[u EXCEPT !.link = FALSE]}
    BY <1>13 DEF A!ForgotPassword, A!LockPasses, A!LinkPasses
  <2>2. /\ [u EXCEPT !.link = TRUE] \in A!Rows
        /\ [u EXCEPT !.lock = "past"] \in A!Rows
        /\ [u EXCEPT !.link = FALSE] \in A!Rows
    BY <1>4 DEF A!Rows
  <2>3. RowOK
    BY <2>1, <2>2 DEF OneRow
  <2>4. Types
    BY <1>0, <1>13 DEF A!ForgotPassword, A!LockPasses, A!LinkPasses, AccountInv
  <2>5. QED
    BY <2>3, <2>4 DEF AccountInv
<1>14. CASE UNCHANGED accountVars
  BY <1>0, <1>2, <1>14 DEF accountVars, AccountInv
<1>15. QED
  BY <1>5, <1>6, <1>7, <1>8, <1>9, <1>10, <1>11, <1>12, <1>13, <1>14 DEF A!Next, AccountInv

LEMMA SameCardinality == \A S : A!Cardinality(S) = Cardinality(S)
BY DEF A!Cardinality, Cardinality

LEMMA AccountTypes == AccountInv => A!TypeOK
<1> SUFFICES ASSUME AccountInv PROVE A!TypeOK
  OBVIOUS
<1>1. Cardinality(row) <= 1 /\ row \in SUBSET A!Rows
  <2>1. CASE row = {}
    BY <2>1, FS_EmptySet
  <2>2. ASSUME NEW u \in A!Rows, row = {u} PROVE Cardinality(row) = 1 /\ row \in SUBSET A!Rows
    BY <2>2, FS_Singleton
  <2>3. QED
    BY <2>1, <2>2 DEF AccountInv, OneRow
<1>2. QED
  BY <1>1, SameCardinality DEF AccountInv, A!TypeOK

-----------------------------------------------------------------------------
(* Admin                                                                   *)

\* One call at most concerns a user on whom no two have met, and the log tells
\* the truth of that user, or will when the call has written its entry.
Present(u) == [role |-> role[u], verified |-> verified[u]]
OneCaller ==
    \A u \in alone, q, r \in Requests :
      D!Concerns(q, u) /\ D!Concerns(r, u) => q = r
LogDue ==
    \A u \in alone, r \in Requests :
      D!Concerns(r, u) /\ D!At(r, "log") => D!Entry(r) = Present(u)

\* The guards keep everybody from demoting himself.
NotSelf ==
    \A r \in Requests : ~D!At(r, "idle") => adminCall[r].admin # adminCall[r].user

AdminInv == D!TypeOK /\ OneCaller /\ LogDue /\ D!AuditTells /\ NotSelf

LEMMA AdminInit == D!Init => AdminInv
<1> SUFFICES ASSUME D!Init PROVE AdminInv
  OBVIOUS
<1>1. D!Anyone \in Users
  BY DEF D!Init, D!Anyone
<1>2. D!Idle \in D!Calls /\ D!Idle.at = "idle"
  BY <1>1 DEF D!Idle, D!Calls, D!Steps, D!Operations
<1>3. D!TypeOK
  BY <1>2 DEF D!Init, D!TypeOK
<1>4. OneCaller /\ LogDue /\ NotSelf
  BY <1>2 DEF D!Init, OneCaller, LogDue, NotSelf, D!Concerns, D!At
<1>5. D!AuditTells
  BY DEF D!Init, D!AuditTells
<1>6. QED
  BY <1>3, <1>4, <1>5 DEF AdminInv

\* A call that begins, goes on to look, or ends, and writes nothing.
LEMMA AdminQuiet ==
    ASSUME AdminInv, UNCHANGED <<role, verified, logged>>,
           NEW r \in Requests, NEW c \in D!Calls, adminCall' = [adminCall EXCEPT ![r] = c],
           ~D!At(r, "log") \/ adminCall[r].user \notin alone', c.at # "log",
           alone' \in SUBSET alone,
           c.at # "idle" => /\ c.admin # c.user
                            /\ c.user \in alone' =>
                                 \A q \in Requests : D!Concerns(q, c.user) => q = r
    PROVE AdminInv'
<1>1. \A q \in Requests : adminCall'[q] = IF q = r THEN c ELSE adminCall[q]
  BY DEF AdminInv, D!TypeOK
<1>2. D!TypeOK'
  BY DEF AdminInv, D!TypeOK
<1>3. OneCaller'
  BY <1>1 DEF AdminInv, OneCaller, D!Concerns, D!At
<1>4. LogDue'
  <2> SUFFICES ASSUME NEW u \in alone', NEW q \in Requests, D!Concerns(q, u)',
                      D!At(q, "log")'
               PROVE D!Entry(q)' = Present(u)'
    BY DEF LogDue
  <2>1. q # r /\ adminCall'[q] = adminCall[q]
    BY <1>1 DEF D!At
  <2>2. D!Concerns(q, u) /\ D!At(q, "log") /\ u \in alone
    BY <2>1 DEF D!Concerns, D!At
  <2>3. D!Entry(q) = Present(u)
    BY <2>2 DEF AdminInv, LogDue
  <2>4. QED
    BY <2>1, <2>3 DEF D!Entry, Present
<1>5. NotSelf'
  BY <1>1 DEF AdminInv, NotSelf, D!At
<1>6. D!AuditTells'
  <2> SUFFICES ASSUME NEW u \in alone',
                      \A q \in Requests : ~D!Concerns(q, u)' \/ ~D!At(q, "log")'
               PROVE logged[u] = Present(u)
    BY DEF D!AuditTells, Present
  <2>1. \A q \in Requests : ~D!Concerns(q, u) \/ ~D!At(q, "log")
    BY <1>1 DEF D!Concerns, D!At
  <2>2. QED
    BY <2>1 DEF AdminInv, D!AuditTells, Present
<1>7. QED
  BY <1>2, <1>3, <1>4, <1>5, <1>6 DEF AdminInv

\* A write and the entry that is due for it, of one call.
LEMMA AdminWrite ==
    ASSUME AdminInv, NEW r \in Requests, NEW c \in D!Calls,
           D!At(r, "update"), c.at = "log", c.admin = adminCall[r].admin,
           c.user = adminCall[r].user, adminCall' = [adminCall EXCEPT ![r] = c],
           role' \in [Users -> {"USER", "ADMIN"}], verified' \in [Users -> BOOLEAN],
           \A u \in Users \ {c.user} : role'[u] = role[u] /\ verified'[u] = verified[u],
           c.user \in alone /\ logged[c.user] = Present(c.user)
             => D!Entry(r)' = [role |-> role'[c.user], verified |-> verified'[c.user]],
           UNCHANGED <<logged, alone>>
    PROVE AdminInv'
<1>1. \A q \in Requests : adminCall'[q] = IF q = r THEN c ELSE adminCall[q]
  BY DEF AdminInv, D!TypeOK
<1>2. D!TypeOK'
  BY DEF AdminInv, D!TypeOK
<1>3. \A q \in Requests, u \in Users : D!Concerns(q, u)' <=> D!Concerns(q, u)
  BY <1>1 DEF D!Concerns, D!At
<1>4. OneCaller' /\ NotSelf'
  BY <1>1, <1>2, <1>3 DEF AdminInv, D!TypeOK, OneCaller, NotSelf, D!At
<1>5. D!Concerns(r, c.user) /\ c.user \in Users
  BY DEF D!Concerns, D!At, D!Calls
<1>6. c.user \in alone => \A q \in Requests : D!Concerns(q, c.user) => q = r
  BY <1>5 DEF AdminInv, OneCaller
<1>7. c.user \in alone => logged[c.user] = Present(c.user)
  BY <1>6 DEF AdminInv, D!AuditTells, D!At, Present
<1>8. LogDue'
  <2> SUFFICES ASSUME NEW u \in alone, NEW q \in Requests, D!Concerns(q, u)', D!At(q, "log")'
               PROVE D!Entry(q)' = Present(u)'
    BY DEF LogDue
  <2>1. u \in Users /\ D!Concerns(q, u)
    BY <1>3 DEF AdminInv, D!TypeOK
  <2>2. CASE q = r
    <3>1. u = c.user
      BY <1>1, <2>2 DEF D!Concerns
    <3>2. QED
      BY <1>7, <2>2, <3>1, <2>1 DEF Present
  <2>3. CASE q # r
    <3>1. u # c.user
      BY <1>6, <2>1, <2>3
    <3>2. adminCall'[q] = adminCall[q] /\ Present(u)' = Present(u) /\ D!At(q, "log")
      BY <1>1, <2>1, <2>3, <3>1 DEF Present, D!At
    <3>3. D!Entry(q) = Present(u)
      BY <2>1, <3>2 DEF AdminInv, LogDue
    <3>4. QED
      BY <3>2, <3>3 DEF D!Entry
  <2>4. QED
    BY <2>2, <2>3
<1>9. D!AuditTells'
  <2> SUFFICES ASSUME NEW u \in alone,
                      \A q \in Requests : ~D!Concerns(q, u)' \/ ~D!At(q, "log")'
               PROVE logged[u] = Present(u)'
    BY DEF D!AuditTells, Present
  <2>1. u \in Users
    BY DEF AdminInv, D!TypeOK
  <2>2. u # c.user
    BY <1>1 DEF D!Concerns, D!At
  <2>3. \A q \in Requests : ~D!Concerns(q, u) \/ ~D!At(q, "log")
    BY <1>1, <2>2 DEF D!Concerns, D!At
  <2>4. QED
    BY <2>1, <2>2, <2>3 DEF AdminInv, D!AuditTells, Present
<1>10. QED
  BY <1>2, <1>4, <1>8, <1>9 DEF AdminInv

\* The entry is written: what was due is told.
LEMMA AdminLogs ==
    ASSUME AdminInv, NEW r \in Requests, D!CreateAuditLog(r), D!Idle \in D!Calls,
           D!Idle.at = "idle"
    PROVE AdminInv'
<1> DEFINE me == adminCall[r].user
<1>1. /\ D!At(r, "log") /\ logged' = [logged EXCEPT ![me] = D!Entry(r)]
      /\ adminCall' = [adminCall EXCEPT ![r] = D!Idle] /\ UNCHANGED <<role, verified, alone>>
  BY DEF D!CreateAuditLog, D!Over
<1>2. adminCall[r] \in D!Calls /\ me \in Users
  BY DEF AdminInv, D!TypeOK, D!Calls
<1>3. \A q \in Requests : adminCall'[q] = IF q = r THEN D!Idle ELSE adminCall[q]
  BY <1>1 DEF AdminInv, D!TypeOK
<1>4. \A u \in Users : logged'[u] = IF u = me THEN D!Entry(r) ELSE logged[u]
  BY <1>1 DEF AdminInv, D!TypeOK
<1>5. D!Entry(r) \in [role : {"USER", "ADMIN"}, verified : BOOLEAN]
  <2>1. logged[me] \in [role : {"USER", "ADMIN"}, verified : BOOLEAN]
    BY <1>2 DEF AdminInv, D!TypeOK
  <2>2. adminCall[r].op \in {"toggle", "make", "demote"} /\ adminCall[r].seen \in BOOLEAN
    BY <1>2 DEF D!Calls, D!Operations
  <2>3. QED
    BY <2>1, <2>2 DEF D!Entry
<1>6. D!TypeOK'
  BY <1>1, <1>5 DEF AdminInv, D!TypeOK
<1>7. D!Concerns(r, me)
  BY <1>1 DEF D!Concerns, D!At
<1>8. me \in alone => \A q \in Requests : D!Concerns(q, me) => q = r
  BY <1>7 DEF AdminInv, OneCaller
<1>9. OneCaller' /\ NotSelf'
  BY <1>1, <1>3 DEF AdminInv, OneCaller, NotSelf, D!Concerns, D!At
<1>10. LogDue'
  <2> SUFFICES ASSUME NEW u \in alone, NEW q \in Requests, D!Concerns(q, u)', D!At(q, "log")'
               PROVE D!Entry(q)' = Present(u)
    BY <1>1 DEF LogDue, Present
  <2>1. q # r /\ adminCall'[q] = adminCall[q] /\ D!Concerns(q, u) /\ D!At(q, "log")
    BY <1>3 DEF D!Concerns, D!At
  <2>2. u # me /\ u \in Users
    BY <1>8, <2>1 DEF AdminInv, D!TypeOK
  <2>3. D!Entry(q) = Present(u) /\ adminCall[q].user = u
    BY <2>1 DEF AdminInv, LogDue, D!Concerns
  <2>4. QED
    BY <1>4, <2>1, <2>2, <2>3 DEF D!Entry
<1>11. D!AuditTells'
  <2> SUFFICES ASSUME NEW u \in alone,
                      \A q \in Requests : ~D!Concerns(q, u)' \/ ~D!At(q, "log")'
               PROVE logged'[u] = Present(u)
    BY <1>1 DEF D!AuditTells, Present
  <2>1. u \in Users
    BY DEF AdminInv, D!TypeOK
  <2>2. CASE u = me
    BY <1>1, <1>4, <1>7, <2>1, <2>2 DEF AdminInv, LogDue
  <2>3. CASE u # me
    <3>1. \A q \in Requests : ~D!Concerns(q, u) \/ ~D!At(q, "log")
      BY <1>3, <2>3 DEF D!Concerns, D!At
    <3>2. QED
      BY <1>4, <2>1, <2>3, <3>1 DEF AdminInv, D!AuditTells, Present
  <2>4. QED
    BY <2>2, <2>3
<1>12. QED
  BY <1>6, <1>9, <1>10, <1>11 DEF AdminInv

\* Who has met nobody is left to one call; a call that has ended concerns nobody.
LEMMA AdminStep == AdminInv /\ [D!Next]_adminVars => AdminInv'
<1> SUFFICES ASSUME AdminInv, [D!Next]_adminVars PROVE AdminInv'
  OBVIOUS
<1>1. ASSUME NEW r \in Requests PROVE D!Idle \in D!Calls /\ D!Idle.at = "idle"
  <2>1. adminCall[r] \in D!Calls
    BY <1>1 DEF AdminInv, D!TypeOK
  <2>2. D!Anyone \in Users
    BY <2>1 DEF D!Anyone, D!Calls
  <2>3. QED
    BY <2>2 DEF D!Idle, D!Calls, D!Steps, D!Operations
<1>2. ASSUME NEW r \in Requests, NEW op \in D!Operations, NEW a \in Users, NEW u \in Users,
             D!Enter(r, op, a, u)
      PROVE AdminInv'
  <2> DEFINE c == [at |-> "find", op |-> op, admin |-> a, user |-> u, seen |-> FALSE]
  <2>1. /\ D!At(r, "idle") /\ a # u /\ adminCall' = [adminCall EXCEPT ![r] = c]
        /\ alone' = IF \E q \in Requests : D!Concerns(q, u) THEN alone \ {u} ELSE alone
        /\ UNCHANGED <<role, verified, logged>>
    BY <1>2 DEF D!Enter, D!OtherTarget
  <2>2. c \in D!Calls /\ c.at = "find" /\ c.admin = a /\ c.user = u
    BY DEF D!Calls, D!Steps
  <2>3. alone' \in SUBSET alone /\ ~D!At(r, "log")
    BY <2>1 DEF D!At
  <2>4. u \in alone' => \A q \in Requests : D!Concerns(q, u) => q = r
    BY <2>1
  <2> HIDE DEF c
  <2>5. QED
    BY <2>1, <2>2, <2>3, <2>4, AdminQuiet
<1>3. ASSUME NEW r \in Requests, D!Find(r) PROVE AdminInv'
  <2> DEFINE c == [adminCall[r] EXCEPT !.at = "update", !.seen = verified[adminCall[r].user]]
  <2>1. adminCall[r] \in D!Calls /\ D!At(r, "find")
    BY <1>3 DEF D!Find, AdminInv, D!TypeOK
  <2>2. verified[adminCall[r].user] \in BOOLEAN
    BY <2>1 DEF AdminInv, D!TypeOK, D!Calls
  <2>3. /\ c \in D!Calls /\ c.at = "update" /\ c.admin = adminCall[r].admin
        /\ c.user = adminCall[r].user
    BY <2>1, <2>2 DEF D!Calls, D!Steps
  <2>4. /\ adminCall' = [adminCall EXCEPT ![r] = c] \/ adminCall' = [adminCall EXCEPT ![r] = D!Idle]
        /\ UNCHANGED <<role, verified, logged, alone>>
    BY <1>3 DEF D!Find, D!Over
  <2>5. ~D!At(r, "log") /\ alone' \in SUBSET alone
    BY <2>1, <2>4 DEF D!At
  <2>6. /\ D!Concerns(r, c.user)
        /\ c.admin # c.user
    BY <2>1, <2>3 DEF D!Concerns, D!At, AdminInv, NotSelf
  <2>7. c.user \in alone' => \A q \in Requests : D!Concerns(q, c.user) => q = r
    BY <2>4, <2>6 DEF AdminInv, OneCaller
  <2> HIDE DEF c
  <2>8. QED
    BY <1>1, <2>3, <2>4, <2>5, <2>6, <2>7, AdminQuiet
<1>4. ASSUME NEW r \in Requests, D!Stops(r) PROVE AdminInv'
  <2>1. /\ adminCall' = [adminCall EXCEPT ![r] = D!Idle]
        /\ alone' = alone \ {adminCall[r].user} /\ UNCHANGED <<role, verified, logged>>
    BY <1>4 DEF D!Stops, D!Over
  <2>2. QED
    BY <1>1, <2>1, AdminQuiet
<1>5. ASSUME NEW r \in Requests, D!Toggle(r) PROVE AdminInv'
  <2> DEFINE me == adminCall[r].user
             c == [adminCall[r] EXCEPT !.at = "log", !.seen = ~@]
  <2>1. /\ adminCall[r] \in D!Calls /\ D!At(r, "update") /\ adminCall[r].op = "toggle"
        /\ verified' = [verified EXCEPT ![me] = ~adminCall[r].seen]
        /\ adminCall' = [adminCall EXCEPT ![r] = c]
        /\ UNCHANGED <<role, logged, alone>>
    BY <1>5 DEF D!Toggle, AdminInv, D!TypeOK
  <2>2. (~adminCall[r].seen) \in BOOLEAN
    OBVIOUS
  <2>3. /\ c \in D!Calls /\ c.at = "log" /\ c.admin = adminCall[r].admin /\ c.user = me
        /\ c.op = "toggle" /\ c.seen = ~adminCall[r].seen
    BY <2>1, <2>2 DEF D!Calls, D!Steps
  <2>4. me \in Users /\ adminCall'[r] = c
    BY <2>1 DEF D!Calls, AdminInv, D!TypeOK
  <2>5. /\ verified' \in [Users -> BOOLEAN] /\ role' \in [Users -> {"USER", "ADMIN"}]
        /\ verified'[me] = ~adminCall[r].seen
        /\ \A u \in Users \ {me} : role'[u] = role[u] /\ verified'[u] = verified[u]
    BY <2>1, <2>2, <2>4 DEF AdminInv, D!TypeOK
  <2>6. logged[me] = Present(me)
          => D!Entry(r)' = [role |-> role'[me], verified |-> verified'[me]]
    <3> HIDE DEF c
    <3>1. adminCall'[r].op = "toggle" /\ adminCall'[r].user = me /\ adminCall'[r].seen = verified'[me]
      BY <2>3, <2>4, <2>5
    <3>2. D!Entry(r)' = [logged[me] EXCEPT !.verified = verified'[me]]
      BY <2>1, <3>1 DEF D!Entry
    <3>3. QED
      BY <2>1, <3>2 DEF Present
  <2> HIDE DEF c
  <2>7. QED
    BY <2>1, <2>3, <2>5, <2>6, AdminWrite
<1>6. ASSUME NEW r \in Requests, NEW to \in {"USER", "ADMIN"},
             D!At(r, "update"),
             adminCall[r].op = IF to = "ADMIN" THEN "make" ELSE "demote",
             role' = [role EXCEPT ![adminCall[r].user] = to],
             D!Goto(r, "log"), UNCHANGED <<verified, logged, alone>>
      PROVE AdminInv'
  <2> DEFINE me == adminCall[r].user
             c == [adminCall[r] EXCEPT !.at = "log"]
  <2>1. adminCall[r] \in D!Calls /\ adminCall' = [adminCall EXCEPT ![r] = c]
    BY <1>6 DEF D!Goto, AdminInv, D!TypeOK
  <2>2. /\ c \in D!Calls /\ c.at = "log" /\ c.admin = adminCall[r].admin /\ c.user = me
        /\ c.op = adminCall[r].op
    BY <2>1 DEF D!Calls, D!Steps
  <2>3. me \in Users /\ adminCall'[r] = c
    BY <2>1 DEF D!Calls, AdminInv, D!TypeOK
  <2>4. /\ verified' \in [Users -> BOOLEAN] /\ role' \in [Users -> {"USER", "ADMIN"}]
        /\ role'[me] = to
        /\ \A u \in Users \ {me} : role'[u] = role[u] /\ verified'[u] = verified[u]
    BY <1>6, <2>3 DEF AdminInv, D!TypeOK
  <2>5. logged[me] = Present(me)
          => D!Entry(r)' = [role |-> role'[me], verified |-> verified'[me]]
    <3> HIDE DEF c
    <3>1. adminCall'[r].op = adminCall[r].op /\ adminCall'[r].user = me
      BY <2>2, <2>3
    <3>2. D!Entry(r)' = [logged[me] EXCEPT !.role = to]
      BY <1>6, <3>1 DEF D!Entry
    <3>3. QED
      BY <1>6, <2>4, <3>2 DEF Present
  <2> HIDE DEF c
  <2>6. QED
    BY <1>6, <2>1, <2>2, <2>4, <2>5, AdminWrite
<1>7. ASSUME NEW r \in Requests, D!MakeAdmin(r) \/ D!DemoteAdmin(r) PROVE AdminInv'
  BY <1>6, <1>7 DEF D!MakeAdmin, D!DemoteAdmin
<1>8. ASSUME NEW r \in Requests, D!CreateAuditLog(r) PROVE AdminInv'
  BY <1>1, <1>8, AdminLogs
<1>9. CASE UNCHANGED adminVars
  <2>1. UNCHANGED <<role, verified, logged, adminCall, alone>>
    BY <1>9 DEF adminVars
  <2>2. D!TypeOK' /\ NotSelf'
    BY <2>1 DEF AdminInv, D!TypeOK, NotSelf, D!At
  <2>3. \A q \in Requests, u \in Users :
          /\ D!Concerns(q, u)' <=> D!Concerns(q, u)
          /\ D!At(q, "log")' <=> D!At(q, "log")
          /\ D!Entry(q)' = D!Entry(q)
    BY <2>1 DEF D!Concerns, D!At, D!Entry
  <2>4. /\ alone' = alone /\ alone \in SUBSET Users /\ logged' = logged
        /\ \A u \in Users : Present(u)' = Present(u)
    BY <2>1 DEF AdminInv, D!TypeOK, Present
  <2>5. OneCaller'
    BY <2>3, <2>4 DEF AdminInv, OneCaller
  <2>6. LogDue'
    <3> SUFFICES ASSUME NEW u \in alone, NEW q \in Requests, D!Concerns(q, u)',
                        D!At(q, "log")'
                 PROVE  D!Entry(q)' = Present(u)'
      BY <2>4 DEF LogDue
    <3>1. u \in Users /\ D!Concerns(q, u) /\ D!At(q, "log")
      BY <2>3, <2>4
    <3>2. D!Entry(q) = Present(u)
      BY <3>1 DEF AdminInv, LogDue
    <3>3. QED
      BY <2>3, <2>4, <3>1, <3>2
  <2>7. D!AuditTells'
    <3> SUFFICES ASSUME NEW u \in alone,
                        \A q \in Requests : ~D!Concerns(q, u)' \/ ~D!At(q, "log")'
                 PROVE  logged[u] = Present(u)'
      BY <2>4 DEF D!AuditTells, Present
    <3>1. u \in Users /\ \A q \in Requests : ~D!Concerns(q, u) \/ ~D!At(q, "log")
      BY <2>3, <2>4
    <3>2. logged[u] = Present(u)
      BY <3>1 DEF AdminInv, D!AuditTells, Present
    <3>3. QED
      BY <2>3, <2>4, <3>1, <3>2
  <2>8. QED
    BY <2>2, <2>5, <2>6, <2>7 DEF AdminInv
<1>10. QED
  BY <1>2, <1>3, <1>4, <1>5, <1>7, <1>8, <1>9 DEF D!Next

\* The last administrator is demoted by another user, who has been demoted too
\* since the guard admitted the call.
LEMMA AdminRace ==
    ASSUME AdminInv, [D!Next]_adminVars, D!Admins # {}, D!Admins' = {}
    PROVE  \E r \in Requests : D!DemoteAdmin(r) /\ role[adminCall[r].admin] = "USER"
<1>1. ~UNCHANGED role
  BY DEF D!Admins
<1>2. PICK r \in Requests : D!MakeAdmin(r) \/ D!DemoteAdmin(r)
  BY <1>1 DEF D!Next, D!Enter, D!Find, D!Toggle, D!CreateAuditLog, D!Stops, adminVars
<1>3. /\ adminCall[r] \in D!Calls /\ adminCall[r].user \in Users /\ adminCall[r].admin \in Users
      /\ adminCall[r].admin # adminCall[r].user
  BY <1>2 DEF AdminInv, D!TypeOK, NotSelf, D!At, D!MakeAdmin, D!DemoteAdmin, D!Calls
<1>4. D!DemoteAdmin(r)
  <2>1. ASSUME D!MakeAdmin(r) PROVE FALSE
    <3>1. role'[adminCall[r].user] = "ADMIN"
      BY <1>3, <2>1 DEF D!MakeAdmin, AdminInv, D!TypeOK
    <3>2. QED
      BY <1>3, <3>1 DEF D!Admins
  <2>2. QED
    BY <1>2, <2>1
<1>5. role'[adminCall[r].admin] = role[adminCall[r].admin]
  BY <1>3, <1>4 DEF D!DemoteAdmin, AdminInv, D!TypeOK
<1>6. role[adminCall[r].admin] = "USER"
  BY <1>3, <1>5 DEF D!Admins, AdminInv, D!TypeOK
<1>7. QED
  BY <1>4, <1>6

-----------------------------------------------------------------------------
(* Discounts                                                               *)

\* A number of parts is rounded to the nearest cent.
LEMMA RoundedNear ==
    ASSUME NEW parts \in Nat, NEW cents \in C!Rounded(parts)
    PROVE  /\ cents \in Nat
           /\ 2 * 10000 * cents <= 2 * parts + 10000
           /\ 2 * parts - 10000 <= 2 * 10000 * cents
<1>1. C!PartsPerCent = 10000
  BY DEF C!PartsPerCent
<1> DEFINE q == parts \div 10000
           z == parts % 10000
<1>2. q \in Nat /\ z \in 0..9999 /\ parts = 10000 * q + z
  OBVIOUS
<1>3. (cents = q /\ 2 * z <= 10000) \/ (cents = q + 1 /\ 2 * z >= 10000)
  BY <1>1, <1>2 DEF C!Rounded
<1> HIDE DEF q, z
<1>4. QED
  BY <1>2, <1>3

\* The discount before it is rounded, and what is left to pay.
DiscountParts ==
    IF order.type = "PERCENTAGE" THEN C!Percentage(order) ELSE C!FixedAmount(order)
FinalParts ==
    IF order.price * 10000 - DiscountParts < 0 THEN 0 ELSE order.price * 10000 - DiscountParts

\* Every amount is the one before it, rounded or copied.
QuoteFollows ==
    \/ quote = C!Unquoted
    \/ \E cents \in C!Rounded(DiscountParts) :
         quote = [discount |-> cents * 10000, final |-> FinalParts]
BookedFollows ==
    /\ booked.total # -1 => quote # C!Unquoted /\ booked.total \in C!Rounded(quote.final)
    /\ booked.discount # -1 => booked.total # -1 /\ booked.discount \in C!Rounded(quote.discount)
    /\ booked.charged # -1 => booked.charged = booked.total
Booked == [total : Int, discount : Int, charged : Int]

DiscountInv == order \in C!Orders /\ booked \in Booked /\ QuoteFollows /\ BookedFollows

LEMMA NatTimes ==
    ASSUME NEW a \in Nat, NEW b \in Nat
    PROVE  a * b \in Nat /\ (b <= 10000 => a * b <= a * 10000)
<1>1. a * b \in Nat
  OBVIOUS
<1>2. ASSUME b <= 10000 PROVE a * b <= a * 10000
  <2>1. 10000 - b \in Nat
    BY <1>2
  <2>2. a * (10000 - b) \in Nat
    BY <2>1
  <2>3. a * (10000 - b) = a * 10000 - a * b
    OBVIOUS
  <2>4. QED
    BY <1>1, <2>2, <2>3
<1>3. QED
  BY <1>1, <1>2

\* What the columns of the order allow: a discount is never negative, nor more
\* than the price or the cap.
LEMMA OrderFact ==
    ASSUME NEW o \in C!Orders
    PROVE  /\ o.price \in Nat /\ o.cap \in Nat /\ o.value \in Nat
           /\ o.type = "PERCENTAGE" =>
                /\ C!Percentage(o) \in Nat
                /\ o.value <= 10000 => C!Percentage(o) <= o.price * 10000
                /\ o.cap > 0 => C!Percentage(o) <= o.cap * 10000
           /\ C!FixedAmount(o) \in Nat /\ C!FixedAmount(o) <= o.price * 10000
<1>1. o.price \in Nat /\ o.cap \in Nat /\ o.value \in Nat
  BY ConstantsOK DEF C!Orders
<1>2. o.price * o.value \in Nat /\ (o.value <= 10000 => o.price * o.value <= o.price * 10000)
  BY <1>1, NatTimes
<1>3. /\ C!Percentage(o) \in Nat
      /\ C!Percentage(o) <= o.price * o.value
      /\ o.cap > 0 => C!Percentage(o) <= o.cap * 10000
  <2> DEFINE share == o.price * o.value
  <2>1. C!Percentage(o) = IF o.cap > 0 THEN (IF share < o.cap * 10000 THEN share ELSE o.cap * 10000)
                          ELSE share
    BY DEF C!Percentage, C!Smaller, C!PartsPerCent
  <2>2. share \in Nat /\ o.cap * 10000 \in Nat
    BY <1>1, <1>2
  <2> HIDE DEF share
  <2>3. C!Percentage(o) \in Nat /\ C!Percentage(o) <= share
        /\ (o.cap > 0 => C!Percentage(o) <= o.cap * 10000)
    BY <1>1, <2>1, <2>2
  <2>4. QED
    BY <2>3 DEF share
<1>4. C!FixedAmount(o) \in Nat /\ C!FixedAmount(o) <= o.price * 10000
  BY <1>1 DEF C!FixedAmount, C!Smaller, C!PartsPerCent
<1>5. QED
  <2> DEFINE share == o.price * o.value
  <2>1. o.value <= 10000 => share <= o.price * 10000
    BY <1>2
  <2>2. share \in Nat /\ C!Percentage(o) <= share
    BY <1>2, <1>3
  <2> HIDE DEF share
  <2>3. o.value <= 10000 => C!Percentage(o) <= o.price * 10000
    BY <1>1, <1>3, <2>1, <2>2
  <2>4. QED
    BY <1>1, <1>3, <1>4, <2>3

LEMMA DiscountInit == C!Init => DiscountInv
BY DEF C!Init, DiscountInv, QuoteFollows, BookedFollows, Booked, C!Unquoted, C!Unbooked

LEMMA PartsType ==
    ASSUME DiscountInv
    PROVE  DiscountParts \in Nat /\ FinalParts \in Nat /\ order.price \in Nat
<1>1. DiscountParts \in Nat
  BY OrderFact DEF DiscountInv, DiscountParts, C!Orders
<1>2. order.price \in Nat
  BY OrderFact DEF DiscountInv
<1>3. QED
  BY <1>1, <1>2 DEF FinalParts

\* What has been quoted is whole.
LEMMA QuotedType ==
    ASSUME DiscountInv, quote # C!Unquoted
    PROVE  quote.discount \in Nat /\ quote.final \in Nat
<1>1. PICK cents \in C!Rounded(DiscountParts) :
        quote = [discount |-> cents * 10000, final |-> FinalParts]
  BY DEF DiscountInv, QuoteFollows
<1>2. cents \in Nat
  BY PartsType, RoundedNear
<1>3. QED
  BY <1>1, <1>2, PartsType

LEMMA DiscountStep == DiscountInv /\ [C!Next]_discountVars => DiscountInv'
<1> SUFFICES ASSUME DiscountInv, [C!Next]_discountVars PROVE DiscountInv'
  OBVIOUS
<1>1. CASE C!Quote
  <2>1. quote = C!Unquoted /\ UNCHANGED <<order, booked>>
    BY <1>1 DEF C!Quote
  <2>2. QuoteFollows'
    BY <1>1, <2>1 DEF C!Quote, QuoteFollows, DiscountParts, FinalParts, C!PartsPerCent
  <2>3. BookedFollows'
    BY <2>1 DEF DiscountInv, BookedFollows
  <2>4. QED
    BY <2>1, <2>2, <2>3 DEF DiscountInv
<1>2. CASE C!InsertBooking
  <2>1. PICK cents \in C!Rounded(quote.final) : booked' = [booked EXCEPT !.total = cents]
    BY <1>2 DEF C!InsertBooking
  <2>2. quote # C!Unquoted /\ booked.total = -1 /\ UNCHANGED <<order, quote>>
    BY <1>2 DEF C!InsertBooking
  <2>3. cents \in Nat
    BY <2>1, <2>2, QuotedType, RoundedNear
  <2>4. booked' \in Booked /\ booked'.total = cents /\ booked'.discount = booked.discount
        /\ booked'.charged = booked.charged
    BY <2>1, <2>3 DEF DiscountInv, Booked
  <2>5. BookedFollows'
    BY <2>1, <2>2, <2>3, <2>4 DEF DiscountInv, BookedFollows
  <2>6. QED
    BY <2>2, <2>4, <2>5 DEF DiscountInv, QuoteFollows, DiscountParts, FinalParts
<1>3. CASE C!ApplyCoupon
  <2>1. PICK cents \in C!Rounded(quote.discount) : booked' = [booked EXCEPT !.discount = cents]
    BY <1>3 DEF C!ApplyCoupon
  <2>2. booked.total # -1 /\ UNCHANGED <<order, quote>>
    BY <1>3 DEF C!ApplyCoupon
  <2>3. cents \in Nat
    BY <2>1, <2>2, QuotedType, RoundedNear DEF DiscountInv, BookedFollows
  <2>4. booked' \in Booked /\ booked'.discount = cents /\ booked'.total = booked.total
        /\ booked'.charged = booked.charged
    BY <2>1, <2>3 DEF DiscountInv, Booked
  <2>5. BookedFollows'
    BY <2>1, <2>2, <2>4 DEF DiscountInv, BookedFollows
  <2>6. QED
    BY <2>2, <2>4, <2>5 DEF DiscountInv, QuoteFollows, DiscountParts, FinalParts
<1>4. CASE C!CreateIntent
  <2>1. booked.total # -1 /\ UNCHANGED <<order, quote>>
    BY <1>4 DEF C!CreateIntent
  <2>2. booked' \in Booked /\ booked'.charged = booked.total /\ booked'.total = booked.total
        /\ booked'.discount = booked.discount
    BY <1>4 DEF C!CreateIntent, DiscountInv, Booked
  <2>3. BookedFollows'
    BY <2>1, <2>2 DEF DiscountInv, BookedFollows
  <2>4. QED
    BY <2>1, <2>2, <2>3 DEF DiscountInv, QuoteFollows, DiscountParts, FinalParts
<1>5. CASE UNCHANGED discountVars
  BY <1>5 DEF discountVars, DiscountInv, QuoteFollows, BookedFollows, DiscountParts, FinalParts
<1>6. QED
  BY <1>1, <1>2, <1>3, <1>4, <1>5 DEF C!Next

LEMMA DiscountTypes == DiscountInv => C!TypeOK
<1> SUFFICES ASSUME DiscountInv PROVE C!TypeOK
  OBVIOUS
<1>1. quote.discount \in Int /\ quote.final \in Int
  BY QuotedType DEF C!Unquoted
<1>2. QED
  BY <1>1 DEF DiscountInv, Booked, C!TypeOK

\* The two roundings lose at most half a cent each; a discount of more than the
\* price leaves nothing to charge.
LEMMA DiscountsAdd == DiscountInv => C!ChargeAndDiscountAddUp
<1> DEFINE total == booked.total
           disc == booked.discount
           exact == DiscountParts
           price == order.price
<1> SUFFICES ASSUME DiscountInv, booked.charged # -1, booked.discount # -1
             PROVE  /\ 0 <= booked.charged /\ 0 <= disc
                    /\ disc <= price => booked.charged + disc - price \in {-1, 0, 1}
                    /\ disc > price =>
                         booked.charged = 0 /\ order.type = "PERCENTAGE" /\ order.value > 10000
                    /\ order.type = "PERCENTAGE" /\ order.cap > 0 => disc <= order.cap
  BY DEF C!ChargeAndDiscountAddUp
<1>1. /\ total = booked.charged /\ total \in C!Rounded(quote.final)
      /\ disc \in C!Rounded(quote.discount) /\ quote # C!Unquoted
  BY DEF DiscountInv, BookedFollows
<1>2. PICK cents \in C!Rounded(exact) :
        quote = [discount |-> cents * 10000, final |-> FinalParts]
  BY <1>1 DEF DiscountInv, QuoteFollows
<1>3. /\ price \in Nat /\ exact \in Nat /\ order.cap \in Nat /\ order.value \in Nat
      /\ order.type # "PERCENTAGE" \/ order.value <= 10000 => exact <= price * 10000
      /\ order.type = "PERCENTAGE" /\ order.cap > 0 => exact <= order.cap * 10000
  <2>1. order.type # "PERCENTAGE" => exact = C!FixedAmount(order)
    BY DEF DiscountParts
  <2>2. order.type = "PERCENTAGE" => exact = C!Percentage(order)
    BY DEF DiscountParts
  <2>3. QED
    BY <2>1, <2>2, OrderFact, PartsType DEF DiscountInv
<1>4. /\ FinalParts \in Nat
      /\ exact <= price * 10000 => FinalParts = price * 10000 - exact
      /\ exact > price * 10000 => FinalParts = 0
  BY <1>3, PartsType DEF FinalParts
<1>5. /\ cents \in Nat /\ 20000 * cents <= 2 * exact + 10000
      /\ 2 * exact - 10000 <= 20000 * cents
  BY <1>3, RoundedNear
<1>6. /\ total \in Nat /\ 20000 * total <= 2 * FinalParts + 10000
      /\ 2 * FinalParts - 10000 <= 20000 * total
  BY <1>1, <1>2, <1>4, RoundedNear
<1>7. /\ disc \in Nat /\ 20000 * disc <= 2 * (cents * 10000) + 10000
      /\ 2 * (cents * 10000) - 10000 <= 20000 * disc
  <2>1. cents * 10000 \in Nat /\ disc \in C!Rounded(cents * 10000)
    BY <1>1, <1>2, <1>5
  <2>2. QED
    BY <2>1, RoundedNear
<1> HIDE DEF total, disc, exact, price
<1>8. disc = cents
  BY <1>5, <1>7
<1>9. CASE exact <= price * 10000
  <2>1. total + disc - price \in {-1, 0, 1} /\ disc <= price
    BY <1>3, <1>4, <1>5, <1>6, <1>8, <1>9
  <2>2. order.type = "PERCENTAGE" /\ order.cap > 0 => disc <= order.cap
    BY <1>3, <1>5, <1>8
  <2>3. QED
    BY <1>1, <1>3, <1>6, <1>7, <2>1, <2>2
<1>10. CASE exact > price * 10000
  <2>1. total = 0 /\ disc >= price
    BY <1>3, <1>4, <1>5, <1>6, <1>8, <1>10
  <2>2. order.type = "PERCENTAGE" /\ order.value > 10000
    BY <1>3, <1>10
  <2>3. order.type = "PERCENTAGE" /\ order.cap > 0 => disc <= order.cap
    BY <1>3, <1>5, <1>8
  <2>4. disc <= price => total + disc - price \in {-1, 0, 1}
    BY <1>3, <1>7, <2>1
  <2>5. QED
    BY <1>1, <1>3, <1>6, <1>7, <2>1, <2>2, <2>3, <2>4
<1>11. QED
  BY <1>3, <1>9, <1>10

-----------------------------------------------------------------------------
(* The calendar                                                            *)

\* Multiples of the length of a day keep their order.
LEMMA TimesMonotone ==
    ASSUME NEW n \in Int, NEW m \in Int, NEW t \in Nat \ {0}
    PROVE  /\ n * t \in Int
           /\ n < m => n * t + t <= m * t
           /\ n * t = m * t => n = m
<1>1. n * t \in Int /\ m * t \in Int
  OBVIOUS
<1>2. ASSUME NEW a \in Int, NEW b \in Int, a < b PROVE a * t + t <= b * t
  <2>1. b - a - 1 \in Nat
    BY <1>2
  <2>2. (b - a - 1) * t \in Nat
    BY <2>1
  <2>3. (b - a - 1) * t = b * t - a * t - t
    OBVIOUS
  <2>4. a * t \in Int /\ b * t \in Int
    OBVIOUS
  <2>5. QED
    BY <2>2, <2>3, <2>4
<1>3. n < m \/ m < n \/ n = m
  OBVIOUS
<1>4. n < m => n * t + t <= m * t
  BY <1>2
<1>5. m < n => m * t + t <= n * t
  BY <1>2
<1>6. QED
  BY <1>1, <1>3, <1>4, <1>5

\* A moment of a day is told apart into both.
LEMMA DayTicks ==
    ASSUME NEW n \in Int, NEW z \in 0..(TicksPerDay - 1)
    PROVE  /\ (n * TicksPerDay + z) \div TicksPerDay = n
           /\ (n * TicksPerDay + z) % TicksPerDay = z
<1> DEFINE x == n * TicksPerDay + z
           q == x \div TicksPerDay
           w == x % TicksPerDay
<1>1. TicksPerDay \in Nat \ {0} /\ z \in Int
  BY ConstantsOK
<1>2. x \in Int /\ n * TicksPerDay \in Int
  BY <1>1
<1>3. q \in Int /\ w \in 0..(TicksPerDay - 1) /\ x = q * TicksPerDay + w
  BY <1>1, <1>2
<1>4. ~(q < n) /\ ~(n < q)
  <2> HIDE DEF q, w
  <2>1. q < n => q * TicksPerDay + TicksPerDay <= n * TicksPerDay
    BY <1>1, <1>3, TimesMonotone
  <2>2. n < q => n * TicksPerDay + TicksPerDay <= q * TicksPerDay
    BY <1>1, <1>3, TimesMonotone
  <2>3. QED
    BY <1>1, <1>2, <1>3, <2>1, <2>2
<1>5. QED
  BY <1>1, <1>2, <1>3, <1>4

\* The day on which a year begins.
YearStart(y) == 365 * y + ((y + 2) \div 4)

LEMMA DaysBeforeFact ==
    /\ P!DaysBefore[1] = 0 /\ P!DaysBefore[2] = 31 /\ P!DaysBefore[3] = 59
    /\ P!DaysBefore[4] = 90 /\ P!DaysBefore[5] = 120 /\ P!DaysBefore[6] = 151
    /\ P!DaysBefore[7] = 181 /\ P!DaysBefore[8] = 212 /\ P!DaysBefore[9] = 243
    /\ P!DaysBefore[10] = 273 /\ P!DaysBefore[11] = 304 /\ P!DaysBefore[12] = 334
BY DEF P!DaysBefore

\* How many days of its year are before month k, in a leap year or not.
Before(k, leap) == P!DaysBefore[k + 1] + (IF leap /\ k >= 2 THEN 1 ELSE 0)

LEMMA MonthInYear ==
    ASSUME NEW m \in Nat
    PROVE  /\ m \div 12 \in Nat /\ m % 12 \in 0..11 /\ m = 12 * (m \div 12) + (m % 12)
           /\ P!MonthStart(m) = YearStart(m \div 12) + Before(m % 12, P!IsLeap(m \div 12))
<1> DEFINE y == m \div 12
           k == m % 12
<1>1. y \in Nat /\ k \in 0..11 /\ m = 12 * y + k
  OBVIOUS
<1>2. P!DaysBefore[k + 1] \in Nat
  <2> HIDE DEF y, k
  <2>1. k \in {0, 1, 2, 3, 4, 5, 6, 7, 8, 9, 10, 11}
    BY <1>1
  <2>2. QED
    BY <2>1, DaysBeforeFact
<1>3. P!MonthStart(m) = 365 * y + P!DaysBefore[k + 1]
                        + ((y + 2) \div 4 + (IF P!IsLeap(y) /\ k >= 2 THEN 1 ELSE 0))
  BY DEF P!MonthStart
<1>4. P!MonthStart(m) = YearStart(y) + Before(k, P!IsLeap(y))
  <2> DEFINE a == 365 * y
             b == (y + 2) \div 4
             c == IF P!IsLeap(y) /\ k >= 2 THEN 1 ELSE 0
  <2>1. a \in Nat /\ b \in Nat /\ c \in Nat
    BY <1>1
  <2>2. P!MonthStart(m) = a + P!DaysBefore[k + 1] + (b + c)
    BY <1>3
  <2>3. YearStart(y) + Before(k, P!IsLeap(y)) = (a + b) + (P!DaysBefore[k + 1] + c)
    BY DEF YearStart, Before
  <2> HIDE DEF a, b, c
  <2>4. QED
    BY <1>2, <2>1, <2>2, <2>3
<1>5. QED
  BY <1>1, <1>4

\* A year has 365 days, or 366.
LEMMA YearLength ==
    ASSUME NEW y \in Nat
    PROVE  /\ YearStart(y) \in Nat
           /\ YearStart(y + 1) = YearStart(y) + (IF P!IsLeap(y) THEN 366 ELSE 365)
BY DEF YearStart, P!IsLeap

LEMMA YearsApart ==
    ASSUME NEW y \in Nat, NEW z \in Nat, y < z
    PROVE  YearStart(y + 1) <= YearStart(z)
BY DEF YearStart

\* Months follow upon each other within the year.
LEMMA BeforeFact ==
    ASSUME NEW leap \in BOOLEAN
    PROVE  /\ \A k \in 0..11 : Before(k, leap) \in Nat /\ Before(k, leap) <= 335
           /\ \A k \in 0..10 : Before(k + 1, leap) - Before(k, leap) \in 28..31
           /\ Before(0, leap) = 0 /\ Before(11, leap) = (IF leap THEN 335 ELSE 334)
           /\ \A k, j \in 0..11 : k < j => Before(k + 1, leap) <= Before(j, leap)
           /\ \A k \in 0..11 : 28 * k <= Before(k, leap)
           /\ \A k \in 0..11 : Before(k, leap) <= 31 * k
<1> DEFINE l == IF leap THEN 1 ELSE 0
<1>1. /\ Before(0, leap) = 0 /\ Before(1, leap) = 31 /\ Before(2, leap) = 59 + l
      /\ Before(3, leap) = 90 + l /\ Before(4, leap) = 120 + l /\ Before(5, leap) = 151 + l
      /\ Before(6, leap) = 181 + l /\ Before(7, leap) = 212 + l /\ Before(8, leap) = 243 + l
      /\ Before(9, leap) = 273 + l /\ Before(10, leap) = 304 + l /\ Before(11, leap) = 334 + l
  BY DaysBeforeFact DEF Before
<1>2. l \in {0, 1} /\ (l = 1 <=> leap)
  OBVIOUS
<1>3. \A k \in 0..11 : k \in {0, 1, 2, 3, 4, 5, 6, 7, 8, 9, 10, 11}
  OBVIOUS
<1> HIDE DEF l
<1>4. \A k \in 0..11 : Before(k, leap) \in Nat /\ Before(k, leap) <= 335
  BY <1>1, <1>2, <1>3
<1>5. \A k \in 0..10 : Before(k + 1, leap) - Before(k, leap) \in 28..31
  BY <1>1, <1>2, <1>3
<1>6. Before(0, leap) = 0 /\ Before(11, leap) = (IF leap THEN 335 ELSE 334)
  BY <1>1, <1>2
<1>7. \A k, j \in 0..11 : k < j => Before(k + 1, leap) <= Before(j, leap)
  BY <1>1, <1>2, <1>3
<1>8. \A k \in 0..11 : 28 * k <= Before(k, leap)
  BY <1>1, <1>2, <1>3
<1>9. \A k \in 0..11 : Before(k, leap) <= 31 * k
  BY <1>1, <1>2, <1>3
<1>10. QED
  BY <1>4, <1>5, <1>6, <1>7, <1>8, <1>9

LEMMA MonthLength ==
    ASSUME NEW m \in Nat
    PROVE  /\ P!MonthStart(m) \in Nat
           /\ P!MonthStart(m + 1) - P!MonthStart(m) \in 28..31
           /\ 28 * m <= P!MonthStart(m) /\ P!MonthStart(m) <= 31 * m
<1> DEFINE y == m \div 12
           k == m % 12
           s == YearStart(y)
           b == Before(k, P!IsLeap(y))
<1>1. y \in Nat /\ k \in 0..11 /\ m = 12 * y + k /\ P!MonthStart(m) = s + b
  BY MonthInYear
<1>2. P!IsLeap(y) \in BOOLEAN /\ s \in Nat /\ b \in Nat
  BY <1>1, YearLength, BeforeFact DEF P!IsLeap
<1>3. P!MonthStart(m + 1) - P!MonthStart(m) \in 28..31
  <2>1. CASE k < 11
    <3>1. (m + 1) \div 12 = y /\ (m + 1) % 12 = k + 1
      BY <1>1, <2>1
    <3>2. P!MonthStart(m + 1) = s + Before(k + 1, P!IsLeap(y))
      BY <3>1, MonthInYear
    <3>3. Before(k + 1, P!IsLeap(y)) - b \in 28..31 /\ Before(k + 1, P!IsLeap(y)) \in Nat
      BY <1>1, <1>2, <2>1, BeforeFact
    <3> HIDE DEF s, b
    <3>4. QED
      BY <1>1, <1>2, <3>2, <3>3
  <2>2. CASE k = 11
    <3>1. (m + 1) \div 12 = y + 1 /\ (m + 1) % 12 = 0
      BY <1>1, <2>2
    <3>2. P!MonthStart(m + 1) = YearStart(y + 1) + Before(0, P!IsLeap(y + 1))
      BY <3>1, MonthInYear
    <3>3. Before(0, P!IsLeap(y + 1)) = 0
      BY BeforeFact DEF P!IsLeap
    <3>4. b = IF P!IsLeap(y) THEN 335 ELSE 334
      BY <1>2, <2>2, BeforeFact
    <3>5. YearStart(y + 1) = s + (IF P!IsLeap(y) THEN 366 ELSE 365)
      BY <1>1, YearLength
    <3> HIDE DEF s, b
    <3>6. QED
      BY <1>1, <1>2, <3>2, <3>3, <3>4, <3>5
  <2>3. QED
    BY <1>1, <2>1, <2>2
<1>4. 28 * k <= b /\ b <= 31 * k
  BY <1>1, <1>2, BeforeFact
<1>5. s >= 365 * y /\ (y = 0 => s = 0) /\ (y > 0 => s <= 366 * y)
  BY <1>1 DEF YearStart
<1>6. QED
  <2> HIDE DEF y, k, s, b
  <2>1. 28 * m <= P!MonthStart(m)
    BY <1>1, <1>2, <1>4, <1>5
  <2>2. P!MonthStart(m) <= 31 * m
    BY <1>1, <1>2, <1>4, <1>5
  <2>3. QED
    BY <1>1, <1>2, <1>3, <2>1, <2>2

LEMMA MonthsApart ==
    ASSUME NEW m \in Nat, NEW n \in Nat, m < n
    PROVE  P!MonthStart(m + 1) <= P!MonthStart(n)
<1> DEFINE y == m \div 12
           k == m % 12
           z == n \div 12
           j == n % 12
<1>1. /\ y \in Nat /\ k \in 0..11 /\ m = 12 * y + k
      /\ P!MonthStart(m) = YearStart(y) + Before(k, P!IsLeap(y))
      /\ z \in Nat /\ j \in 0..11 /\ n = 12 * z + j
      /\ P!MonthStart(n) = YearStart(z) + Before(j, P!IsLeap(z))
  BY MonthInYear
<1>2. P!IsLeap(y) \in BOOLEAN /\ P!IsLeap(z) \in BOOLEAN
  BY DEF P!IsLeap
<1>3. YearStart(y) \in Nat /\ YearStart(z) \in Nat
      /\ Before(j, P!IsLeap(z)) \in Nat /\ YearStart(y + 1) \in Nat
  BY <1>1, <1>2, YearLength, BeforeFact
<1>4. CASE y = z
  <2>1. k < j
    BY <1>1, <1>4
  <2>2. (m + 1) \div 12 = y /\ (m + 1) % 12 = k + 1
    BY <1>1, <2>1
  <2>3. P!MonthStart(m + 1) = YearStart(y) + Before(k + 1, P!IsLeap(y))
    BY <2>2, MonthInYear
  <2>4. Before(k + 1, P!IsLeap(y)) <= Before(j, P!IsLeap(y)) /\ k + 1 \in 0..11
    BY <1>1, <1>2, <2>1, BeforeFact
  <2>5. Before(k + 1, P!IsLeap(y)) \in Nat
    BY <1>2, <2>4, BeforeFact
  <2> HIDE DEF y, k, z, j
  <2>6. QED
    BY <1>1, <1>3, <1>4, <2>3, <2>4, <2>5
<1>5. CASE y < z
  <2>1. YearStart(y + 1) <= YearStart(z)
    BY <1>1, <1>5, YearsApart
  <2>2. P!MonthStart(m + 1) <= YearStart(y + 1)
    <3>1. CASE k < 11
      <4>1. (m + 1) \div 12 = y /\ (m + 1) % 12 = k + 1
        BY <1>1, <3>1
      <4>2. P!MonthStart(m + 1) = YearStart(y) + Before(k + 1, P!IsLeap(y))
        BY <4>1, MonthInYear
      <4>3. Before(k + 1, P!IsLeap(y)) <= (IF P!IsLeap(y) THEN 335 ELSE 334)
            /\ Before(k + 1, P!IsLeap(y)) \in Nat
        <5>1. CASE k + 1 = 11
          BY <1>2, <5>1, BeforeFact
        <5>2. CASE k + 1 < 11
          <6>1. Before(k + 1, P!IsLeap(y)) \in Nat /\ Before(k + 2, P!IsLeap(y)) \in Nat
            BY <1>1, <1>2, <5>2, BeforeFact
          <6>2. k + 1 \in 0..11 /\ 11 \in 0..11 /\ k + 1 < 11 /\ k + 1 \in 0..10
            BY <1>1, <5>2
          <6>3. Before((k + 1) + 1, P!IsLeap(y)) <= Before(11, P!IsLeap(y))
            BY <1>2, <6>2, BeforeFact
          <6>4. Before((k + 1) + 1, P!IsLeap(y)) - Before(k + 1, P!IsLeap(y)) \in 28..31
            BY <1>2, <6>2, BeforeFact
          <6>5. (k + 1) + 1 = k + 2 /\ Before(11, P!IsLeap(y)) = (IF P!IsLeap(y) THEN 335 ELSE 334)
            BY <1>1, <1>2, BeforeFact
          <6> HIDE DEF y, k
          <6>6. QED
            BY <6>1, <6>3, <6>4, <6>5
        <5>3. QED
          BY <1>1, <3>1, <5>1, <5>2
      <4>4. YearStart(y + 1) = YearStart(y) + (IF P!IsLeap(y) THEN 366 ELSE 365)
        BY <1>1, YearLength
      <4> HIDE DEF y, k
      <4>5. QED
        BY <1>2, <1>3, <4>2, <4>3, <4>4
    <3>2. CASE k = 11
      <4>1. (m + 1) \div 12 = y + 1 /\ (m + 1) % 12 = 0
        BY <1>1, <3>2
      <4>2. P!MonthStart(m + 1) = YearStart(y + 1) + Before(0, P!IsLeap(y + 1))
        <5>1. m + 1 \in Nat
          OBVIOUS
        <5>2. P!MonthStart(m + 1) = YearStart((m + 1) \div 12)
                                    + Before((m + 1) % 12, P!IsLeap((m + 1) \div 12))
          BY <5>1, MonthInYear
        <5>3. QED
          BY ONLY <4>1, <5>2
      <4>3. Before(0, P!IsLeap(y + 1)) = 0
        BY BeforeFact DEF P!IsLeap
      <4>4. QED
        BY <1>3, <4>2, <4>3
    <3>3. QED
      BY <1>1, <3>1, <3>2
  <2>3. P!MonthStart(m + 1) \in Nat
    BY MonthLength
  <2> HIDE DEF y, k, z, j
  <2>4. QED
    BY <1>1, <1>3, <2>1, <2>2, <2>3
<1>6. y <= z
  <2> HIDE DEF y, k, z, j
  <2>1. QED
    BY <1>1
<1>7. QED
  <2> HIDE DEF y, k, z, j
  <2>1. QED
    BY <1>1, <1>4, <1>5, <1>6

\* Every day is in one month.
InMonth(d, m) == P!MonthStart(m) <= d /\ d < P!MonthStart(m + 1)

LEMMA MonthUnique ==
    ASSUME NEW d \in Nat, NEW m \in Nat, NEW n \in Nat, InMonth(d, m), InMonth(d, n)
    PROVE  m = n
<1>1. /\ P!MonthStart(m) \in Nat /\ P!MonthStart(m + 1) \in Nat
      /\ P!MonthStart(n) \in Nat /\ P!MonthStart(n + 1) \in Nat
  BY MonthLength
<1>2. m < n => P!MonthStart(m + 1) <= P!MonthStart(n)
  BY MonthsApart
<1>3. n < m => P!MonthStart(n + 1) <= P!MonthStart(m)
  BY MonthsApart
<1>4. QED
  BY <1>1, <1>2, <1>3 DEF InMonth

LEMMA YearExists ==
    ASSUME NEW d \in Nat
    PROVE  \E y \in Nat : YearStart(y) <= d /\ d < YearStart(y + 1)
<1> DEFINE q == d \div 1461
           z == d % 1461
<1>1. q \in Nat /\ z \in 0..1460 /\ d = 1461 * q + z
  OBVIOUS
<1> HIDE DEF q, z
<1>2. /\ YearStart(4 * q) = 1461 * q /\ YearStart(4 * q + 1) = 1461 * q + 365
      /\ YearStart(4 * q + 2) = 1461 * q + 731 /\ YearStart(4 * q + 3) = 1461 * q + 1096
      /\ YearStart(4 * q + 4) = 1461 * q + 1461
  BY <1>1 DEF YearStart
<1>3. /\ 4 * q \in Nat /\ 4 * q + 1 \in Nat /\ 4 * q + 2 \in Nat /\ 4 * q + 3 \in Nat
      /\ (4 * q + 1) + 1 = 4 * q + 2 /\ (4 * q + 2) + 1 = 4 * q + 3
      /\ (4 * q + 3) + 1 = 4 * q + 4
  BY <1>1
<1>4. CASE z < 365
  BY <1>1, <1>2, <1>3, <1>4
<1>5. CASE z >= 365 /\ z < 731
  <2>1. YearStart(4 * q + 1) <= d /\ d < YearStart((4 * q + 1) + 1)
    BY <1>1, <1>2, <1>3, <1>5
  <2>2. QED
    BY <1>3, <2>1
<1>6. CASE z >= 731 /\ z < 1096
  <2>1. YearStart(4 * q + 2) <= d /\ d < YearStart((4 * q + 2) + 1)
    BY <1>1, <1>2, <1>3, <1>6
  <2>2. QED
    BY <1>3, <2>1
<1>7. CASE z >= 1096
  <2>1. YearStart(4 * q + 3) <= d /\ d < YearStart((4 * q + 3) + 1)
    BY <1>1, <1>2, <1>3, <1>7
  <2>2. QED
    BY <1>3, <2>1
<1>8. QED
  BY <1>1, <1>4, <1>5, <1>6, <1>7

LEMMA MonthExists ==
    ASSUME NEW d \in Nat
    PROVE  \E m \in Nat : InMonth(d, m)
<1>1. PICK y \in Nat : YearStart(y) <= d /\ d < YearStart(y + 1)
  BY YearExists
<1> DEFINE leap == P!IsLeap(y)
           e == d - YearStart(y)
<1>2. leap \in BOOLEAN
  BY DEF P!IsLeap
<1>3. e \in Nat /\ e < (IF leap THEN 366 ELSE 365) /\ YearStart(y) \in Nat
  BY <1>1, YearLength
<1>4. ASSUME NEW k \in 0..10, Before(k, leap) <= e, e < Before(k + 1, leap)
      PROVE  InMonth(d, 12 * y + k)
  <2>1. (12 * y + k) \div 12 = y /\ (12 * y + k) % 12 = k
        /\ (12 * y + k + 1) \div 12 = y /\ (12 * y + k + 1) % 12 = k + 1
    OBVIOUS
  <2>2. /\ P!MonthStart(12 * y + k) = YearStart(y) + Before(k, leap)
        /\ P!MonthStart(12 * y + k + 1) = YearStart(y) + Before(k + 1, leap)
    BY <2>1, MonthInYear
  <2>3. Before(k, leap) \in Nat /\ Before(k + 1, leap) \in Nat
    BY <1>2, BeforeFact
  <2> HIDE DEF leap
  <2>4. QED
    BY <1>3, <1>4, <2>2, <2>3 DEF InMonth
<1>5. ASSUME Before(11, leap) <= e PROVE InMonth(d, 12 * y + 11)
  <2>1. (12 * y + 11) \div 12 = y /\ (12 * y + 11) % 12 = 11
        /\ (12 * y + 11 + 1) \div 12 = y + 1 /\ (12 * y + 11 + 1) % 12 = 0
    OBVIOUS
  <2>2. /\ P!MonthStart(12 * y + 11) = YearStart(y) + Before(11, leap)
        /\ P!MonthStart(12 * y + 11 + 1) = YearStart(y + 1) + Before(0, P!IsLeap(y + 1))
    <3>1. 12 * y + 11 \in Nat /\ 12 * y + 11 + 1 \in Nat
      OBVIOUS
    <3>2. /\ P!MonthStart(12 * y + 11) =
               YearStart((12 * y + 11) \div 12)
               + Before((12 * y + 11) % 12, P!IsLeap((12 * y + 11) \div 12))
          /\ P!MonthStart(12 * y + 11 + 1) =
               YearStart((12 * y + 11 + 1) \div 12)
               + Before((12 * y + 11 + 1) % 12, P!IsLeap((12 * y + 11 + 1) \div 12))
      BY <3>1, MonthInYear
    <3>3. QED
      BY ONLY <2>1, <3>2
  <2>3. Before(0, P!IsLeap(y + 1)) = 0 /\ Before(11, leap) \in Nat
    <3>1. P!IsLeap(y + 1) \in BOOLEAN /\ 11 \in 0..11
      BY DEF P!IsLeap
    <3>2. Before(0, P!IsLeap(y + 1)) = 0
      BY <3>1, BeforeFact
    <3>3. Before(11, leap) \in Nat
      BY <1>2, <3>1, BeforeFact
    <3>4. QED
      BY <3>2, <3>3
  <2>4. YearStart(y + 1) \in Nat
    BY YearLength
  <2> HIDE DEF leap
  <2>5. QED
    BY <1>1, <1>3, <1>5, <2>2, <2>3, <2>4 DEF InMonth
<1>6. \E k \in 0..11 : Before(k, leap) <= e /\ (k = 11 \/ e < Before(k + 1, leap))
  <2>1. /\ \A k \in 0..11 : Before(k, leap) \in Nat
        /\ Before(0, leap) = 0
    BY <1>2, BeforeFact
  <2> HIDE DEF leap, e
  <2>2. \/ e < Before(1, leap)
        \/ Before(1, leap) <= e /\ e < Before(2, leap)
        \/ Before(2, leap) <= e /\ e < Before(3, leap)
        \/ Before(3, leap) <= e /\ e < Before(4, leap)
        \/ Before(4, leap) <= e /\ e < Before(5, leap)
        \/ Before(5, leap) <= e /\ e < Before(6, leap)
        \/ Before(6, leap) <= e /\ e < Before(7, leap)
        \/ Before(7, leap) <= e /\ e < Before(8, leap)
        \/ Before(8, leap) <= e /\ e < Before(9, leap)
        \/ Before(9, leap) <= e /\ e < Before(10, leap)
        \/ Before(10, leap) <= e /\ e < Before(11, leap)
        \/ Before(11, leap) <= e
    BY <1>3, <2>1
  <2>3. QED
    BY <1>3, <2>1, <2>2
<1>7. \A k \in 0..11 : 12 * y + k \in Nat /\ (k # 11 => k \in 0..10)
  OBVIOUS
<1>8. QED
  BY <1>4, <1>5, <1>6, <1>7

-----------------------------------------------------------------------------
(* Moments                                                                 *)

\* The month of a moment is the one that its day is in.
LEMMA MonthOfDay ==
    ASSUME NEW t \in Int, P!DayOf(t) \in Nat
    PROVE  P!MonthOf(t) \in Nat /\ InMonth(P!DayOf(t), P!MonthOf(t))
<1> DEFINE d == P!DayOf(t)
           range == (d \div 31)..(d \div 28)
           Is(m) == P!MonthStart(m) <= d /\ d < P!MonthStart(m + 1)
<1>1. P!MonthOf(t) = CHOOSE m \in range : Is(m)
  BY DEF P!MonthOf
<1>2. PICK m \in Nat : InMonth(d, m)
  BY MonthExists
<1>3. 28 * m <= d /\ d < 31 * (m + 1)
  <2>1. P!MonthStart(m) \in Nat /\ 28 * m <= P!MonthStart(m)
    BY MonthLength
  <2>2. m + 1 \in Nat
    OBVIOUS
  <2>3. P!MonthStart(m + 1) \in Nat /\ P!MonthStart(m + 1) <= 31 * (m + 1)
    BY <2>2, MonthLength
  <2> HIDE DEF d
  <2>4. d \in Nat
    BY DEF d
  <2>5. QED
    BY <1>2, <2>1, <2>3, <2>4 DEF InMonth
<1>4. m \in range
  <2>1. d \in Nat
    OBVIOUS
  <2> HIDE DEF d
  <2>2. d \div 31 <= m /\ m <= d \div 28 /\ d \div 31 \in Nat /\ d \div 28 \in Nat
    BY <1>3, <2>1
  <2>3. QED
    BY <2>2
<1>5. \E n \in range : Is(n)
  BY <1>2, <1>4 DEF InMonth
<1>6. P!MonthOf(t) \in range /\ Is(P!MonthOf(t))
  BY <1>1, <1>5
<1>7. \A n \in range : n \in Nat
  OBVIOUS
<1>8. QED
  BY <1>6, <1>7 DEF InMonth

LEMMA MonthIs ==
    ASSUME NEW t \in Int, P!DayOf(t) \in Nat, NEW m \in Nat, InMonth(P!DayOf(t), m)
    PROVE  P!MonthOf(t) = m
BY MonthOfDay, MonthUnique

\* A moment is its day and the ticks since it began.
LEMMA Moment ==
    ASSUME NEW t \in Int
    PROVE  /\ P!DayOf(t) \in Int /\ t % TicksPerDay \in 0..(TicksPerDay - 1)
           /\ t = P!DayOf(t) * TicksPerDay + (t % TicksPerDay)
           /\ P!StartOfUTCDay(t) = P!DayOf(t) * TicksPerDay
<1> DEFINE q == t \div TicksPerDay
           w == t % TicksPerDay
<1>1. q \in Int /\ w \in 0..(TicksPerDay - 1) /\ t = q * TicksPerDay + w
  BY ConstantsOK
<1>2. q * TicksPerDay \in Int
  BY <1>1, ConstantsOK
<1> HIDE DEF q
<1>3. t - w = q * TicksPerDay
  <2> HIDE DEF w
  <2>1. QED
    BY <1>1, <1>2, ConstantsOK
<1>4. QED
  BY <1>1, <1>3 DEF q, P!DayOf, P!StartOfUTCDay

LEMMA DayStart ==
    ASSUME NEW d \in Int
    PROVE  /\ d * TicksPerDay \in Int /\ P!DayOf(d * TicksPerDay) = d
           /\ (d * TicksPerDay) % TicksPerDay = 0
           /\ P!StartOfUTCDay(d * TicksPerDay) = d * TicksPerDay
<1>1. 0 \in 0..(TicksPerDay - 1) /\ d * TicksPerDay \in Int
  BY ConstantsOK
<1>2. d * TicksPerDay + 0 = d * TicksPerDay
  BY <1>1
<1>3. P!DayOf(d * TicksPerDay) = d /\ (d * TicksPerDay) % TicksPerDay = 0
  BY <1>1, <1>2, DayTicks DEF P!DayOf
<1>4. QED
  BY <1>1, <1>3, Moment

\* Earlier moments have earlier days.
LEMMA DaysInOrder ==
    ASSUME NEW t \in Int, NEW d \in Int
    PROVE  t >= d * TicksPerDay <=> P!DayOf(t) >= d
<1> DEFINE q == P!DayOf(t)
           w == t % TicksPerDay
<1>1. /\ q \in Int /\ w \in 0..(TicksPerDay - 1) /\ t = q * TicksPerDay + w
      /\ TicksPerDay \in Nat \ {0}
  BY Moment, ConstantsOK
<1>2. d * TicksPerDay \in Int /\ q * TicksPerDay \in Int
  BY <1>1
<1> HIDE DEF q, w
<1>3. q < d => q * TicksPerDay + TicksPerDay <= d * TicksPerDay
  BY <1>1, TimesMonotone
<1>4. d < q => d * TicksPerDay + TicksPerDay <= q * TicksPerDay
  BY <1>1, TimesMonotone
<1>5. t >= d * TicksPerDay <=> q >= d
  BY <1>1, <1>2, <1>3, <1>4
<1>6. QED
  BY <1>5 DEF q

\* The date carries over into other months.
LEMMA SetDate ==
    ASSUME NEW t \in Int, P!DayOf(t) \in Nat, NEW n \in Int
    PROVE  P!SetUTCDate(t, P!UTCDate(t) + n) = (P!DayOf(t) + n) * TicksPerDay + (t % TicksPerDay)
<1> DEFINE s == P!MonthStart(P!MonthOf(t))
           d == P!DayOf(t)
<1>1. s \in Nat /\ d \in Nat
  BY MonthOfDay, MonthLength
<1>2. P!SetUTCDate(t, P!UTCDate(t) + n)
        = (s + (d - s + 1 + n) - 1) * TicksPerDay + (t % TicksPerDay)
  BY DEF P!SetUTCDate, P!UTCDate
<1>3. s + (d - s + 1 + n) - 1 = d + n
  BY <1>1
<1>4. QED
  BY <1>2, <1>3

LEMMA AddDays ==
    ASSUME NEW d \in Nat, NEW n \in Int
    PROVE  P!AddUTCDays(d * TicksPerDay, n) = (d + n) * TicksPerDay
<1>1. /\ d * TicksPerDay \in Int /\ P!DayOf(d * TicksPerDay) = d
      /\ (d * TicksPerDay) % TicksPerDay = 0 /\ (d + n) * TicksPerDay \in Int
  BY DayStart
<1>2. P!AddUTCDays(d * TicksPerDay, n) = (d + n) * TicksPerDay + 0
  BY <1>1, SetDate DEF P!AddUTCDays
<1>3. QED
  BY <1>1, <1>2

\* The Monday of the week.
WeekStart(d) == d - ((d + 6) % 7)

LEMMA StartOfWeek ==
    ASSUME NEW t \in Int, P!DayOf(t) \in Nat
    PROVE  P!StartOfUTCWeek(t) = WeekStart(P!DayOf(t)) * TicksPerDay
<1> DEFINE d == P!DayOf(t)
           x == P!StartOfUTCDay(t)
           n == (IF d % 7 = 0 THEN -6 ELSE 1) - (d % 7)
<1>1. d \in Nat /\ x = d * TicksPerDay
  BY Moment
<1>2. x \in Int /\ P!DayOf(x) = d /\ x % TicksPerDay = 0
  BY <1>1, DayStart
<1>3. P!MonthOf(x) = P!MonthOf(t)
  BY <1>2 DEF P!MonthOf
<1>4. P!UTCDate(x) = P!UTCDate(t) /\ P!UTCDate(t) \in Int
  BY <1>2, <1>3, MonthOfDay, MonthLength DEF P!UTCDate
<1>5. n \in Int /\ n = -((d + 6) % 7)
  <2> HIDE DEF d
  <2>1. n = (IF d % 7 = 0 THEN -6 ELSE 1) - (d % 7)
    OBVIOUS
  <2>2. QED
    BY <1>1, <2>1
<1>6. P!UTCDate(t) - P!UTCDay(t) + (IF P!UTCDay(t) = 0 THEN -6 ELSE 1) = P!UTCDate(x) + n
  <2>1. d % 7 \in Int /\ P!UTCDay(t) = d % 7
    BY <1>1 DEF P!UTCDay
  <2>2. QED
    BY <1>4, <2>1
<1>7. P!StartOfUTCWeek(t) = P!SetUTCDate(x, P!UTCDate(x) + n)
  BY <1>6 DEF P!StartOfUTCWeek
<1>8. P!StartOfUTCWeek(t) = (d + n) * TicksPerDay + 0
  <2> HIDE DEF n
  <2>1. QED
    BY <1>1, <1>2, <1>5, <1>7, SetDate
<1>9. d + n = WeekStart(d)
  <2> HIDE DEF d, n
  <2>1. QED
    BY <1>1, <1>5 DEF WeekStart
<1>10. (d + n) * TicksPerDay \in Int
  <2> HIDE DEF n
  <2>1. QED
    BY <1>1, <1>5, ConstantsOK
<1>11. QED
  BY <1>8, <1>9, <1>10

\* From the first day of a month to that of another.
LEMMA FirstOfMonth ==
    ASSUME NEW m \in Nat
    PROVE  /\ P!MonthStart(m) \in Nat
           /\ P!MonthOf(P!MonthStart(m) * TicksPerDay) = m
           /\ P!UTCDate(P!MonthStart(m) * TicksPerDay) = 1
<1>1. P!MonthStart(m) \in Nat /\ InMonth(P!MonthStart(m), m)
  <2>1. P!MonthStart(m) \in Nat /\ P!MonthStart(m + 1) - P!MonthStart(m) \in 28..31
    BY MonthLength
  <2>2. m + 1 \in Nat
    OBVIOUS
  <2>3. P!MonthStart(m + 1) \in Nat
    BY <2>2, MonthLength
  <2>4. QED
    BY <2>1, <2>3 DEF InMonth
<1> DEFINE x == P!MonthStart(m) * TicksPerDay
<1>2. x \in Int /\ P!DayOf(x) = P!MonthStart(m)
  BY <1>1, DayStart
<1>3. P!MonthOf(x) = m
  BY <1>1, <1>2, MonthIs
<1>4. P!UTCDate(x) = 1
  BY <1>1, <1>2, <1>3 DEF P!UTCDate
<1>5. QED
  BY <1>1, <1>3, <1>4

LEMMA AddMonths ==
    ASSUME NEW m \in Nat, NEW n \in Int, m + n \in Nat
    PROVE  P!AddUTCMonths(P!MonthStart(m) * TicksPerDay, n) = P!MonthStart(m + n) * TicksPerDay
<1> DEFINE x == P!MonthStart(m) * TicksPerDay
           k == m + n
<1>1. P!MonthOf(x) = m /\ P!UTCDate(x) = 1 /\ x % TicksPerDay = 0
  BY FirstOfMonth, DayStart
<1>2. P!MonthStart(k) \in Nat /\ P!DaysIn(k) \in 28..31
  BY MonthLength DEF P!DaysIn
<1>3. P!AddUTCMonths(x, n)
        = (P!MonthStart(k) + (IF 1 < P!DaysIn(k) THEN 1 ELSE P!DaysIn(k)) - 1) * TicksPerDay + 0
  BY <1>1 DEF P!AddUTCMonths
<1>4. (P!MonthStart(k) + (IF 1 < P!DaysIn(k) THEN 1 ELSE P!DaysIn(k)) - 1) = P!MonthStart(k)
  BY <1>2
<1>5. P!MonthStart(k) * TicksPerDay \in Int
  BY <1>2, ConstantsOK
<1>6. QED
  BY <1>3, <1>4, <1>5

LEMMA StartOfMonth ==
    ASSUME NEW t \in Int, P!DayOf(t) \in Nat
    PROVE  P!StartOfUTCMonth(t) = P!MonthStart(P!MonthOf(t)) * TicksPerDay
<1> DEFINE x == P!StartOfUTCDay(t)
           s == P!MonthStart(P!MonthOf(t))
<1>1. x = P!DayOf(t) * TicksPerDay
  BY Moment
<1>2. P!DayOf(x) = P!DayOf(t) /\ x % TicksPerDay = 0
  BY <1>1, DayStart
<1>3. P!MonthOf(x) = P!MonthOf(t)
  BY <1>2 DEF P!MonthOf
<1>4. s \in Nat /\ s * TicksPerDay \in Int
  BY MonthOfDay, MonthLength, ConstantsOK
<1>5. P!StartOfUTCMonth(t) = (s + 1 - 1) * TicksPerDay + 0
  BY <1>2, <1>3 DEF P!StartOfUTCMonth, P!SetUTCDate
<1>6. s + 1 - 1 = s
  BY <1>4
<1>7. QED
  BY <1>4, <1>5, <1>6

-----------------------------------------------------------------------------
(* Reports                                                                 *)

\* The clock has left the first year behind.
LEMMA Today ==
    ASSUME P!TypeOK
    PROVE  /\ now \in Int /\ P!DayOf(now) \in Nat /\ P!DayOf(now) >= 365
           /\ P!MonthOf(now) \in Nat /\ P!MonthOf(now) >= 12
           /\ InMonth(P!DayOf(now), P!MonthOf(now))
<1> DEFINE d == P!DayOf(now)
           m == P!MonthOf(now)
<1>1. now \in Int /\ now >= From * TicksPerDay /\ From \in Int /\ From >= 365
  BY ConstantsOK DEF P!TypeOK
<1>2. d \in Int /\ d >= From
  BY <1>1, Moment, DaysInOrder
<1>3. d \in Nat /\ d >= 365
  <2> HIDE DEF d
  <2>1. QED
    BY <1>1, <1>2
<1>4. m \in Nat /\ InMonth(d, m)
  BY <1>1, <1>3, MonthOfDay
<1>5. P!MonthStart(12) = 365
  <2>1. 12 \in Nat /\ 12 \div 12 = 1 /\ 12 % 12 = 0 /\ 1 \in Nat
    OBVIOUS
  <2>2. P!MonthStart(12) = YearStart(12 \div 12) + Before(12 % 12, P!IsLeap(12 \div 12))
    BY <2>1, MonthInYear
  <2>3. YearStart(1) = 365
    BY DEF YearStart
  <2>4. Before(0, P!IsLeap(1)) = 0
    BY BeforeFact DEF P!IsLeap
  <2>5. P!MonthStart(12) = YearStart(1) + Before(0, P!IsLeap(1))
    BY ONLY <2>1, <2>2
  <2>6. QED
    BY <2>3, <2>4, <2>5
<1>6. m < 12 => P!MonthStart(m + 1) <= 365
  BY <1>4, <1>5, MonthsApart
<1>7. m + 1 \in Nat /\ P!MonthStart(m + 1) \in Nat
  BY <1>4, MonthLength
<1>8. m >= 12
  BY <1>3, <1>4, <1>6, <1>7 DEF InMonth
<1>9. QED
  BY <1>1, <1>3, <1>4, <1>8

\* The Mondays are a week apart.
LEMMA Weeks ==
    ASSUME NEW d \in Nat
    PROVE  /\ (d + 6) \div 7 \in Nat
           /\ WeekStart(d) = 7 * ((d + 6) \div 7) - 6
           /\ WeekStart(d) <= d /\ d < WeekStart(d) + 7
BY DEF WeekStart

\* What EveryRowInOneBucket says of one kind of report.
Cut(period) ==
    LET starts == [i \in 0..(P!Count(period) - 1) |-> P!BucketStart(period, i)]
        begin == P!RangeStart(period)
        days == P!DayOf(begin)..(P!DayOf(P!RangeEnd(period)) - 1)
    IN /\ begin % TicksPerDay = 0
       /\ \A d \in days :
            LET label == P!DateTrunc(period, d * TicksPerDay)
            IN P!Cardinality({i \in DOMAIN starts : starts[i] = label}) = 1
       /\ starts[0] = P!DateTrunc(period, now)
       /\ \A i \in DOMAIN starts : P!DayOf(starts[i]) \in days

\* The range is that of the days b to e - 1, and in it the days S[i] are where
\* buckets begin: distinct ones, and the label of each of its days is one of them.
CutAt(period, b, e, S) ==
    LET I == 0..(P!Count(period) - 1)
    IN /\ P!RangeStart(period) = b * TicksPerDay
       /\ P!RangeEnd(period) = e * TicksPerDay
       /\ \A i \in I : /\ S[i] \in b..(e - 1)
                       /\ P!BucketStart(period, i) = S[i] * TicksPerDay
       /\ \A i, j \in I : S[i] = S[j] => i = j
       /\ \A d \in b..(e - 1) : \E i \in I :
            P!DateTrunc(period, d * TicksPerDay) = S[i] * TicksPerDay
       /\ P!DateTrunc(period, now) = S[0] * TicksPerDay

LEMMA Buckets ==
    ASSUME NEW period, NEW b \in Int, NEW e \in Int, NEW S,
           P!Count(period) \in Nat \ {0}, CutAt(period, b, e, S)
    PROVE  Cut(period)
<1> DEFINE I == 0..(P!Count(period) - 1)
           starts == [i \in I |-> P!BucketStart(period, i)]
           begin == P!RangeStart(period)
           days == P!DayOf(begin)..(P!DayOf(P!RangeEnd(period)) - 1)
<1>1. days = b..(e - 1) /\ begin % TicksPerDay = 0
  BY DayStart DEF CutAt
<1>2. DOMAIN starts = I /\ 0 \in I
  OBVIOUS
<1>3. \A i \in I : starts[i] = S[i] * TicksPerDay /\ S[i] \in Int /\ P!DayOf(starts[i]) = S[i]
  BY DayStart DEF CutAt
<1>4. ASSUME NEW d \in b..(e - 1)
      PROVE  P!Cardinality({i \in I : starts[i] = P!DateTrunc(period, d * TicksPerDay)}) = 1
  <2> DEFINE found == {i \in I : starts[i] = P!DateTrunc(period, d * TicksPerDay)}
  <2>1. PICK k \in I : P!DateTrunc(period, d * TicksPerDay) = S[k] * TicksPerDay
    BY <1>4 DEF CutAt
  <2>2. \A i \in I : starts[i] = S[k] * TicksPerDay => i = k
    BY <1>3 DEF CutAt
  <2>3. found = {k}
    <3> HIDE DEF starts
    <3>1. QED
      BY <1>3, <2>1, <2>2
  <2>4. P!Cardinality({k}) = 1
    BY FS_Singleton DEF P!Cardinality, P!IsFiniteSet, Cardinality, IsFiniteSet
  <2>5. QED
    BY <2>3, <2>4
<1>5. starts[0] = P!DateTrunc(period, now)
  BY <1>2, <1>3 DEF CutAt
<1>6. \A i \in DOMAIN starts : P!DayOf(starts[i]) \in days
  BY <1>1, <1>2, <1>3 DEF CutAt
<1>7. \A d \in days :
        P!Cardinality({i \in DOMAIN starts : starts[i] = P!DateTrunc(period, d * TicksPerDay)}) = 1
  BY <1>1, <1>2, <1>4
<1>8. QED
  BY <1>1, <1>5, <1>6, <1>7 DEF Cut

LEMMA DailyCut ==
    ASSUME P!TypeOK
    PROVE  Cut("daily") /\ P!BucketStart("daily", 0) = P!DayOf(now) * TicksPerDay
<1> DEFINE d == P!DayOf(now)
           S == [i \in 0..29 |-> d - i]
<1>1. now \in Int /\ d \in Nat /\ d >= 365
  BY Today
<1>2. P!Count("daily") = 30
  BY DEF P!Count
<1>3. P!RangeEnd("daily") = (d + 1) * TicksPerDay
  BY <1>1, Moment, AddDays DEF P!RangeEnd
<1>4. ASSUME NEW x \in Nat, NEW n \in Int
      PROVE  P!Back("daily", x * TicksPerDay, n) = (x - n) * TicksPerDay
  <2>1. P!Back("daily", x * TicksPerDay, n) = P!AddUTCDays(x * TicksPerDay, -n)
    BY DEF P!Back
  <2>2. P!AddUTCDays(x * TicksPerDay, -n) = (x + (-n)) * TicksPerDay
    BY AddDays
  <2>3. x + (-n) = x - n
    OBVIOUS
  <2>4. QED
    BY <2>1, <2>2, <2>3
<1> HIDE DEF d
<1>5. P!RangeStart("daily") = (d - 29) * TicksPerDay
  <2>1. d + 1 \in Nat /\ (d + 1) - 30 = d - 29
    BY <1>1
  <2>2. QED
    BY <1>2, <1>3, <1>4, <2>1 DEF P!RangeStart
<1>6. ASSUME NEW i \in 0..29
      PROVE  P!BucketStart("daily", i) = (d - i) * TicksPerDay
  <2>1. d + 1 \in Nat /\ (d + 1) - i \in Nat /\ ((d + 1) - i) - 1 = d - i
    BY <1>1
  <2>2. QED
    BY <1>3, <1>4, <2>1 DEF P!BucketStart
<1>7. ASSUME NEW x \in Int
      PROVE  P!DateTrunc("daily", x * TicksPerDay) = x * TicksPerDay
  BY DayStart DEF P!DateTrunc
<1>8. P!DateTrunc("daily", now) = d * TicksPerDay
  BY <1>1, Moment DEF P!DateTrunc, d
<1>9. /\ P!Count("daily") \in Nat \ {0} /\ P!Count("daily") - 1 = 29
      /\ d - 29 \in Int /\ d + 1 \in Int
  BY <1>1, <1>2
<1>10. \A i \in 0..29 : S[i] \in (d - 29)..((d + 1) - 1) /\ S[i] = d - i
  BY <1>1
<1>11. \A i, j \in 0..29 : S[i] = S[j] => i = j
  BY <1>1
<1>12. ASSUME NEW x \in (d - 29)..((d + 1) - 1)
       PROVE  \E i \in 0..29 : P!DateTrunc("daily", x * TicksPerDay) = S[i] * TicksPerDay
  <2>1. d - x \in 0..29 /\ S[d - x] = x /\ x \in Int
    BY <1>1
  <2>2. QED
    BY <1>7, <2>1
<1>13. S[0] = d
  BY <1>1
<1> HIDE DEF S
<1>14. Cut("daily")
  <2>1. CutAt("daily", d - 29, d + 1, S)
    <3>1. \A i \in 0..29 : /\ S[i] \in (d - 29)..((d + 1) - 1)
                           /\ P!BucketStart("daily", i) = S[i] * TicksPerDay
      BY <1>6, <1>10
    <3>2. P!DateTrunc("daily", now) = S[0] * TicksPerDay
      BY <1>8, <1>13
    <3>3. QED
      BY <1>3, <1>5, <1>9, <1>11, <1>12, <3>1, <3>2 DEF CutAt
  <2>2. QED
    BY <1>9, <2>1, Buckets
<1>15. P!BucketStart("daily", 0) = d * TicksPerDay
  <2>1. 0 \in 0..29 /\ d - 0 = d
    BY <1>1
  <2>2. QED
    BY <1>6, <2>1
<1>16. QED
  BY <1>14, <1>15 DEF d

LEMMA WeeklyCut ==
    ASSUME P!TypeOK
    PROVE  Cut("weekly")
<1> DEFINE d == P!DayOf(now)
           c == (d + 6) \div 7
           w == WeekStart(d)
           S == [i \in 0..11 |-> w - 7 * i]
<1>1. now \in Int /\ d \in Nat /\ d >= 365
  BY Today
<1> HIDE DEF d
<1>2. c \in Nat /\ w = 7 * c - 6 /\ w \in Nat /\ w >= 359
  <2>1. c \in Nat /\ w = 7 * c - 6 /\ w <= d /\ d < w + 7
    BY <1>1, Weeks
  <2> HIDE DEF c, w
  <2>2. QED
    BY <1>1, <2>1
<1> HIDE DEF c, w
<1>3. P!Count("weekly") = 12
  BY DEF P!Count
<1>4. P!RangeEnd("weekly") = (w + 7) * TicksPerDay
  BY <1>1, <1>2, StartOfWeek, AddDays DEF P!RangeEnd, d, w
<1>5. ASSUME NEW x \in Nat, NEW n \in Int
      PROVE  P!Back("weekly", x * TicksPerDay, n) = (x - 7 * n) * TicksPerDay
  <2>1. P!Back("weekly", x * TicksPerDay, n) = P!AddUTCDays(x * TicksPerDay, -n * 7)
    BY DEF P!Back
  <2>2. -n * 7 \in Int /\ x + (-n * 7) = x - 7 * n
    OBVIOUS
  <2>3. P!AddUTCDays(x * TicksPerDay, -n * 7) = (x + (-n * 7)) * TicksPerDay
    BY <2>2, AddDays
  <2>4. QED
    BY <2>1, <2>2, <2>3
<1>6. P!RangeStart("weekly") = (w - 77) * TicksPerDay
  <2>1. w + 7 \in Nat /\ (w + 7) - 7 * 12 = w - 77
    BY <1>2
  <2>2. QED
    BY <1>3, <1>4, <1>5, <2>1 DEF P!RangeStart
<1>7. ASSUME NEW i \in 0..11
      PROVE  P!BucketStart("weekly", i) = (w - 7 * i) * TicksPerDay
  <2>1. w + 7 \in Nat /\ (w + 7) - 7 * i \in Nat /\ ((w + 7) - 7 * i) - 7 * 1 = w - 7 * i
    BY <1>2
  <2>2. QED
    BY <1>4, <1>5, <2>1 DEF P!BucketStart
<1>8. ASSUME NEW x \in Nat, NEW t \in Int, P!DayOf(t) = x
      PROVE  P!DateTrunc("weekly", t) = WeekStart(x) * TicksPerDay
  <2>1. P!StartOfUTCDay(t) = x * TicksPerDay
    BY <1>8, Moment
  <2>2. P!DateTrunc("weekly", t) = x * TicksPerDay - TicksPerDay * ((x + 6) % 7)
    BY <1>8, <2>1 DEF P!DateTrunc
  <2> DEFINE z == (x + 6) % 7
  <2>3. z \in Int /\ TicksPerDay \in Int
    BY ConstantsOK
  <2> HIDE DEF z
  <2>4. x * TicksPerDay - TicksPerDay * z = (x - z) * TicksPerDay
    BY <2>3
  <2>5. QED
    BY <2>2, <2>4 DEF z, WeekStart
<1>9. /\ P!Count("weekly") \in Nat \ {0} /\ P!Count("weekly") - 1 = 11
      /\ w - 77 \in Int /\ w + 7 \in Int
  BY <1>2, <1>3
<1>10. \A i \in 0..11 : S[i] \in (w - 77)..((w + 7) - 1) /\ S[i] = w - 7 * i
  BY <1>2
<1>11. \A i, j \in 0..11 : S[i] = S[j] => i = j
  BY <1>2
<1>12. ASSUME NEW x \in (w - 77)..((w + 7) - 1)
       PROVE  \E i \in 0..11 : P!DateTrunc("weekly", x * TicksPerDay) = S[i] * TicksPerDay
  <2> DEFINE a == (x + 6) \div 7
  <2>1. x \in Nat /\ x * TicksPerDay \in Int /\ P!DayOf(x * TicksPerDay) = x
    BY <1>2, DayStart
  <2>2. P!DateTrunc("weekly", x * TicksPerDay) = WeekStart(x) * TicksPerDay
    BY <1>8, <2>1
  <2>3. /\ a \in Nat /\ WeekStart(x) = 7 * a - 6
        /\ WeekStart(x) <= x /\ x < WeekStart(x) + 7
    BY <2>1, Weeks
  <2> HIDE DEF a
  <2>4. c - a \in 0..11 /\ w - 7 * (c - a) = WeekStart(x)
    BY <1>2, <2>1, <2>3
  <2>5. S[c - a] = WeekStart(x)
    BY <2>4
  <2>6. QED
    BY <2>2, <2>4, <2>5
<1>13. S[0] = w
  BY <1>2
<1>14. P!DateTrunc("weekly", now) = w * TicksPerDay
  BY <1>1, <1>8 DEF d, w
<1> HIDE DEF S
<1>15. QED
  <2>1. CutAt("weekly", w - 77, w + 7, S)
    BY <1>4, <1>6, <1>7, <1>9, <1>10, <1>11, <1>12, <1>13, <1>14 DEF CutAt
  <2>2. QED
    BY <1>9, <2>1, Buckets

LEMMA MonthlyCut ==
    ASSUME P!TypeOK
    PROVE  /\ Cut("monthly")
           /\ P!BucketStart("monthly", 0) = P!MonthStart(P!MonthOf(now)) * TicksPerDay
<1> DEFINE m == P!MonthOf(now)
           S == [i \in 0..11 |-> P!MonthStart(m - i)]
<1>1. now \in Int /\ P!DayOf(now) \in Nat /\ m \in Nat /\ m >= 12
  BY Today
<1>2. P!Count("monthly") = 12
  BY DEF P!Count
<1>3. P!RangeEnd("monthly") = P!MonthStart(m + 1) * TicksPerDay
  BY <1>1, StartOfMonth, AddMonths DEF P!RangeEnd
<1> HIDE DEF m
<1>4. ASSUME NEW k \in Nat, NEW n \in Nat, k - n \in Nat
      PROVE  P!Back("monthly", P!MonthStart(k) * TicksPerDay, n) = P!MonthStart(k - n) * TicksPerDay
  <2>1. P!Back("monthly", P!MonthStart(k) * TicksPerDay, n)
          = P!AddUTCMonths(P!MonthStart(k) * TicksPerDay, -n)
    BY DEF P!Back
  <2>2. k + (-n) = k - n /\ -n \in Int
    OBVIOUS
  <2>3. P!AddUTCMonths(P!MonthStart(k) * TicksPerDay, -n) = P!MonthStart(k + (-n)) * TicksPerDay
    BY <1>4, <2>2, AddMonths
  <2>4. QED
    BY <2>1, <2>2, <2>3
<1>5. P!RangeStart("monthly") = P!MonthStart(m - 11) * TicksPerDay
  <2>1. m + 1 \in Nat /\ (m + 1) - 12 = m - 11 /\ m - 11 \in Nat /\ 12 \in Nat
    BY <1>1
  <2>2. QED
    BY <1>2, <1>3, <1>4, <2>1 DEF P!RangeStart
<1>6. ASSUME NEW i \in 0..11
      PROVE  P!BucketStart("monthly", i) = P!MonthStart(m - i) * TicksPerDay
  <2>1. m + 1 \in Nat /\ (m + 1) - i \in Nat /\ ((m + 1) - i) - 1 = m - i /\ m - i \in Nat
        /\ i \in Nat /\ 1 \in Nat
    BY <1>1
  <2>2. QED
    BY <1>3, <1>4, <2>1 DEF P!BucketStart
<1>7. \A i \in 0..11 : S[i] \in P!MonthStart(m - 11)..(P!MonthStart(m + 1) - 1)
                       /\ S[i] = P!MonthStart(m - i)
  <2> TAKE i \in 0..11
  <2>1. m - i \in Nat /\ m - 11 \in Nat /\ m + 1 \in Nat
    BY <1>1
  <2>2. /\ P!MonthStart(m - i) \in Nat /\ P!MonthStart(m - 11) \in Nat
        /\ P!MonthStart(m + 1) \in Nat /\ P!MonthStart((m - i) + 1) \in Nat
        /\ P!MonthStart((m - i) + 1) - P!MonthStart(m - i) \in 28..31
        /\ P!MonthStart((m - 11) + 1) - P!MonthStart(m - 11) \in 28..31
        /\ P!MonthStart((m - 11) + 1) \in Nat
    <3>1. (m - i) + 1 \in Nat /\ (m - 11) + 1 \in Nat
      BY <1>1
    <3>2. QED
      BY <2>1, <3>1, MonthLength
  <2>3. m - i < m + 1 /\ (i = 11 \/ m - 11 < m - i)
    BY <1>1
  <2>4. P!MonthStart((m - i) + 1) <= P!MonthStart(m + 1)
    BY <2>1, <2>3, MonthsApart
  <2>5. i = 11 \/ P!MonthStart((m - 11) + 1) <= P!MonthStart(m - i)
    BY <2>1, <2>3, MonthsApart
  <2>6. P!MonthStart(m - 11) <= P!MonthStart(m - i)
    BY <2>2, <2>5
  <2>7. P!MonthStart(m - i) < P!MonthStart(m + 1)
    BY <2>2, <2>4
  <2>8. QED
    BY <2>2, <2>6, <2>7
<1>8. \A i, j \in 0..11 : S[i] = S[j] => i = j
  <2> SUFFICES ASSUME NEW i \in 0..11, NEW j \in 0..11, S[i] = S[j] PROVE i = j
    OBVIOUS
  <2>1. m - i \in Nat /\ m - j \in Nat /\ S[i] = P!MonthStart(m - i) /\ S[j] = P!MonthStart(m - j)
    BY <1>1
  <2>2. /\ P!MonthStart(m - i) \in Nat /\ P!MonthOf(P!MonthStart(m - i) * TicksPerDay) = m - i
        /\ P!MonthOf(P!MonthStart(m - j) * TicksPerDay) = m - j
    BY <2>1, FirstOfMonth
  <2>3. m - i = m - j
    BY <2>1, <2>2
  <2>4. QED
    BY <1>1, <2>3
<1>9. ASSUME NEW x \in P!MonthStart(m - 11)..(P!MonthStart(m + 1) - 1)
      PROVE  \E i \in 0..11 : P!DateTrunc("monthly", x * TicksPerDay) = S[i] * TicksPerDay
  <2> DEFINE k == P!MonthOf(x * TicksPerDay)
  <2>1. m - 11 \in Nat /\ m + 1 \in Nat
    BY <1>1
  <2>2. P!MonthStart(m - 11) \in Nat /\ P!MonthStart(m + 1) \in Nat
    BY <2>1, MonthLength
  <2>3. x \in Nat /\ P!MonthStart(m - 11) <= x /\ x < P!MonthStart(m + 1)
    BY <2>2
  <2>4. x * TicksPerDay \in Int /\ P!DayOf(x * TicksPerDay) = x
    BY <2>3, DayStart
  <2>5. k \in Nat /\ InMonth(x, k)
    BY <2>3, <2>4, MonthOfDay
  <2> HIDE DEF k
  <2>6. P!MonthStart(k) \in Nat /\ P!MonthStart(k + 1) \in Nat
    <3>1. k + 1 \in Nat
      BY <2>5
    <3>2. QED
      BY <2>5, <3>1, MonthLength
  <2>7. ~(k < m - 11)
    <3>1. k < m - 11 => P!MonthStart(k + 1) <= P!MonthStart(m - 11)
      BY <2>1, <2>5, MonthsApart
    <3>2. QED
      BY <2>2, <2>3, <2>5, <2>6, <3>1 DEF InMonth
  <2>8. ~(m < k)
    <3>1. m < k => P!MonthStart(m + 1) <= P!MonthStart(k)
      BY <1>1, <2>5, MonthsApart
    <3>2. QED
      BY <2>2, <2>3, <2>5, <2>6, <3>1 DEF InMonth
  <2>9. m - k \in 0..11 /\ m - (m - k) = k
    BY <1>1, <2>5, <2>7, <2>8
  <2>10. P!DateTrunc("monthly", x * TicksPerDay) = P!MonthStart(k) * TicksPerDay
    BY DEF P!DateTrunc, k
  <2>11. S[m - k] = P!MonthStart(k)
    BY <2>9
  <2>12. QED
    BY <2>9, <2>10, <2>11
<1>10. /\ P!Count("monthly") \in Nat \ {0} /\ P!Count("monthly") - 1 = 11
       /\ P!MonthStart(m - 11) \in Int /\ P!MonthStart(m + 1) \in Int
  <2>1. m - 11 \in Nat /\ m + 1 \in Nat
    BY <1>1
  <2>2. P!MonthStart(m - 11) \in Nat /\ P!MonthStart(m + 1) \in Nat
    BY <2>1, MonthLength
  <2>3. QED
    BY <1>2, <2>2
<1>11. P!DateTrunc("monthly", now) = P!MonthStart(m) * TicksPerDay
  BY DEF P!DateTrunc, m
<1>12. m - 0 = m /\ 0 \in 0..11
  BY <1>1
<1>13. S[0] = P!MonthStart(m)
  BY <1>12
<1> HIDE DEF S
<1>14. Cut("monthly")
  <2>1. CutAt("monthly", P!MonthStart(m - 11), P!MonthStart(m + 1), S)
    BY <1>3, <1>5, <1>6, <1>7, <1>8, <1>9, <1>10, <1>11, <1>13 DEF CutAt
  <2>2. QED
    BY <1>10, <2>1, Buckets
<1>15. P!BucketStart("monthly", 0) = P!MonthStart(m) * TicksPerDay
  BY <1>6, <1>12
<1>16. QED
  BY <1>14, <1>15 DEF m

LEMMA Reported ==
    ASSUME P!TypeOK
    PROVE  P!EveryRowInOneBucket /\ P!DashboardAgrees
<1>1. \A period \in P!Periods : Cut(period)
  BY DailyCut, WeeklyCut, MonthlyCut DEF P!Periods
<1>2. P!EveryRowInOneBucket
  BY <1>1 DEF Cut, P!EveryRowInOneBucket
<1> DEFINE d == P!DayOf(now)
           m == P!MonthOf(now)
<1>3. now \in Int /\ d \in Nat /\ d >= 365 /\ m \in Nat /\ InMonth(d, m)
  BY Today
<1>4. P!Today = d * TicksPerDay
  BY <1>3, Moment DEF P!Today
<1>5. P!ThisMonthStart = P!MonthStart(m) * TicksPerDay
  <2> DEFINE s == P!MonthStart(m)
             y == P!SetUTCDate(now, 1)
  <2>1. s \in Nat
    BY <1>3, MonthLength
  <2>2. y = (s + 1 - 1) * TicksPerDay + (now % TicksPerDay)
    BY DEF P!SetUTCDate
  <2>3. now % TicksPerDay \in 0..(TicksPerDay - 1) /\ s + 1 - 1 = s
    BY <1>3, <2>1, Moment
  <2>4. y = s * TicksPerDay + (now % TicksPerDay)
    BY <2>2, <2>3
  <2>5. y \in Int /\ P!DayOf(y) = s
    <3>1. s * TicksPerDay \in Int
      BY <2>1, ConstantsOK
    <3> HIDE DEF s, y
    <3>2. y \in Int
      BY <2>3, <2>4, <3>1, ConstantsOK
    <3>3. P!DayOf(y) = s
      BY <2>1, <2>3, <2>4, DayTicks DEF P!DayOf
    <3>4. QED
      BY <3>2, <3>3
  <2>6. QED
    BY <2>5, Moment DEF P!ThisMonthStart
<1>6. ASSUME NEW t \in (now - 40 * TicksPerDay)..now
      PROVE  /\ P!CountsToday(t) <=> P!DateTrunc("daily", t) = P!BucketStart("daily", 0)
             /\ P!CountsThisMonth(t) <=> P!DateTrunc("monthly", t) = P!BucketStart("monthly", 0)
  <2> DEFINE x == P!DayOf(t)
             k == P!MonthOf(t)
  <2>1. /\ t \in Int /\ TicksPerDay \in Nat \ {0}
        /\ now >= d * TicksPerDay /\ t <= now /\ t >= now - 40 * TicksPerDay
    BY <1>3, ConstantsOK, DaysInOrder
  <2>2. x \in Nat /\ x <= d
    <3>1. x \in Int
      BY <2>1, Moment
    <3>2. t >= (d - 40) * TicksPerDay
      <4> HIDE DEF d
      <4>1. (d - 40) * TicksPerDay = d * TicksPerDay - 40 * TicksPerDay
            /\ d * TicksPerDay \in Int /\ 40 * TicksPerDay \in Int
        BY <1>3, <2>1
      <4>2. QED
        BY <1>3, <2>1, <4>1
    <3>3. x >= d - 40
      <4>1. d - 40 \in Int
        BY <1>3
      <4>2. QED
        BY <2>1, <3>2, <4>1, DaysInOrder
    <3>4. now >= x * TicksPerDay
      <4>1. t >= x * TicksPerDay /\ x * TicksPerDay \in Int
        BY <2>1, <3>1, DaysInOrder, ConstantsOK
      <4> HIDE DEF x
      <4>2. QED
        BY <1>3, <2>1, <4>1
    <3>5. d >= x
      BY <1>3, <3>1, <3>4, DaysInOrder
    <3> HIDE DEF d, x
    <3>6. QED
      BY <1>3, <3>1, <3>3, <3>5
  <2>3. P!CountsToday(t) <=> x >= d
    BY <1>3, <1>4, <2>1, DaysInOrder DEF P!CountsToday
  <2>4. P!DateTrunc("daily", t) = x * TicksPerDay
    BY <2>1, Moment DEF P!DateTrunc
  <2>5. x * TicksPerDay = d * TicksPerDay <=> x = d
    BY <1>3, <2>1, <2>2, TimesMonotone
  <2>6. P!CountsToday(t) <=> P!DateTrunc("daily", t) = P!BucketStart("daily", 0)
    <3>1. x >= d <=> x = d
      BY <1>3, <2>2
    <3>2. QED
      BY <2>3, <2>4, <2>5, <3>1, DailyCut
  <2>7. k \in Nat /\ InMonth(x, k)
    BY <2>1, <2>2, MonthOfDay
  <2>8. P!MonthStart(m) \in Nat /\ P!MonthStart(k) \in Nat
        /\ P!MonthStart(m + 1) \in Nat
    BY <1>3, <2>7, MonthLength
  <2>9. P!CountsThisMonth(t) <=> x >= P!MonthStart(m)
    BY <1>5, <2>1, <2>8, DaysInOrder DEF P!CountsThisMonth
  <2>10. x >= P!MonthStart(m) <=> k = m
    <3>1. x >= P!MonthStart(m) => InMonth(x, m)
      BY <1>3, <2>2, <2>8 DEF InMonth
    <3>2. InMonth(x, m) => k = m
      BY <1>3, <2>2, <2>7, MonthUnique
    <3>3. k = m => x >= P!MonthStart(m)
      BY <2>2, <2>7, <2>8 DEF InMonth
    <3>4. QED
      BY <3>1, <3>2, <3>3
  <2>11. P!DateTrunc("monthly", t) = P!MonthStart(k) * TicksPerDay
    BY DEF P!DateTrunc
  <2>12. P!MonthStart(k) * TicksPerDay = P!MonthStart(m) * TicksPerDay <=> k = m
    <3>1. P!MonthStart(k) * TicksPerDay = P!MonthStart(m) * TicksPerDay
            => P!MonthStart(k) = P!MonthStart(m)
      BY <2>1, <2>8, TimesMonotone
    <3>2. P!MonthStart(k) = P!MonthStart(m) => k = m
      BY <1>3, <2>7, FirstOfMonth
    <3>3. QED
      BY <3>1, <3>2
  <2>13. P!CountsThisMonth(t) <=> P!DateTrunc("monthly", t) = P!BucketStart("monthly", 0)
    BY <2>9, <2>10, <2>11, <2>12, MonthlyCut
  <2>14. QED
    BY <2>6, <2>13
<1>7. P!DashboardAgrees
  BY <1>6 DEF P!DashboardAgrees
<1>8. QED
  BY <1>2, <1>7

\* The clock starts in its range, and a tick ends in it.
LEMMA ClockInit == P!Init => P!TypeOK
<1> SUFFICES ASSUME P!Init PROVE P!TypeOK
  OBVIOUS
<1> DEFINE a == From * TicksPerDay
           b == To * TicksPerDay
<1>1. a \in Nat /\ b \in Nat
  BY ConstantsOK
<1>2. (To - From) * TicksPerDay \in Nat /\ (To - From) * TicksPerDay = b - a
  BY ConstantsOK
<1>3. now = a /\ (P!TypeOK <=> now \in a..b)
  BY DEF P!Init, P!TypeOK
<1> HIDE DEF a, b
<1>4. QED
  BY <1>1, <1>2, <1>3

LEMMA ClockStep == P!TypeOK /\ [P!Tick]_now => P!TypeOK'
<1> SUFFICES ASSUME P!TypeOK, [P!Tick]_now PROVE P!TypeOK'
  OBVIOUS
<1> DEFINE a == From * TicksPerDay
           b == To * TicksPerDay
<1>1. a \in Nat /\ b \in Nat
  BY ConstantsOK
<1>2. now \in a..b /\ (P!TypeOK' <=> now' \in a..b)
  BY DEF P!TypeOK
<1>3. (now < b /\ now' = now + 1) \/ now' = now
  BY DEF P!Tick
<1> HIDE DEF a, b
<1>4. QED
  BY <1>1, <1>2, <1>3

-----------------------------------------------------------------------------
(* The services together                                                   *)

\* The invariant of each service; they have no variable in common.
SvcInv ==
    AccountInv /\ SessionInv /\ AdminInv /\ ReviewInv /\ CouponInv /\ P!TypeOK /\ DiscountInv

LEMMA SvcStep ==
    SvcInv /\ [ServicesNext]_<<service, rowVars, otherVars>> => SvcInv'
BY EachSteps, AccountStep, SessionStep, AdminStep, ReviewStep, CouponStep, ClockStep,
   DiscountStep
   DEF SvcInv

\* The invariants of all the services hold in every reachable state.
THEOREM SvcInvHolds == ServicesSpec => []SvcInv
<1>1. ServicesInit => SvcInv
  BY AccountInit, SessionInit, AdminInit, ReviewInit, CouponInit, ClockInit,
     DiscountInit
     DEF ServicesInit, SvcInv
<1>2. QED
  BY <1>1, SvcStep, PTL DEF ServicesSpec

\* A behaviour of the services is one of Accounts, Sessions, Admin, Reviews,
\* Coupon, Reports and Discounts: what is shown of them together is shown of each.
THEOREM ServicesImplementEach ==
    ServicesSpec => /\ A!Init /\ [][A!Next]_accountVars
                    /\ Spec
                    /\ D!Init /\ [][D!Next]_adminVars
                    /\ V!Init /\ [][V!Next]_reviewVars
                    /\ U!Init /\ [][U!Next]_couponVars
                    /\ P!Init /\ [][P!Tick]_now
                    /\ C!Init /\ [][C!Next]_discountVars
<1>1. ServicesInit =>
        A!Init /\ Init /\ D!Init /\ V!Init /\ U!Init /\ P!Init /\ C!Init
  BY DEF ServicesInit
<1>2. QED
  BY <1>1, EachSteps, PTL DEF ServicesSpec, Spec

\* Every reachable state is well typed: at most one user has the address, a
\* booking has one review, the reader asks for no page beyond the last, and the
\* counter of a coupon never exceeds the number of bookings.
THEOREM ServicesTypeCorrect == ServicesSpec => []TypesOK
<1>1. SvcInv => TypesOK
  BY AccountTypes, SessionTypes, ReviewTypes, CouponTypes, DiscountTypes
     DEF SvcInv, AdminInv, CouponInv, TypesOK
<1>2. QED
  BY <1>1, SvcInvHolds, PTL

\* The audit log tells the present role and status of every user on whom no two
\* calls met and no call stopped between its update and its entry
\* (verifyUser, makeAdmin and demoteAdmin).
THEOREM AuditTellsHolds == ServicesSpec => []AuditTells
<1>1. SvcInv => AuditTells
  BY DEF SvcInv, AdminInv, AuditTells
<1>2. QED
  BY <1>1, SvcInvHolds, PTL

\* A client of getTurfReviews that reads page after page until one is short
\* misses no review that was there when it began, for any page size.
THEOREM WalkCompleteHolds == ServicesSpec => []WalkComplete
<1>1. SvcInv => WalkComplete
  BY ReviewTypes DEF SvcInv, WalkComplete
<1>2. QED
  BY <1>1, SvcInvHolds, PTL

\* usedCount is exact in every reachable state: applyCoupon inserts the usage
\* row and increments the counter in one transaction under the coupon's row lock.
THEOREM CountMatchesHolds == ServicesSpec => []CountMatches
<1>1. SvcInv => CountMatches
  BY DEF SvcInv, CouponInv, CountMatches
<1>2. QED
  BY <1>1, SvcInvHolds, PTL

\* A used coupon is never deleted: the foreign key stops a delete that counted
\* no usages before the first one was inserted.
THEOREM UsedCouponStaysHolds == ServicesSpec => []UsedCouponStays
<1>1. SvcInv => UsedCouponStays
  BY DEF SvcInv, CouponInv, UsedCouponStays
<1>2. QED
  BY <1>1, SvcInvHolds, PTL

\* Every use that applyCoupon counts is within both limits, however many creates
\* were validated before it.
THEOREM WithinLimitsHolds == ServicesSpec => WithinLimits
<1>1. SvcInv /\ [ServicesNext]_<<service, rowVars, otherVars>> => [Within]_couponVars
  BY EachSteps, StepWithin DEF SvcInv
<1>2. WithinLimits <=> [][Within]_couponVars
  BY DEF WithinLimits, U!WithinLimits, Within, U!vars, couponVars
<1>3. QED
  BY <1>1, <1>2, SvcInvHolds, PTL DEF ServicesSpec

\* What the customer is charged and the discount on record make up the price to
\* a cent, for every price, coupon and cap; only a percentage above a hundred has
\* a discount beyond the price, and then nothing is charged (validateAndCalculate,
\* createBooking).
THEOREM ChargeAndDiscountAddUpHolds == ServicesSpec => []ChargeAndDiscountAddUp
<1>1. SvcInv => ChargeAndDiscountAddUp
  BY DiscountsAdd DEF SvcInv, ChargeAndDiscountAddUp
<1>2. QED
  BY <1>1, SvcInvHolds, PTL

\* Whatever the moment, every row of the range that a report queries is counted
\* under the label of exactly one of its buckets, none lies outside, and the
\* newest is the present day, week or month (getRevenueAnalytics): in every week,
\* month and year from the second of the calendar on.
THEOREM EveryRowInOneBucketHolds == ServicesSpec => []EveryRowInOneBucket
<1>1. SvcInv => EveryRowInOneBucket
  BY Reported DEF SvcInv, EveryRowInOneBucket
<1>2. QED
  BY <1>1, SvcInvHolds, PTL

\* The dashboard's figures of today and of this month count the same rows as the
\* newest bucket of the daily and of the monthly report
\* (getDashboardOverview and getRevenueAnalytics).
THEOREM DashboardAgreesHolds == ServicesSpec => []DashboardAgrees
<1>1. SvcInv => DashboardAgrees
  BY Reported DEF SvcInv, DashboardAgrees
<1>2. QED
  BY <1>1, SvcInvHolds, PTL

\* demoteAdmin demotes the last administrator only for a caller who has been
\* demoted since the guard let the call in: overlapping calls are needed.
THEOREM LastAdminGoesInARaceHolds == ServicesSpec => LastAdminGoesInARace
<1> DEFINE Race ==
             D!Admins # {} /\ D!Admins' = {} =>
               \E r \in Requests : D!DemoteAdmin(r) /\ role[adminCall[r].admin] = "USER"
<1>1. SvcInv /\ [ServicesNext]_<<service, rowVars, otherVars>> => [Race]_adminVars
  BY EachSteps, AdminRace DEF SvcInv
<1>2. LastAdminGoesInARace <=> [][Race]_adminVars
  BY DEF LastAdminGoesInARace, D!LastAdminGoesInARace, D!vars, adminVars
<1>3. QED
  BY <1>1, <1>2, SvcInvHolds, PTL DEF ServicesSpec

\* A createReview that met no other call leaves the turf with the average over
\* all its reviews, whatever calls that met or stopped had left there.
THEOREM NextReviewRepairsHolds == ServicesSpec => NextReviewRepairs
<1> DEFINE Repairs ==
             \A r \in Requests :
               V!RatingWrite(r) /\ reviewCall[r].alone => rated' = V!ToSet(reviews)
<1>1. SvcInv => Repairs
  BY WriteKeeps DEF SvcInv
<1>2. NextReviewRepairs <=> [][Repairs]_reviewVars
  BY DEF NextReviewRepairs, V!NextReviewRepairs, V!vars, reviewVars
<1>3. QED
  BY <1>1, <1>2, SvcInvHolds, PTL DEF ServicesSpec
=============================================================================
