---------------------------- MODULE SessionsProofs ----------------------------
(***************************************************************************)
(* Theorems about Sessions: whatever refreshes, logins and logouts         *)
(* interleave, a session has one holder, and one that a logout has closed  *)
(* stays so.                                                               *)
(*                                                                         *)
(* The invariant says that a call which has deleted its token is the only  *)
(* holder of its session: the token is gone from the table, no other call  *)
(* continues the same session, and no stored token belongs to it.          *)
(***************************************************************************)
EXTENDS Sessions, TLAPS

\* The types of what the service keeps: all but the history.
TablesOK ==
    /\ stored \in SUBSET issued /\ issued \in SUBSET Tokens /\ expired \in SUBSET issued
    /\ first \in [Tokens -> Tokens]
    /\ call \in [Requests -> Calls]

\* A login has no token in hand, a refresh has one that was issued.
OneToken ==
    \A r \in Requests :
      \/ call[r].token = {} /\ call[r].at \in {"idle", "issue"}
      \/ /\ call[r].at # "idle"
         /\ \E t \in issued : call[r].token = {t}

\* Tokens that were not issued have no session but their own, which is empty.
FirstIssued ==
    /\ \A t \in Tokens \ issued : first[t] = t
    /\ \A t \in issued : first[t] \in issued

OneStored == \A t, u \in stored : first[t] = first[u] => t = u
OneCall ==
    \A q, r \in Requests, s \in Tokens : Continues(q, s) /\ Continues(r, s) => q = r
StoredOrCall ==
    \A t \in stored, r \in Requests : ~Continues(r, first[t])

\* Session s goes on; and no session goes on that did not before.
Held(s) == (\E t \in stored : first[t] = s) \/ (\E r \in Requests : Continues(r, s))
NoneReturns == \A s \in issued : Held(s)' => Held(s)

\* The invariant of the tables.
SInv == TablesOK /\ OneToken /\ FirstIssued /\ OneStored /\ OneCall /\ StoredOrCall

\* The history: a session that was closed was there, and is not held.
EndsOK ==
    /\ closed \in SUBSET issued
    /\ \A s \in closed : ~Held(s)

\* The inductive invariant.
SessionInv == SInv /\ EndsOK

-----------------------------------------------------------------------------
\* A step that stores nothing and lets no further call continue a session keeps
\* the part of the invariant that is about sessions.
LEMMA Frame ==
    ASSUME SInv, issued' = issued, first' = first, stored' \subseteq stored,
           \A r \in Requests, s \in Tokens : Continues(r, s)' => Continues(r, s)
    PROVE FirstIssued' /\ OneStored' /\ OneCall' /\ StoredOrCall' /\ NoneReturns
<1>1. FirstIssued' /\ OneStored'
  BY DEF SInv, FirstIssued, OneStored
<1>2. OneCall'
  BY DEF SInv, OneCall
<1>3. StoredOrCall'
  <2> SUFFICES ASSUME NEW t \in stored', NEW r \in Requests PROVE ~Continues(r, first[t])'
    BY DEF StoredOrCall
  <2>1. t \in stored /\ first'[t] = first[t] /\ first[t] \in Tokens
    BY DEF SInv, TablesOK
  <2>2. ~Continues(r, first[t])
    BY <2>1 DEF SInv, StoredOrCall
  <2>3. Continues(r, first[t])' => Continues(r, first[t])
    BY <2>1 DEF Continues
  <2>4. QED
    BY <2>2, <2>3
<1>4. NoneReturns
  BY DEF NoneReturns, Held, SInv, TablesOK
<1>5. QED
  BY <1>1, <1>2, <1>3, <1>4

\* The call r moves on to a state that is typed and continues nothing new.
LEMMA CallMoves ==
    ASSUME SInv, NEW r \in Requests, NEW c \in Calls,
           call' = [call EXCEPT ![r] = c],
           issued' = issued, first' = first,
           stored' \subseteq stored, expired' = expired,
           c.at # "issue" \/ c.token = {},
           \/ c.token = {} /\ c.at \in {"idle", "issue"}
           \/ c.at # "idle" /\ \E t \in issued : c.token = {t}
    PROVE SInv' /\ NoneReturns
<1>1. TablesOK'
  BY DEF SInv, TablesOK
<1>2. OneToken'
  BY DEF SInv, TablesOK, OneToken
<1>3. \A q \in Requests, s \in Tokens : Continues(q, s)' => Continues(q, s)
  BY DEF SInv, TablesOK, Continues, At
<1>4. FirstIssued' /\ OneStored' /\ OneCall' /\ StoredOrCall' /\ NoneReturns
  BY <1>3, Frame DEF SInv
<1>5. QED
  BY <1>1, <1>2, <1>4 DEF SInv

\* Rows are deleted, or time passes, and no call moves.
LEMMA RowsGo ==
    ASSUME SInv, call' = call, issued' = issued, first' = first,
           stored' \subseteq stored, expired' \subseteq issued
    PROVE SInv' /\ NoneReturns
<1>1. TablesOK' /\ OneToken'
  BY DEF SInv, TablesOK, OneToken
<1>2. \A q \in Requests, s \in Tokens : Continues(q, s)' => Continues(q, s)
  BY DEF Continues, At
<1>3. FirstIssued' /\ OneStored' /\ OneCall' /\ StoredOrCall' /\ NoneReturns
  BY <1>2, Frame
<1>4. QED
  BY <1>1, <1>3 DEF SInv

\* Whatever a call has in hand, it can stop or go on looking.
LEMMA CallGoes ==
    ASSUME SInv, NEW r \in Requests, ~At(r, "idle"), NEW step \in Steps \ {"idle", "issue"},
           issued' = issued, first' = first, stored' \subseteq stored, expired' = expired,
           Done(r) \/ (~At(r, "issue") /\ Goto(r, step))
    PROVE SInv' /\ NoneReturns
<1>1. CASE Done(r)
  BY <1>1, CallMoves DEF Done, Idle, Calls, Steps
<1>2. CASE ~At(r, "issue") /\ Goto(r, step)
  <2> DEFINE c == [at |-> step, token |-> call[r].token]
  <2>1. c \in Calls
    BY DEF SInv, TablesOK, Calls
  <2>a. call' = [call EXCEPT ![r] = c]
    <3>1. call[r] \in Calls
      BY DEF SInv, TablesOK
    <3>2. [call[r] EXCEPT !.at = step] = c
      BY <3>1 DEF Calls
    <3>3. QED
      BY <1>2, <3>2 DEF Goto
  <2>2. c.at # "idle" /\ c.at # "issue" /\ \E t \in issued : c.token = {t}
    BY <1>2 DEF SInv, OneToken, At
  <2>3. QED
    BY <2>1, <2>a, <2>2, CallMoves
<1>3. QED
  BY <1>1, <1>2

\* The winner of a token takes over its session: the row goes, the call stays.
LEMMA DeleteKeeps ==
    ASSUME SInv, NEW r \in Requests, RefreshDelete(r)
    PROVE SInv' /\ NoneReturns
<1>1. CASE call[r].token \cap stored = {}
  BY <1>1, CallGoes DEF RefreshDelete, At, Steps
<1>2. CASE call[r].token \cap stored # {}
  <2>1. PICK o \in stored : call[r].token = {o}
    BY <1>2 DEF RefreshDelete, At, SInv, OneToken
  <2>2. /\ stored' = stored \ {o} /\ issued' = issued /\ first' = first /\ expired' = expired
        /\ call' = [call EXCEPT ![r].at = "issue"]
    BY <1>2, <2>1 DEF RefreshDelete, Goto
  <2>3. TablesOK'
    BY <2>2 DEF SInv, TablesOK, Calls, Steps
  <2>4. OneToken'
    BY <2>1, <2>2 DEF SInv, TablesOK, OneToken, Calls
  <2>5. FirstIssued' /\ OneStored'
    BY <2>2 DEF SInv, FirstIssued, OneStored
  <2>6. \A q \in Requests, s \in Tokens :
          Continues(q, s)' <=> Continues(q, s) \/ (q = r /\ s = first[o])
    BY <2>1, <2>2 DEF SInv, TablesOK, Continues, At, RefreshDelete, Calls
  <2>7. \A q \in Requests : ~Continues(q, first[o])
    BY DEF SInv, StoredOrCall
  <2>8. OneCall'
    BY <2>6, <2>7 DEF SInv, OneCall
  <2>9. StoredOrCall'
    <3> SUFFICES ASSUME NEW t \in stored', NEW q \in Requests PROVE ~Continues(q, first[t])'
      BY DEF StoredOrCall
    <3>1. t \in stored /\ first[t] # first[o] /\ first[t] \in Tokens
      BY <2>2 DEF SInv, OneStored, TablesOK
    <3>2. ~Continues(q, first[t])
      BY <3>1 DEF SInv, StoredOrCall
    <3>3. Continues(q, first[t])' => Continues(q, first[t])
      BY <2>1, <2>2, <3>1 DEF SInv, TablesOK, Continues, At, Calls
    <3>4. QED
      BY <3>2, <3>3
  <2>10. NoneReturns
    BY <2>1, <2>2, <2>6 DEF NoneReturns, Held, SInv, TablesOK
  <2>11. QED
    BY <2>3, <2>4, <2>5, <2>8, <2>9, <2>10 DEF SInv
<1>3. QED
  BY <1>1, <1>2

\* What Issue does, with the token and the session named.
LEMMA IssueStores ==
    ASSUME SInv, NEW r \in Requests, Issue(r)
    PROVE \E t \in Tokens \ issued, s \in Tokens :
            /\ stored' = stored \cup {t} /\ issued' = issued \cup {t} /\ expired' = expired
            /\ first' = [first EXCEPT ![t] = s]
            /\ call' = [call EXCEPT ![r] = Idle]
            /\ \/ s = t
               \/ s \in issued /\ Continues(r, s)
<1> DEFINE t == CHOOSE t \in Tokens : t \notin issued
           s == IF call[r].token = {} THEN t ELSE first[CHOOSE o \in call[r].token : TRUE]
<1>1. t \in Tokens \ issued
  BY DEF Issue, SInv, TablesOK
<1>2. /\ stored' = stored \cup {t} /\ issued' = issued \cup {t} /\ expired' = expired
      /\ first' = [first EXCEPT ![t] = s]
      /\ call' = [call EXCEPT ![r] = Idle]
  BY DEF Issue, Done
<1>3. s = t \/ (s \in issued /\ Continues(r, s))
  <2>1. CASE call[r].token = {}
    BY <2>1
  <2>2. CASE call[r].token # {}
    <3>1. PICK o \in issued : call[r].token = {o}
      BY <2>2 DEF SInv, OneToken
    <3>2. s = first[o]
      BY <2>2, <3>1
    <3>3. QED
      BY <3>1, <3>2 DEF SInv, FirstIssued, Continues, Issue
  <2>3. QED
    BY <2>1, <2>2
<1>4. s \in Tokens
  BY <1>1, <1>3 DEF SInv, TablesOK
<1> QED
  BY <1>1, <1>2, <1>3, <1>4

\* The call that continues a session hands it over to the row it stores.
LEMMA IssueKeeps ==
    ASSUME SInv, NEW r \in Requests, Issue(r)
    PROVE SInv' /\ NoneReturns
<1>1. PICK t \in Tokens \ issued, s \in Tokens :
        /\ stored' = stored \cup {t} /\ issued' = issued \cup {t} /\ expired' = expired
        /\ first' = [first EXCEPT ![t] = s]
        /\ call' = [call EXCEPT ![r] = Idle]
        /\ \/ s = t
           \/ s \in issued /\ Continues(r, s)
  BY IssueStores
<1>2. TablesOK'
  BY <1>1 DEF SInv, TablesOK, Idle, Calls, Steps
<1>3. OneToken'
  BY <1>1 DEF SInv, TablesOK, OneToken, Idle
<1>4. FirstIssued'
  BY <1>1 DEF SInv, TablesOK, FirstIssued
<1>5. \A u \in issued : first'[u] = first[u] /\ first[u] \in issued
  BY <1>1 DEF SInv, TablesOK, FirstIssued
<1>6. first'[t] = s
  BY <1>1 DEF SInv, TablesOK
<1>7. \A u \in stored : first[u] # s
  BY <1>1, <1>5 DEF SInv, TablesOK, StoredOrCall
<1>8. OneStored'
  BY <1>1, <1>5, <1>6, <1>7 DEF SInv, TablesOK, OneStored
<1>9. \A q \in Requests : ~At(q, "issue")' \/ (q # r /\ call'[q] = call[q])
  BY <1>1 DEF SInv, TablesOK, At, Idle
<1>10. \A q \in Requests, x \in Tokens : Continues(q, x)' => q # r /\ Continues(q, x)
  <2> SUFFICES ASSUME NEW q \in Requests, NEW x \in Tokens, Continues(q, x)'
               PROVE q # r /\ Continues(q, x)
    OBVIOUS
  <2>1. q # r /\ call'[q] = call[q] /\ At(q, "issue")
    BY <1>9 DEF Continues, At
  <2>2. \A u \in call[q].token : u \in issued
    BY <2>1 DEF SInv, OneToken
  <2>3. QED
    BY <2>1, <2>2, <1>5 DEF Continues
<1>11. OneCall'
  BY <1>10 DEF SInv, OneCall
<1>12. StoredOrCall'
  <2> SUFFICES ASSUME NEW u \in stored', NEW q \in Requests, Continues(q, first[u])'
               PROVE FALSE
    BY DEF StoredOrCall
  <2>1. q # r /\ Continues(q, first'[u])
    <3>1. first'[u] \in Tokens
      BY <1>2 DEF TablesOK
    <3>2. PICK x \in Tokens : x = first'[u]
      BY <3>1
    <3>3. Continues(q, x)'
      BY <3>2 DEF Continues
    <3>4. QED
      BY <3>2, <3>3, <1>10
  <2>2. CASE u \in stored
    BY <2>1, <2>2, <1>5 DEF SInv, TablesOK, StoredOrCall
  <2>3. CASE u = t
    <3>1. Continues(q, s)
      BY <2>1, <2>3, <1>6
    <3>2. s \in issued
      BY <3>1, <1>5 DEF SInv, OneToken, Continues, At
    <3>3. Continues(r, s)
      BY <1>1, <3>2
    <3>4. QED
      BY <2>1, <3>1, <3>3 DEF SInv, OneCall
  <2>4. QED
    BY <1>1, <2>2, <2>3
<1>13. NoneReturns
  <2> SUFFICES ASSUME NEW x \in issued, Held(x)' PROVE Held(x)
    BY DEF NoneReturns
  <2>1. CASE \E u \in stored' : first'[u] = x
    BY <2>1, <1>1, <1>5, <1>6 DEF Held
  <2>2. CASE \E q \in Requests : Continues(q, x)'
    BY <2>2, <1>10 DEF Held, SInv, TablesOK
  <2>3. QED
    BY <2>1, <2>2 DEF Held
<1>14. QED
  BY <1>2, <1>3, <1>4, <1>8, <1>11, <1>12, <1>13 DEF SInv

-----------------------------------------------------------------------------
\* Every step keeps the invariant and brings no ended session back.
LEMMA StepKeeps == SInv /\ [Next]_vars => SInv' /\ NoneReturns
<1> SUFFICES ASSUME SInv, [Next]_vars PROVE SInv' /\ NoneReturns
  OBVIOUS
<1>1. ASSUME NEW r \in Requests, SignIn(r) PROVE SInv' /\ NoneReturns
  <2> DEFINE c == [at |-> "issue", token |-> {}]
  <2>1. c \in Calls
    BY DEF Calls, Steps
  <2>2. QED
    BY <1>1, <2>1, CallMoves DEF SignIn, Begin
<1>2. ASSUME NEW r \in Requests, Issue(r) PROVE SInv' /\ NoneReturns
  BY <1>2, IssueKeeps
<1>3. ASSUME NEW r \in Requests, NEW t \in Tokens, RefreshPresent(r, t)
      PROVE SInv' /\ NoneReturns
  <2> DEFINE c == [at |-> "validate", token |-> {t}]
  <2>1. c \in Calls /\ t \in issued
    BY <1>3 DEF Calls, Steps, RefreshPresent
  <2>2. QED
    BY <1>3, <2>1, CallMoves DEF RefreshPresent, Begin
<1>4. ASSUME NEW r \in Requests, RefreshValidate(r) PROVE SInv' /\ NoneReturns
  <2>1. \E step \in Steps \ {"idle", "issue"} : Goto(r, step)
    BY <1>4 DEF RefreshValidate, Steps
  <2>2. QED
    BY <1>4, <2>1, CallGoes DEF RefreshValidate, At
<1>5. ASSUME NEW r \in Requests, RefreshRevoke(r) \/ RefreshDrop(r) \/ Stops(r)
      PROVE SInv' /\ NoneReturns
  BY <1>5, CallGoes DEF RefreshRevoke, RefreshDrop, Stops, At, Steps
<1>6. ASSUME NEW r \in Requests, RefreshFind(r) PROVE SInv' /\ NoneReturns
  BY <1>6, CallGoes DEF RefreshFind, At, Steps
<1>7. ASSUME NEW r \in Requests, RefreshDelete(r) PROVE SInv' /\ NoneReturns
  BY <1>7, DeleteKeeps
<1>8. ASSUME NEW T, DeleteTokens(T) PROVE SInv' /\ NoneReturns
  BY <1>8, RowsGo DEF DeleteTokens, SInv, TablesOK
<1>9. ASSUME NEW t \in Tokens, Expires(t) PROVE SInv' /\ NoneReturns
  BY <1>9, RowsGo DEF Expires, SInv, TablesOK
<1>10. CASE UNCHANGED vars
  BY <1>10, RowsGo DEF vars, SInv, TablesOK
<1>11. QED
  BY <1>1, <1>2, <1>3, <1>4, <1>5, <1>6, <1>7, <1>8, <1>9, <1>10
     DEF Next, Logout, LogoutAll, CleanupExpiredTokens

-----------------------------------------------------------------------------
\* The history does not change, and no session returns.
LEMMA EndsKept ==
    ASSUME SessionInv, NoneReturns, closed' = closed, issued \subseteq issued'
    PROVE EndsOK'
<1>1. \A s \in closed : s \in issued /\ ~Held(s)
  BY DEF SessionInv, EndsOK
<1>2. \A s \in issued : Held(s)' => Held(s)
  BY DEF NoneReturns
<1>3. \A s \in closed' : ~Held(s)'
  BY <1>1, <1>2
<1>4. QED
  BY <1>1, <1>3 DEF EndsOK

\* A logout has answered for sessions of which no token is stored any more.
LEMMA EndsAnswered ==
    ASSUME SessionInv, NoneReturns, issued' = issued, first' = first,
           NEW S \in SUBSET issued, Answered(S),
           \A s \in S : \A t \in stored' : first[t] # s,
           \A q \in Requests, s \in Tokens : Continues(q, s)' => Continues(q, s)
    PROVE EndsOK'
<1>1. closed' = closed \cup {s \in S : \A r \in Requests : ~Continues(r, s)}
  BY DEF Answered
<1>2. closed' \in SUBSET issued'
  BY <1>1 DEF SessionInv, EndsOK
<1>3. ASSUME NEW s \in closed' PROVE ~Held(s)'
  <2>1. s \in Tokens
    BY <1>2 DEF SessionInv, SInv, TablesOK
  <2>2. CASE s \in closed
    <3>1. s \in issued /\ ~Held(s)
      BY <2>2 DEF SessionInv, EndsOK
    <3>2. QED
      BY <3>1 DEF NoneReturns
  <2>3. CASE s \in S /\ \A r \in Requests : ~Continues(r, s)
    <3>1. \A r \in Requests : ~Continues(r, s)'
      BY <2>1, <2>3
    <3>2. ~\E t \in stored' : first'[t] = s
      BY <2>3
    <3>3. QED
      BY <3>1, <3>2 DEF Held
  <2>4. QED
    BY <1>1, <2>2, <2>3
<1>4. QED
  BY <1>2, <1>3 DEF EndsOK

\* Every step keeps the invariant, and the history with it.
LEMMA SessionStep == SessionInv /\ [Next]_vars => SessionInv'
<1> SUFFICES ASSUME SessionInv, [Next]_vars PROVE SessionInv'
  OBVIOUS
<1>1. SInv /\ SInv' /\ NoneReturns
  BY StepKeeps DEF SessionInv
<1>2. Sessions(issued) \in SUBSET issued
  BY <1>1 DEF Sessions, SInv, FirstIssued
<1>3. ASSUME NEW r \in Requests, Issue(r) PROVE EndsOK'
  <2>1. closed' = closed /\ issued \subseteq issued'
    BY <1>3 DEF Issue
  <2>2. QED
    BY <1>1, <2>1, EndsKept
<1>4. ASSUME NEW r \in Requests,
             \/ SignIn(r) \/ RefreshValidate(r) \/ RefreshDrop(r) \/ RefreshFind(r)
             \/ RefreshDelete(r) \/ Stops(r)
             \/ \E t \in Tokens : RefreshPresent(r, t)
      PROVE EndsOK'
  <2>1. closed' = closed /\ issued' = issued
    BY <1>4 DEF SignIn, RefreshValidate, RefreshDrop, RefreshFind, RefreshDelete, Stops,
                RefreshPresent
  <2>2. QED
    BY <1>1, <2>1, EndsKept
<1>5. ASSUME NEW r \in Requests, RefreshRevoke(r) PROVE EndsOK'
  <2>1. /\ issued' = issued /\ first' = first /\ stored' = {} /\ Answered(Sessions(issued))
        /\ call' = [call EXCEPT ![r] = Idle]
    BY <1>5 DEF RefreshRevoke, Done
  <2>2. \A q \in Requests, s \in Tokens : Continues(q, s)' => Continues(q, s)
    BY <1>1, <2>1 DEF Continues, At, Idle, SInv, TablesOK
  <2>3. QED
    BY <1>1, <1>2, <2>1, <2>2, EndsAnswered
<1>6. ASSUME NEW t \in Tokens, Logout(t) PROVE EndsOK'
  <2> DEFINE S == {first[t]} \ Sessions(stored \ {t})
  <2>1. /\ issued' = issued /\ first' = first /\ stored' = stored \ {t} /\ Answered(S)
        /\ call' = call /\ t \in issued
    BY <1>6 DEF Logout, DeleteTokens
  <2>2. S \in SUBSET issued
    BY <1>1, <2>1 DEF SInv, FirstIssued
  <2>3. \A s \in S : \A u \in stored' : first[u] # s
    BY <2>1 DEF Sessions
  <2>4. \A q \in Requests, s \in Tokens : Continues(q, s)' => Continues(q, s)
    BY <2>1 DEF Continues, At
  <2> HIDE DEF S
  <2>5. QED
    BY <1>1, <2>1, <2>2, <2>3, <2>4, EndsAnswered
<1>7. ASSUME LogoutAll PROVE EndsOK'
  <2>1. /\ issued' = issued /\ first' = first /\ stored' = {} /\ Answered(Sessions(issued))
        /\ call' = call
    BY <1>7 DEF LogoutAll, DeleteTokens
  <2>2. \A q \in Requests, s \in Tokens : Continues(q, s)' => Continues(q, s)
    BY <2>1 DEF Continues, At
  <2>3. QED
    BY <1>1, <1>2, <2>1, <2>2, EndsAnswered
<1>8. ASSUME CleanupExpiredTokens \/ (\E t \in Tokens : Expires(t)) \/ UNCHANGED vars
      PROVE EndsOK'
  <2>1. closed' = closed /\ issued' = issued
    BY <1>8 DEF CleanupExpiredTokens, DeleteTokens, Expires, vars
  <2>2. QED
    BY <1>1, <2>1, EndsKept
<1>9. EndsOK'
  BY <1>3, <1>4, <1>5, <1>6, <1>7, <1>8 DEF Next
<1>10. QED
  BY <1>1, <1>9 DEF SessionInv

\* The first state satisfies the invariant.
LEMMA SessionInit == Init => SessionInv
BY DEF Init, SessionInv, SInv, TablesOK, OneToken, FirstIssued, OneStored, OneCall,
       StoredOrCall, EndsOK, Held, Continues, At, Idle, Calls, Steps

\* The inductive invariant holds in every reachable state.
THEOREM SessionInvHolds == Spec => []SessionInv
BY SessionInit, SessionStep, PTL DEF Spec

\* The invariant types every variable.
LEMMA SessionTypes == SessionInv => TypeOK
BY DEF SessionInv, SInv, TablesOK, EndsOK, TypeOK

\* Every reachable state is well typed.
THEOREM TypeCorrect == Spec => []TypeOK
BY SessionTypes, SessionInvHolds, PTL

\* A refresh token is single use: no session ever has two holders, for any number
\* of concurrent refreshes, logins and logouts.
THEOREM NoForkHolds == Spec => []NoFork
<1>1. SessionInv => NoFork
  <2> SUFFICES ASSUME SessionInv, NEW s \in Tokens, NEW x \in Holders(s), NEW y \in Holders(s)
               PROVE x = y
    BY DEF NoFork
  <2>1. \A z \in Holders(s) : (z \in stored /\ first[z] = s) \/ (z \in Requests /\ Continues(z, s))
    BY DEF Holders
  <2>2. QED
    BY <2>1 DEF SessionInv, SInv, OneStored, OneCall, StoredOrCall
<1>2. QED
  BY <1>1, SessionInvHolds, PTL

\* A session that a logout, logoutAll, password reset or revocation ended while no
\* refresh of it stood between its delete and its create never has a stored token
\* again, for any number of refreshes that had validated its token before.  Nothing
\* is said of a session that such a refresh outlived: that one comes back.
THEOREM EndedStaysEndedHolds == Spec => []EndedStaysEnded
<1>1. SessionInv => EndedStaysEnded
  <2> SUFFICES ASSUME SessionInv, NEW s \in Sessions(stored) PROVE s \notin closed
    BY DEF EndedStaysEnded
  <2>1. PICK t \in stored : s = first[t]
    BY DEF Sessions
  <2>2. s \in Tokens /\ Held(s)
    BY <2>1 DEF SessionInv, SInv, TablesOK, Held
  <2>3. QED
    BY <2>2 DEF SessionInv, EndsOK
<1>2. QED
  BY <1>1, SessionInvHolds, PTL
=============================================================================
