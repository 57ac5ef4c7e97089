------------------------------- MODULE Sessions -------------------------------
(***************************************************************************)
(* The refresh tokens of one user, as auth.service.ts and                  *)
(* jwt-refresh.strategy.ts keep them: issue, rotation, logout and the      *)
(* nightly cleanup.  Accounts says when a login succeeds.                  *)
(*                                                                         *)
(* A session is the chain of tokens that grows from a login: it is named   *)
(* by its first token.  Signatures are left out: a token is one that the   *)
(* service has issued.                                                     *)
(***************************************************************************)
EXTENDS Naturals, FiniteSets

CONSTANTS
    Tokens,   \* the refresh tokens there can be (a bound; each is signed once)
    Requests

VARIABLES
    stored,  \* the tokens in refresh_tokens
    issued,  \* the tokens that were ever stored
    first,   \* the first token of the session of each token
    expired, \* the tokens whose lifetime is over
    call,    \* what each call in progress is about to do, and with which token
    closed   \* history: the sessions that a logout has ended for good (see Answered)

vars == <<stored, issued, first, expired, call, closed>>

Steps == {"idle", "issue", "validate", "revoke", "drop", "find", "delete"}

\* A refresh works with one token, a login with none.
Calls == [at : Steps, token : SUBSET Tokens]
Idle == [at |-> "idle", token |-> {}]

TypeOK ==
    /\ stored \in SUBSET issued /\ issued \in SUBSET Tokens /\ expired \in SUBSET issued
    /\ first \in [Tokens -> Tokens]
    /\ call \in [Requests -> Calls]
    /\ closed \in SUBSET issued

Init ==
    /\ stored = {} /\ issued = {} /\ expired = {}
    /\ first = [t \in Tokens |-> t]
    /\ call = [r \in Requests |-> Idle]
    /\ closed = {}

-----------------------------------------------------------------------------
At(r, step) == call[r].at = step
Begin(r, step, T) == At(r, "idle") /\ call' = [call EXCEPT ![r] = [at |-> step, token |-> T]]
Goto(r, step) == call' = [call EXCEPT ![r].at = step]
Done(r) == call' = [call EXCEPT ![r] = Idle]

\* The call has deleted a token of session s and is about to store the next.
Continues(r, s) == At(r, "issue") /\ \E t \in call[r].token : first[t] = s

\* A logout answers for the sessions S.  Those that a refresh is carrying from its
\* delete to its create may come back, although the caller is told that they ended:
\* deleteMany has nothing to delete for them (auth.service.ts:180, 198, 310).
Answered(S) == closed' = closed \cup {s \in S : \A r \in Requests : ~Continues(r, s)}
Sessions(T) == {first[t] : t \in T}

-----------------------------------------------------------------------------
(* register and login, once the user is known                              *)

SignIn(r) ==
    /\ Begin(r, "issue", {})
    /\ UNCHANGED <<stored, issued, first, expired, closed>>

\* generateTokens: a fresh token is stored; a refresh continues its session.
Issue(r) ==
    /\ At(r, "issue")
    /\ Tokens # issued
    /\ LET t == CHOOSE t \in Tokens : t \notin issued IN
         /\ stored' = stored \cup {t}
         /\ issued' = issued \cup {t}
         /\ first' = [first EXCEPT ![t] = IF call[r].token = {} THEN t
                                          ELSE first[CHOOSE o \in call[r].token : TRUE]]
    /\ Done(r)
    /\ UNCHANGED <<expired, closed>>

-----------------------------------------------------------------------------
(* refresh: JwtRefreshStrategy.validate, then AuthService.refreshTokens    *)

\* The signature and the lifetime of the token are good.
RefreshPresent(r, t) ==
    /\ t \in issued \ expired
    /\ Begin(r, "validate", {t})
    /\ UNCHANGED <<stored, issued, first, expired, closed>>

\* validate looks the token up.
RefreshValidate(r) ==
    /\ At(r, "validate")
    /\ Goto(r, IF call[r].token \cap stored = {} THEN "revoke"
               ELSE IF call[r].token \cap expired # {} THEN "drop" ELSE "find")
    /\ UNCHANGED <<stored, issued, first, expired, closed>>

\* A token that is not stored was used before or logged out: all sessions end.
RefreshRevoke(r) ==
    /\ At(r, "revoke")
    /\ stored' = {}
    /\ Answered(Sessions(issued))
    /\ Done(r)
    /\ UNCHANGED <<issued, first, expired>>

\* The row of an expired token is deleted (or is gone, and the delete throws).
RefreshDrop(r) ==
    /\ At(r, "drop")
    /\ stored' = stored \ call[r].token
    /\ Done(r)
    /\ UNCHANGED <<issued, first, expired, closed>>

\* refreshTokens looks the token up once more.
RefreshFind(r) ==
    /\ At(r, "find")
    /\ IF call[r].token \cap stored = {} THEN Done(r) ELSE Goto(r, "delete")
    /\ UNCHANGED <<stored, issued, first, expired, closed>>

\* Mutant: the old token is left where it is.
RefreshKeepsOld(r) ==
    /\ At(r, "delete")
    /\ IF call[r].token \cap stored = {} THEN Done(r) ELSE Goto(r, "issue")
    /\ UNCHANGED <<stored, issued, first, expired, closed>>

\* Mutant: deleteMany, which does not fail when there is nothing to delete.
RefreshDeleteMany(r) ==
    /\ At(r, "delete")
    /\ stored' = stored \ call[r].token
    /\ Goto(r, "issue")
    /\ UNCHANGED <<issued, first, expired, closed>>

\* delete by id throws when the row is gone.
RefreshDelete(r) ==
    /\ At(r, "delete")
    /\ stored' = stored \ call[r].token
    /\ IF call[r].token \cap stored = {} THEN Done(r) ELSE Goto(r, "issue")
    /\ UNCHANGED <<issued, first, expired, closed>>

-----------------------------------------------------------------------------
(* logout; logoutAll and resetPassword; the cleanup                        *)

DeleteTokens(T) ==
    /\ stored' = stored \ T
    /\ UNCHANGED <<issued, first, expired, call>>

\* Success is answered whether or not the token is stored; a token that has been
\* rotated does not speak for the session that went on without it.
Logout(t) ==
    /\ t \in issued
    /\ DeleteTokens({t})
    /\ Answered({first[t]} \ Sessions(stored \ {t}))

LogoutAll ==
    /\ issued # {}
    /\ DeleteTokens(stored)
    /\ Answered(Sessions(issued))

CleanupExpiredTokens ==
    /\ stored \cap expired # {}
    /\ DeleteTokens(expired)
    /\ UNCHANGED closed

-----------------------------------------------------------------------------
(* Time and faults                                                         *)

Expires(t) ==
    /\ t \in issued \ expired
    /\ expired' = expired \cup {t}
    /\ UNCHANGED <<stored, issued, first, call, closed>>

\* The process dies, or a statement throws.
Stops(r) ==
    /\ ~At(r, "idle")
    /\ Done(r)
    /\ UNCHANGED <<stored, issued, first, expired, closed>>

-----------------------------------------------------------------------------
Next ==
    \/ \E r \in Requests :
         \/ SignIn(r) \/ Issue(r)
         \/ \E t \in Tokens : RefreshPresent(r, t)
         \/ RefreshValidate(r) \/ RefreshRevoke(r) \/ RefreshDrop(r)
         \/ RefreshFind(r) \/ RefreshDelete(r)
         \/ Stops(r)
    \/ \E t \in Tokens : Logout(t) \/ Expires(t)
    \/ LogoutAll \/ CleanupExpiredTokens

Spec == Init /\ [][Next]_vars

-----------------------------------------------------------------------------
(* Properties                                                              *)

\* What keeps a session alive: its stored token, or the call that has deleted
\* that token and is about to store the next.
Holders(s) ==
    {t \in stored : first[t] = s} \cup {r \in Requests : Continues(r, s)}

\* Refresh tokens are single use (README.md:81): however many refreshes present
\* the same token at once, a session never forks into two.
NoFork == \A s \in Tokens : \A x, y \in Holders(s) : x = y

\* A session that a logout, logoutAll, password reset or revocation ended while
\* no refresh of it stood between its delete and its create never has a stored
\* token again, although other refreshes may have validated its token before
\* (refreshTokens looks it up once more, and its delete by id throws).  A session
\* that such a refresh carried over does come back, and is excepted.
EndedStaysEnded == Sessions(stored) \cap closed = {}
=============================================================================
