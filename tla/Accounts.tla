------------------------------- MODULE Accounts -------------------------------
(***************************************************************************)
(* The users row of one e-mail address, as auth.service.ts writes it:      *)
(* registration, the counter of failed logins and its lockout, and the     *)
(* password reset.  Every statement is keyed by one user, so accounts do   *)
(* not meet.  Tokens are in Sessions, roles in Admin.                      *)
(*                                                                         *)
(* argon2 is left out: a login is found right or wrong.                    *)
(***************************************************************************)
EXTENDS Naturals, FiniteSets

CONSTANTS
    Requests,
    Threshold,  \* the failures in a row that lock the account (5 in the code)
    MaxFailed   \* where the counts stop (at least Threshold: no guard tells apart
                \* what lies beyond)

VARIABLES
    row,    \* the users rows with that address: a set of records
    call,   \* what each call in progress is about to do, and what it has read
    guesses \* history: the wrong logins since the last right one or reset

vars == <<row, call, guesses>>

\* lockoutUntil is null, in the future or past; link says that a reset link is
\* out and has not expired.
Rows == [failed : 0..MaxFailed, lock : {"none", "future", "past"}, link : BOOLEAN]
Fresh == [failed |-> 0, lock |-> "none", link |-> FALSE]
Steps == {"idle", "register", "verify", "reset"}
Calls == [at : Steps, failed : 0..MaxFailed, locked : BOOLEAN]
Idle == [at |-> "idle", failed |-> 0, locked |-> FALSE]

TypeOK ==
    /\ row \in SUBSET Rows /\ Cardinality(row) <= 1
    /\ call \in [Requests -> Calls]
    /\ guesses \in 0..MaxFailed

Init ==
    /\ row = {}
    /\ call = [r \in Requests |-> Idle]
    /\ guesses = 0

-----------------------------------------------------------------------------
At(r, step) == call[r].at = step
Begin(r, c) == At(r, "idle") /\ call' = [call EXCEPT ![r] = c]
Done(r) == call' = [call EXCEPT ![r] = Idle]
OneMore(n) == IF n < MaxFailed THEN n + 1 ELSE n

(* register                                                                *)

\* findFirst sees no such user; then the password is hashed.
RegisterFind(r) ==
    /\ row = {}
    /\ Begin(r, [Idle EXCEPT !.at = "register"])
    /\ UNCHANGED <<row, guesses>>

\* The INSERT, or P2002 when another call was faster.
RegisterCreate(r) ==
    /\ At(r, "register")
    /\ row' = IF row = {} THEN {Fresh} ELSE row
    /\ Done(r)
    /\ UNCHANGED guesses

-----------------------------------------------------------------------------
(* login                                                                   *)

LoginFind(r) ==
    /\ \E u \in row :
         /\ u.lock # "future"
         /\ Begin(r, [at |-> "verify", failed |-> u.failed, locked |-> u.lock # "none"])
    /\ UNCHANGED <<row, guesses>>

\* Mutant: the lock is set by the failure that reaches the threshold, and by none
\* that comes after the first lockout.
CountedOnce(u, n) ==
    [u EXCEPT !.failed = OneMore(n), !.lock = IF n + 1 = Threshold THEN "future" ELSE @]

\* The count follows the one that was read before argon2.verify.
Counted(u, n) ==
    [u EXCEPT !.failed = OneMore(n), !.lock = IF n + 1 >= Threshold THEN "future" ELSE @]

LoginWrong(r) ==
    /\ At(r, "verify")
    /\ row' = {Counted(u, call[r].failed) : u \in row}
    /\ guesses' = OneMore(guesses)
    /\ Done(r)

\* The counter is reset when what was read asks for it; Sessions goes on.
LoginRight(r) ==
    /\ At(r, "verify")
    /\ row' = IF call[r].failed > 0 \/ call[r].locked
              THEN {[u EXCEPT !.failed = 0, !.lock = "none"] : u \in row}
              ELSE row
    /\ guesses' = 0
    /\ Done(r)

-----------------------------------------------------------------------------
(* forgotPassword, resetPassword                                           *)

ForgotPassword ==
    /\ \E u \in row : row' = {[u EXCEPT !.link = TRUE]} /\ ~u.link
    /\ UNCHANGED <<call, guesses>>

\* findFirst by the token of the link; then the password is hashed.
ResetFind(r) ==
    /\ \E u \in row : u.link
    /\ Begin(r, [Idle EXCEPT !.at = "reset"])
    /\ UNCHANGED <<row, guesses>>

\* The link is spent and the counter starts again; Sessions loses its tokens.
ResetWrite(r) ==
    /\ At(r, "reset")
    /\ row' = {Fresh}
    /\ guesses' = 0
    /\ Done(r)

-----------------------------------------------------------------------------
(* Time and faults                                                         *)

LockPasses ==
    /\ \E u \in row : u.lock = "future" /\ row' = {[u EXCEPT !.lock = "past"]}
    /\ UNCHANGED <<call, guesses>>

LinkPasses ==
    /\ \E u \in row : u.link /\ row' = {[u EXCEPT !.link = FALSE]}
    /\ UNCHANGED <<call, guesses>>

\* The process dies, or a statement throws.
Stops(r) ==
    /\ ~At(r, "idle")
    /\ Done(r)
    /\ UNCHANGED <<row, guesses>>

Next ==
    \/ \E r \in Requests :
         \/ RegisterFind(r) \/ RegisterCreate(r)
         \/ LoginFind(r) \/ LoginWrong(r) \/ LoginRight(r)
         \/ ResetFind(r) \/ ResetWrite(r)
         \/ Stops(r)
    \/ ForgotPassword \/ LockPasses \/ LinkPasses

Spec == Init /\ [][Next]_vars

-----------------------------------------------------------------------------
(* Properties                                                              *)

\* "Account lockout: 5 failed login attempts triggers a 15-minute temporary
\* lockout" (README.md:80): after Threshold wrong logins, with no right one and
\* no reset among them, a lockout is on record.  Violated by wrong logins that
\* overlap: each writes the count it read before argon2.verify, plus one
\* (auth.service.ts:118-131), and those that read the same count as one.
LockedAfterThreshold ==
    guesses >= Threshold => \A u \in row : u.lock # "none"

\* Overlapping logins delay the lockout, no more: while the password is guessed on
\* and on, with no right login and no reset from some moment on, the account is
\* locked again and again.  The count that is lost is never the highest for ever,
\* and once it is at the threshold every further failure locks.
Guessed == \E r \in Requests : LoginWrong(r)
Cleared == \E r \in Requests : LoginRight(r) \/ ResetWrite(r)
GuessingLocks ==
    []<><<Guessed>>_vars /\ <>[][~Cleared]_vars => []<>(\E u \in row : u.lock = "future")
=============================================================================
