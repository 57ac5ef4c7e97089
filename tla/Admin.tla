-------------------------------- MODULE Admin --------------------------------
(***************************************************************************)
(* How admin.service.ts changes the users table: verification on and off,  *)
(* promotion and demotion, each of them with an entry in the audit log.    *)
(* A call is admitted by JwtStrategy.validate and RolesGuard, which read   *)
(* the role of the administrator; the service reads only its target.       *)
(***************************************************************************)
EXTENDS Naturals, FiniteSets

CONSTANTS Users, Requests

VARIABLES
    role,     \* users.role
    verified, \* users.isVerified
    logged,   \* what the newest entries of audit_logs say of each user
    call,     \* the calls in progress
    alone     \* the users whom no two calls met on, and no call stopped on
              \* (history)

vars == <<role, verified, logged, call, alone>>

Operations == {"toggle", "make", "demote"}
Steps == {"idle", "find", "update", "log"}
\* seen is the isVerified that was read, then the one that was written.
Calls == [at : Steps, op : Operations, admin : Users, user : Users, seen : BOOLEAN]

TypeOK ==
    /\ role \in [Users -> {"USER", "ADMIN"}]
    /\ verified \in [Users -> BOOLEAN]
    /\ logged \in [Users -> [role : {"USER", "ADMIN"}, verified : BOOLEAN]]
    /\ call \in [Requests -> Calls]
    /\ alone \in SUBSET Users

Anyone == CHOOSE u \in Users : TRUE
Idle == [at |-> "idle", op |-> "toggle", admin |-> Anyone, user |-> Anyone, seen |-> FALSE]

Admins == {u \in Users : role[u] = "ADMIN"}

\* Some users are administrators to begin with; the log agrees with the table.
Init ==
    /\ role \in {f \in [Users -> {"USER", "ADMIN"}] : \E u \in Users : f[u] = "ADMIN"}
    /\ verified = [u \in Users |-> FALSE]
    /\ logged = [u \in Users |-> [role |-> role[u], verified |-> FALSE]]
    /\ call = [r \in Requests |-> Idle]
    /\ alone = Users

-----------------------------------------------------------------------------
At(r, step) == call[r].at = step
Goto(r, step) == call' = [call EXCEPT ![r].at = step]
Concerns(r, u) == ~At(r, "idle") /\ call[r].user = u
Over(r) == call' = [call EXCEPT ![r] = Idle]

\* RolesGuard reads the role that the access token's user has now.
Admitted(a) == role[a] = "ADMIN"

\* Mutant: the handlers do not compare.
AnyTarget(a, u) == TRUE

\* The first lines of the handlers.
OtherTarget(a, u) == a # u

Enter(r, op, a, u) ==
    /\ At(r, "idle")
    /\ Admitted(a) /\ OtherTarget(a, u)
    /\ call' = [call EXCEPT ![r] =
                  [at |-> "find", op |-> op, admin |-> a, user |-> u, seen |-> FALSE]]
    /\ alone' = IF \E q \in Requests : Concerns(q, u) THEN alone \ {u} ELSE alone
    /\ UNCHANGED <<role, verified, logged>>

\* The role that makeAdmin and demoteAdmin insist on.
Wanted(op) == CASE op = "make" -> {"USER"} [] op = "demote" -> {"ADMIN"}
                [] op = "toggle" -> {"USER", "ADMIN"}

Find(r) ==
    /\ At(r, "find")
    /\ LET u == call[r].user IN
         IF role[u] \in Wanted(call[r].op)
         THEN call' = [call EXCEPT ![r].at = "update", ![r].seen = verified[u]]
         ELSE Over(r)
    /\ UNCHANGED <<role, verified, logged, alone>>

Toggle(r) ==
    /\ At(r, "update") /\ call[r].op = "toggle"
    /\ verified' = [verified EXCEPT ![call[r].user] = ~call[r].seen]
    /\ call' = [call EXCEPT ![r].at = "log", ![r].seen = ~@]
    /\ UNCHANGED <<role, logged, alone>>

MakeAdmin(r) ==
    /\ At(r, "update") /\ call[r].op = "make"
    /\ role' = [role EXCEPT ![call[r].user] = "ADMIN"]
    /\ Goto(r, "log")
    /\ UNCHANGED <<verified, logged, alone>>

DemoteAdmin(r) ==
    /\ At(r, "update") /\ call[r].op = "demote"
    /\ role' = [role EXCEPT ![call[r].user] = "USER"]
    /\ Goto(r, "log")
    /\ UNCHANGED <<verified, logged, alone>>

\* Mutant: newStatus is taken from the row that was read.
EntryOfRead(r) ==
    CASE call[r].op = "toggle" -> [logged[call[r].user] EXCEPT !.verified = ~call[r].seen]
      [] call[r].op = "make" -> [logged[call[r].user] EXCEPT !.role = "ADMIN"]
      [] call[r].op = "demote" -> [logged[call[r].user] EXCEPT !.role = "USER"]

\* newStatus or newRole of the entry.
Entry(r) ==
    CASE call[r].op = "toggle" -> [logged[call[r].user] EXCEPT !.verified = call[r].seen]
      [] call[r].op = "make" -> [logged[call[r].user] EXCEPT !.role = "ADMIN"]
      [] call[r].op = "demote" -> [logged[call[r].user] EXCEPT !.role = "USER"]

CreateAuditLog(r) ==
    /\ At(r, "log")
    /\ logged' = [logged EXCEPT ![call[r].user] = Entry(r)]
    /\ Over(r)
    /\ UNCHANGED <<role, verified, alone>>

\* The process dies, or a statement throws.
Stops(r) ==
    /\ ~At(r, "idle")
    /\ Over(r)
    /\ alone' = alone \ {call[r].user}
    /\ UNCHANGED <<role, verified, logged>>

Next ==
    \E r \in Requests :
      \/ \E op \in Operations, a, u \in Users : Enter(r, op, a, u)
      \/ Find(r) \/ Toggle(r) \/ MakeAdmin(r) \/ DemoteAdmin(r)
      \/ CreateAuditLog(r) \/ Stops(r)

Spec == Init /\ [][Next]_vars

-----------------------------------------------------------------------------
(* Properties                                                              *)

\* The system loses its last administrator only to a demotion by somebody who
\* has been demoted since the guard admitted the call (admin.service.ts:367):
\* while demotions do not overlap, an administrator remains.
LastAdminGoesInARace ==
    [][Admins # {} /\ Admins' = {} =>
         \E r \in Requests : DemoteAdmin(r) /\ role[call[r].admin] = "USER"]_vars

\* The audit log tells the present role and status of every user on whom no two
\* calls met and no call stopped between its update and its entry.
AuditTells ==
    \A u \in alone :
      (\A r \in Requests : ~Concerns(r, u) \/ ~At(r, "log")) =>
        logged[u] = [role |-> role[u], verified |-> verified[u]]
=============================================================================
