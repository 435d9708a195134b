------------------------------ MODULE AdminAccess ------------------------------
(***************************************************************************)
(* Sessions with what the access tokens are for: the admin routes, where   *)
(* Authenticate and RequireRole look at a token's claims and nobody looks  *)
(* at users.role again before the decision is committed; and cmd/seedadmin *)
(* as the second way to become an admin.  One decision at a time is        *)
(* followed; the approval workflow itself is in Approvals.                 *)
(***************************************************************************)
EXTENDS Sessions

VARIABLES
    deed,           \* the admin request followed, NONE if there is none
    lastAdmin       \* history, lastAdmin[u]: one more than the last instant at
                    \* which users.role of u was admin, 0 if it never was

accessVars == <<vars, deed, lastAdmin>>

ASSUME DeedAssumption == NONE \notin [user: Users, since: Nat, stage: {"deciding", "decided"}]

DeedOK ==
    /\ deed \in [user: Users, since: Nat, stage: {"deciding", "decided"}] \cup {NONE}
    /\ lastAdmin \in [Users -> Nat]

AccessInit ==
    /\ Init
    /\ deed = NONE
    /\ lastAdmin = [u \in Users |-> 0]

\* Keeps lastAdmin true, after every step.
Remember ==
    lastAdmin' = [u \in Users |-> IF role'[u] = "admin" THEN now' + 1 ELSE lastAdmin[u]]

-----------------------------------------------------------------------------

\* cmd/seedadmin: INSERT INTO users with role 'admin', unless the email is taken.
SeedAdmin(u) ==
    /\ u \in Staff
    /\ role[u] = NONE
    /\ role' = [role EXCEPT ![u] = "admin"]
    /\ roleChanged' = [roleChanged EXCEPT ![u] = now]
    /\ UNCHANGED <<table, client, pc, job, now, faults, deed>>

\* Authenticate: the signature is ours, the token has not expired.
Authenticate(a) == a \in access /\ now < a.exp

\* mutant: anyone who is logged in.
AnyRole(a) == TRUE
RequireRole(a) == a.role = "admin"

\* POST /admin/orders/{id}/approve or decline gets past the middleware.
Admit(a) ==
    /\ deed = NONE
    /\ Authenticate(a) /\ RequireRole(a)
    /\ deed' = [user |-> a.user, since |-> now, stage |-> "deciding"]
    /\ UNCHANGED vars

\* DecideCustomOrder commits, with the caller's id as admin_id.
Decide ==
    /\ deed # NONE /\ deed.stage = "deciding"
    /\ deed' = [deed EXCEPT !.stage = "decided"]
    /\ UNCHANGED vars

\* The request ends: it was answered, failed or was cancelled.
EndDeed ==
    /\ deed # NONE
    /\ deed' = NONE
    /\ UNCHANGED vars

\* Sessions' step; time waits for the decision as for any other request.
SessionStep ==
    /\ Next
    /\ now' > now /\ deed # NONE => now < deed.since + MaxLatency
    /\ UNCHANGED deed

AccessNext ==
    /\ \/ SessionStep
       \/ \E u \in Users : SeedAdmin(u)
       \/ \E a \in access : Admit(a)
       \/ Decide \/ EndDeed
    /\ Remember

AccessSpec == AccessInit /\ [][AccessNext]_accessVars

-----------------------------------------------------------------------------

\* Nobody looks at users.role when an order is decided, but whoever decides
\* has been an admin less than an access token's life ago, give or take the
\* time the request that signed it and the deciding one took.
DecisionsByRecentAdmins ==
    deed # NONE /\ deed.stage = "decided" =>
        /\ lastAdmin[deed.user] > 0
        /\ now + 1 < lastAdmin[deed.user] + AccessTTL + 2 * MaxLatency
=============================================================================
