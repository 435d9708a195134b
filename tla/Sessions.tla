-------------------------------- MODULE Sessions --------------------------------
(***************************************************************************)
(* Sessions: sign-up, login, refresh-token rotation with reuse detection   *)
(* and logout (AuthHandler, AuthService, RefreshTokenRepository), with the *)
(* browsers that keep the refresh_token cookie.                            *)
(*                                                                         *)
(* The handlers run concurrently, one database statement per step: none of *)
(* them opens a transaction.  Any statement may fail, a write may take     *)
(* effect and be reported as failed, and a request may die with no answer  *)
(* (a crash, a closed connection).  Time is a counter that a request still *)
(* running may hold up: no request outlives the MaxLatency the router's    *)
(* Timeout middleware allows it.  Cookies are the ones this server set:    *)
(* the "no such token" answer of GetByHash cannot arise, as rows are never *)
(* deleted.                                                                *)
(***************************************************************************)
EXTENDS Naturals, FiniteSets

CONSTANTS
    Users,          \* people; each has one email address
    Staff,          \* people whose role the owner may change
    Browsers,       \* cookie jars
    Slots,          \* requests the server handles at once
    Tokens,         \* refresh tokens that can ever be drawn
    AccessTTL,      \* ACCESS_TOKEN_TTL
    RefreshTTL,     \* REFRESH_TOKEN_TTL
    MaxLatency,     \* the longest a request can run
    MaxClock,       \* bound on the clock
    MaxFaults,      \* bound on failed statements and dead requests
    NONE            \* no token, no user, no role

Roles == {"customer", "admin"}

ASSUME NoneAssumption == NONE \notin Users \cup Browsers \cup Tokens \cup Roles
ASSUME StaffAssumption == Staff \subseteq Users
ASSUME SlotsAssumption == IsFiniteSet(Slots)
ASSUME TimeAssumption ==
    /\ AccessTTL \in Nat /\ RefreshTTL \in Nat /\ MaxLatency \in Nat
    /\ MaxClock \in Nat /\ MaxFaults \in Nat

VARIABLES
    role,           \* role[u]: users.role, NONE before u has signed up
    roleChanged,    \* roleChanged[u]: when u's role last changed
    owner,          \* owner[t]: refresh_tokens.user_id, NONE if t has no row
    expires,        \* expires[t]: refresh_tokens.expires_at
    revoked,        \* tokens with refresh_tokens.revoked_at set
    parent,         \* parent[t]: history, the token t was exchanged for
    ended,          \* history: tokens revoked by a logout or a mass revoke
    access,         \* unexpired access tokens some browser received
    jar,            \* jar[b]: b's refresh_token cookie
    pc,             \* pc[s]: the statement slot s runs next
    job,            \* job[s]: the request slot s is handling
    now,            \* the clock
    faults          \* faults so far

users  == <<role, roleChanged>>
table  == <<owner, expires, revoked, parent, ended>>
client == <<access, jar>>
vars   == <<role, roleChanged, owner, expires, revoked, parent, ended,
            access, jar, pc, job, now, faults>>

\* The state of one handler: its cookie, the user row it read, its answer.
Job ==
    [browser: Browsers \cup {NONE}, cookie: Tokens \cup {NONE},
     user: Users \cup {NONE}, role: Roles \cup {NONE},
     issued: Tokens \cup {NONE}, exp: Nat, reply: {"keep", "clear", "session"},
     since: Nat]

NoJob ==
    [browser |-> NONE, cookie |-> NONE, user |-> NONE, role |-> NONE,
     issued |-> NONE, exp |-> 0, reply |-> "keep", since |-> 0]

AccessToken == [user: Users, role: Roles, exp: Nat]

Handling == {"createUser", "getByEmail", "lookUp", "revokeAll", "getByID",
             "revoke", "issue", "logout", "respond"}

TypeOK ==
    /\ role \in [Users -> Roles \cup {NONE}]
    /\ roleChanged \in [Users -> Nat]
    /\ owner \in [Tokens -> Users \cup {NONE}]
    /\ expires \in [Tokens -> Nat]
    /\ revoked \subseteq Tokens
    /\ parent \in [Tokens -> Tokens \cup {NONE}]
    /\ ended \subseteq Tokens
    /\ access \subseteq AccessToken
    /\ jar \in [Browsers -> Tokens \cup {NONE}]
    /\ pc \in [Slots -> Handling \cup {"idle"}]
    /\ job \in [Slots -> Job]
    /\ now \in Nat
    /\ faults \in Nat

Init ==
    /\ role = [u \in Users |-> NONE]
    /\ roleChanged = [u \in Users |-> 0]
    /\ owner = [t \in Tokens |-> NONE]
    /\ expires = [t \in Tokens |-> 0]
    /\ revoked = {}
    /\ parent = [t \in Tokens |-> NONE]
    /\ ended = {}
    /\ access = {}
    /\ jar = [b \in Browsers |-> NONE]
    /\ pc = [s \in Slots |-> "idle"]
    /\ job = [s \in Slots |-> NoJob]
    /\ now = 0
    /\ faults = 0

-----------------------------------------------------------------------------
(* Helpers. *)

GoTo(s, l) == pc' = [pc EXCEPT ![s] = l]

\* The handler has its answer; the response is on its way.
Reply(s, j) ==
    /\ GoTo(s, "respond")
    /\ job' = [job EXCEPT ![s] = j]

Fault == faults < MaxFaults /\ faults' = faults + 1

TokensOf(u) == {t \in Tokens : owner[t] = u}

\* stored.RevokedAt != nil
NeverRevoked(t) == FALSE                \* mutant: reuse is not noticed
IsRevoked(t) == t \in revoked

\* time.Now().After(stored.ExpiresAt): still good at the very instant
NeverExpired(t) == FALSE                \* mutant: expires_at is not looked at
IsExpired(t) == now > expires[t]

-----------------------------------------------------------------------------
(* Requests arrive.  A browser may have several under way, in several tabs. *)

Arrive(s, l, j) ==
    /\ pc[s] = "idle"
    /\ GoTo(s, l)
    /\ job' = [job EXCEPT ![s] = [j EXCEPT !.since = now]]
    /\ UNCHANGED <<users, table, client, now, faults>>

SignUp(s, b, u) ==
    Arrive(s, "createUser", [NoJob EXCEPT !.browser = b, !.user = u])

Login(s, b, u) ==
    Arrive(s, "getByEmail", [NoJob EXCEPT !.browser = b, !.user = u])

\* Without a cookie the answer is 401 (refresh) or 200 (logout): no effect.
Refresh(s, b) ==
    /\ jar[b] # NONE
    /\ Arrive(s, "lookUp", [NoJob EXCEPT !.browser = b, !.cookie = jar[b]])

Logout(s, b) ==
    /\ jar[b] # NONE
    /\ Arrive(s, "logout", [NoJob EXCEPT !.browser = b, !.cookie = jar[b]])

-----------------------------------------------------------------------------
(* SignUp and Login: a user row, then issueResult. *)

\* INSERT INTO users, or its unique constraint on the email: 409.
CreateUser(s) ==
    /\ pc[s] = "createUser"
    /\ LET u == job[s].user IN
          IF role[u] = NONE
          THEN /\ role' = [role EXCEPT ![u] = "customer"]
               /\ job' = [job EXCEPT ![s].role = "customer"]
               /\ GoTo(s, "issue")
          ELSE /\ Reply(s, job[s])
               /\ UNCHANGED role
    /\ UNCHANGED <<roleChanged, table, client, now, faults>>

\* mutant: ErrNotFound is not looked at.
UserAssumed(u) == TRUE
UserFound(u) == role[u] # NONE

\* The user row is read and the password compared with it.
GetByEmail(s) ==
    /\ pc[s] = "getByEmail"
    /\ \/ /\ UserFound(job[s].user)
          /\ job' = [job EXCEPT ![s].role = role[job[s].user]]
          /\ GoTo(s, "issue")
       \/ Reply(s, job[s])              \* unknown email or wrong password: 401
    /\ UNCHANGED <<users, table, client, now, faults>>

-----------------------------------------------------------------------------
(* RefreshAccessToken. *)

\* GetByHash, and the two checks on the row it returned.
LookUp(s) ==
    /\ pc[s] = "lookUp"
    /\ LET t == job[s].cookie IN
       /\ job' = [job EXCEPT ![s].user = owner[t],
                             ![s].reply = IF IsRevoked(t) \/ IsExpired(t)
                                          THEN "clear" ELSE @]
       /\ GoTo(s, IF IsRevoked(t) THEN "revokeAll"
                  ELSE IF IsExpired(t) THEN "respond" ELSE "getByID")
    /\ UNCHANGED <<users, table, client, now, faults>>

\* A revoked token was presented: RevokeAllForUser, then 401.
RevokeAll(s) ==
    /\ pc[s] = "revokeAll"
    /\ revoked' = revoked \cup TokensOf(job[s].user)
    /\ ended' = ended \cup TokensOf(job[s].user)
    /\ GoTo(s, "respond")
    /\ UNCHANGED <<users, owner, expires, parent, client, job, now, faults>>

\* The user is read afresh, with the role as it is now.
GetByID(s) ==
    /\ pc[s] = "getByID"
    /\ job' = [job EXCEPT ![s].role = role[job[s].user]]
    /\ GoTo(s, "revoke")
    /\ UNCHANGED <<users, table, client, now, faults>>

\* mutant: the presented token is left valid.
SkipRevoke(s) ==
    /\ pc[s] = "revoke"
    /\ GoTo(s, "issue")
    /\ UNCHANGED <<users, table, client, job, now, faults>>

\* UPDATE ... WHERE token_hash = $1 AND revoked_at IS NULL.  How many rows
\* it changed is not looked at.
Revoke(s) ==
    /\ pc[s] = "revoke"
    /\ revoked' = revoked \cup {job[s].cookie}
    /\ GoTo(s, "issue")
    /\ UNCHANGED <<users, owner, expires, parent, ended, client, job, now, faults>>

-----------------------------------------------------------------------------
(* issueResult: sign an access token with the role read earlier, draw a    *)
(* refresh token and insert its row.  Both read the clock, and are given   *)
(* the instant of the insert.                                              *)

\* mutant: the two lifetimes are swapped on their way to AuthService.
AccessExpirySwapped == now + RefreshTTL
AccessExpiry == now + AccessTTL

\* INSERT INTO refresh_tokens, of a token never drawn before.
InsertToken(s, t) ==
    /\ owner[t] = NONE
    /\ owner' = [owner EXCEPT ![t] = job[s].user]
    /\ expires' = [expires EXCEPT ![t] = now + RefreshTTL]
    /\ parent' = [parent EXCEPT ![t] = job[s].cookie]
    /\ UNCHANGED <<revoked, ended>>

Issue(s) ==
    /\ pc[s] = "issue"
    /\ \E t \in Tokens :
          /\ InsertToken(s, t)
          /\ Reply(s, [job[s] EXCEPT
                 !.issued = t, !.exp = AccessExpiry, !.reply = "session"])
    /\ UNCHANGED <<users, client, now, faults>>

-----------------------------------------------------------------------------
(* Logout revokes the cookie's token and clears the cookies either way. *)

\* mutant: only the cookies are cleared.
LogoutHere(s) ==
    /\ pc[s] = "logout"
    /\ Reply(s, [job[s] EXCEPT !.reply = "clear"])
    /\ UNCHANGED <<users, table, client, now, faults>>

LogoutRevoke(s) ==
    /\ pc[s] = "logout"
    /\ revoked' = revoked \cup {job[s].cookie}
    /\ ended' = IF IsRevoked(job[s].cookie) THEN ended ELSE ended \cup {job[s].cookie}
    /\ Reply(s, [job[s] EXCEPT !.reply = "clear"])
    /\ UNCHANGED <<users, owner, expires, parent, client, now, faults>>

-----------------------------------------------------------------------------
(* Answers reach the browser: setAuthCookies, clearAuthCookies or neither. *)

\* mutant: a refresh sets the access_token cookie only.
CookieKept(s) ==
    IF job[s].cookie # NONE THEN jar ELSE [jar EXCEPT ![job[s].browser] = job[s].issued]
CookieSet(s) == [jar EXCEPT ![job[s].browser] = job[s].issued]

Respond(s) ==
    /\ pc[s] = "respond"
    /\ \/ /\ job[s].reply = "session"
          /\ jar' = CookieSet(s)
          /\ access' = {a \in access \cup {[user |-> job[s].user, role |-> job[s].role,
                                            exp |-> job[s].exp]} : now < a.exp}
       \/ /\ job[s].reply = "clear"
          /\ jar' = [jar EXCEPT ![job[s].browser] = NONE]
          /\ UNCHANGED access
       \/ /\ job[s].reply = "keep"
          /\ UNCHANGED client
    /\ GoTo(s, "idle")
    /\ job' = [job EXCEPT ![s] = NoJob]
    /\ UNCHANGED <<users, table, now, faults>>

-----------------------------------------------------------------------------
(* Faults.  A handler whose statement fails answers 500; refresh and       *)
(* logout clear the cookies all the same.  The failed write may have       *)
(* taken effect.                                                           *)

\* What a failing statement of s may have done to the tables.
FailedWrite(s) ==
    \/ UNCHANGED <<role, table>>
    \/ /\ pc[s] = "createUser" /\ role[job[s].user] = NONE
       /\ role' = [role EXCEPT ![job[s].user] = "customer"]
       /\ UNCHANGED table
    \/ /\ pc[s] \in {"revoke", "logout"}
       /\ revoked' = revoked \cup {job[s].cookie}
       /\ UNCHANGED <<role, owner, expires, parent, ended>>
    \/ /\ pc[s] = "revokeAll"
       /\ revoked' = revoked \cup TokensOf(job[s].user)
       /\ UNCHANGED <<role, owner, expires, parent, ended>>
    \/ /\ pc[s] = "issue"
       /\ \E t \in Tokens : InsertToken(s, t)
       /\ UNCHANGED role

StatementFails(s) ==
    /\ Fault
    /\ pc[s] \in Handling \ {"respond"}
    /\ FailedWrite(s)
    /\ Reply(s, [job[s] EXCEPT !.reply = IF job[s].cookie = NONE THEN "keep" ELSE "clear"])
    /\ UNCHANGED <<roleChanged, client, now>>

\* The process dies or the connection does: the browser hears nothing.
RequestDies(s) ==
    /\ Fault
    /\ pc[s] # "idle"
    /\ GoTo(s, "idle")
    /\ job' = [job EXCEPT ![s] = NoJob]
    /\ UNCHANGED <<users, table, client, now>>

-----------------------------------------------------------------------------
(* Outside the handlers: the owner updates users.role, time passes. *)

ChangeRole(u) ==
    /\ u \in Staff
    /\ role[u] # NONE
    /\ role' = [role EXCEPT ![u] = CHOOSE x \in Roles : x # role[u]]
    /\ roleChanged' = [roleChanged EXCEPT ![u] = now]
    /\ UNCHANGED <<table, client, pc, job, now, faults>>

Tick ==
    /\ now < MaxClock
    /\ \A s \in Slots : pc[s] # "idle" => now < job[s].since + MaxLatency
    /\ now' = now + 1
    /\ access' = {a \in access : now' < a.exp}
    /\ UNCHANGED <<users, table, jar, pc, job, faults>>

\* The bound Tokens is reached: the instance stops here.
OutOfTokens ==
    /\ \A t \in Tokens : owner[t] # NONE
    /\ UNCHANGED vars

Next ==
    \/ \E s \in Slots, b \in Browsers, u \in Users : SignUp(s, b, u) \/ Login(s, b, u)
    \/ \E s \in Slots, b \in Browsers : Refresh(s, b) \/ Logout(s, b)
    \/ \E s \in Slots :
          \/ CreateUser(s) \/ GetByEmail(s)
          \/ LookUp(s) \/ RevokeAll(s) \/ GetByID(s) \/ Revoke(s)
          \/ Issue(s) \/ LogoutRevoke(s) \/ Respond(s)
          \/ StatementFails(s) \/ RequestDies(s)
    \/ \E u \in Users : ChangeRole(u)
    \/ Tick
    \/ OutOfTokens

Spec == Init /\ [][Next]_vars

-----------------------------------------------------------------------------
(* What the session rules guarantee. *)

Successors(t) == {c \in Tokens : parent[c] = t}

\* A refresh never hands out a token while the one presented still works,
\* never to someone else, and never for a token that had expired before
\* the request began (Revoke comes before issueResult, the user id from
\* the token's own row).
ExchangeIsSound ==
    \A t \in Tokens : parent[t] # NONE =>
        /\ parent[t] \in revoked
        /\ owner[parent[t]] = owner[t]
        /\ expires[t] <= expires[parent[t]] + RefreshTTL + MaxLatency

\* However often a token is presented, however many requests are lost,
\* it is exchanged at most once for each request the server can have
\* under way at the same moment: once, if requests come one at a time.
SuccessorsBounded ==
    \A t \in Tokens : Cardinality(Successors(t)) <= Cardinality(Slots)

\* A role change reaches everyone within ACCESS_TOKEN_TTL, give or take
\* the time a request may spend between reading the role and signing it:
\* no access token with the old role outlives that.
StaleRoleBound ==
    \A a \in access : a.role # role[a.user] =>
        a.exp <= roleChanged[a.user] + AccessTTL + MaxLatency

\* Logging out, or a mass revoke, ends a session: none of the tokens it
\* revoked is exchanged for a new one afterwards ("so it can never be used
\* again", "forcing every session to re-authenticate").
EndedSessionsStayEnded ==
    [][\A t \in ended : Successors(t)' = Successors(t)]_vars

\* "The old refresh token is revoked in the same call, so it can never be
\* reused": a token is exchanged for at most one other.
UsedOnce == \A t \in Tokens : Cardinality(Successors(t)) <= 1

\* "Whatever went wrong, the presented refresh token is no longer good for
\* anything": true as long as no statement has failed, for a refresh that is
\* turned away as for a logout.  (After a failure the cookies are cleared
\* although the token may still work.)
ClearedIsDead ==
    faults = 0 => \A s \in Slots : pc[s] = "respond" /\ job[s].reply = "clear" =>
        IsRevoked(job[s].cookie) \/ IsExpired(job[s].cookie)
=============================================================================
