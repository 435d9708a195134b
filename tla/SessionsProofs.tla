----------------------------- MODULE SessionsProofs -----------------------------
(***************************************************************************)
(* Proofs about Sessions, Replays and AdminAccess, for any users,          *)
(* browsers, tokens, number of requests at once and lifetimes: what an     *)
(* exchange of refresh tokens guarantees however requests overlap, fail or *)
(* die, how long a role that was changed can go on being claimed, and how  *)
(* long ago whoever decides an order was an admin.                         *)
(*                                                                         *)
(* The inductive invariant says, place by place in the handlers, what a    *)
(* handler knows of the rows it has read that no other request can have    *)
(* made untrue meanwhile: rows are not deleted, revoked_at is never        *)
(* cleared, and a role that is different now changed after it was read.    *)
(*                                                                         *)
(* The second half counts: a token's successors and the requests still     *)
(* about to make one are no more than there are requests at once.  The     *)
(* last part says what the code's comments promise of a token that is used *)
(* and of a session that is ended: it is kept to clients that wait for     *)
(* their answers, and the hypotheses say which waiting each promise needs. *)
(* For all the others it ends with what a replay alarm takes.              *)
(***************************************************************************)
EXTENDS AdminAccess, Replays, FiniteSetTheorems, TLAPS

\* The cookie of s is a token with a row.
Presented(s) == job[s].cookie \in Tokens /\ owner[job[s].cookie] # NONE

\* s has read its user's row since it began.
RoleRead(s) ==
    /\ job[s].user \in Users /\ job[s].role \in Roles
    /\ role[job[s].user] # NONE
    /\ job[s].role # role[job[s].user] => job[s].since <= roleChanged[job[s].user]

\* s's token had not expired when the request began.
WasGood(s) == job[s].since <= expires[job[s].cookie]

\* The access token s has signed.
Signed(s) ==
    /\ job[s].issued \in Tokens /\ owner[job[s].issued] # NONE
    /\ job[s].exp <= job[s].since + MaxLatency + AccessTTL
    /\ job[s].exp <= now + AccessTTL

JobOK(s) ==
    /\ job[s].browser \in Browsers
    /\ job[s].since <= now /\ now <= job[s].since + MaxLatency
    /\ pc[s] \in {"createUser", "getByEmail"} =>
          job[s].user \in Users /\ job[s].cookie = NONE /\ job[s].reply = "keep"
    /\ pc[s] \in {"lookUp", "logout"} => Presented(s) /\ job[s].reply = "keep"
    /\ pc[s] \in {"revokeAll", "getByID", "revoke"} =>
          Presented(s) /\ job[s].user = owner[job[s].cookie]
    /\ pc[s] = "revokeAll" => job[s].reply = "clear" /\ job[s].cookie \in revoked
    /\ pc[s] \in {"getByID", "revoke"} => WasGood(s)
    /\ pc[s] \in {"revoke", "issue"} => RoleRead(s)
    /\ pc[s] = "issue" /\ job[s].cookie # NONE =>
          /\ Presented(s) /\ WasGood(s)
          /\ job[s].user = owner[job[s].cookie] /\ job[s].cookie \in revoked
    /\ pc[s] = "respond" /\ job[s].reply = "session" => RoleRead(s) /\ Signed(s)
    /\ pc[s] = "respond" /\ job[s].reply = "clear" /\ faults = 0 =>
          Presented(s) /\ (IsRevoked(job[s].cookie) \/ IsExpired(job[s].cookie))

JobsOK == \A s \in Slots : pc[s] # "idle" => JobOK(s)

\* Rows belong to people who have signed up, and only rows have a parent.
RowsOK ==
    \A t \in Tokens :
        /\ owner[t] # NONE => role[owner[t]] # NONE
        /\ parent[t] # NONE => owner[t] # NONE

JarsOK == \A b \in Browsers : jar[b] # NONE => owner[jar[b]] # NONE

AccessOK == \A a \in access : role[a.user] # NONE /\ a.exp <= now + AccessTTL

IInv ==
    /\ TypeOK /\ RowsOK /\ JarsOK /\ AccessOK /\ JobsOK
    /\ ExchangeIsSound /\ StaleRoleBound

\* What every step leaves true of the tables.
Grows ==
    /\ \A t \in Tokens : owner[t] # NONE =>
          owner'[t] = owner[t] /\ expires'[t] = expires[t]
    /\ revoked \subseteq revoked'
    /\ \A u \in Users :
          /\ role[u] # NONE => role'[u] # NONE
          /\ role[u] # NONE /\ role'[u] # role[u] => roleChanged'[u] = now
          /\ roleChanged'[u] \in {roleChanged[u], now}
    /\ now <= now' /\ faults <= faults'

-----------------------------------------------------------------------------
(* What growth of the tables keeps. *)

LEMMA KeepsTokens ==
  ASSUME IInv, TypeOK', Grows
  PROVE  /\ jar' = jar => JarsOK'
         /\ owner' = owner /\ parent' = parent => RowsOK'
         /\ parent' = parent => ExchangeIsSound'
<1>1. ASSUME jar' = jar PROVE JarsOK'
  BY <1>1 DEF IInv, TypeOK, JarsOK, Grows
<1>2. ASSUME owner' = owner, parent' = parent PROVE RowsOK'
  BY <1>2 DEF IInv, TypeOK, RowsOK, Grows
<1>3. ASSUME parent' = parent, NEW t \in Tokens, parent[t] # NONE
      PROVE  /\ parent'[t] \in revoked'
             /\ owner'[parent'[t]] = owner'[t]
             /\ expires'[t] <= expires'[parent'[t]] + RefreshTTL + MaxLatency
  <2>1. parent[t] \in Tokens
    BY <1>3 DEF IInv, TypeOK
  <2>2. owner[t] # NONE /\ owner[parent[t]] = owner[t] /\ parent[t] \in revoked
        /\ expires[t] <= expires[parent[t]] + RefreshTTL + MaxLatency
    BY <1>3 DEF IInv, RowsOK, ExchangeIsSound
  <2> QED
    BY <1>3, <2>1, <2>2 DEF Grows
<1> QED
  BY <1>1, <1>2, <1>3 DEF ExchangeIsSound

LEMMA KeepsAccess ==
  ASSUME IInv, TypeOK', Grows, access' \subseteq access
  PROVE  AccessOK' /\ StaleRoleBound'
<1> SUFFICES ASSUME NEW a \in access'
             PROVE  /\ role'[a.user] # NONE /\ a.exp <= now' + AccessTTL
                    /\ a.role # role'[a.user] =>
                          a.exp <= roleChanged'[a.user] + AccessTTL + MaxLatency
  BY DEF AccessOK, StaleRoleBound
<1>1. a \in access /\ a.user \in Users /\ a.exp \in Nat
  BY DEF IInv, TypeOK, AccessToken
<1>2. role[a.user] # NONE /\ a.exp <= now + AccessTTL
  BY <1>1 DEF IInv, AccessOK
<1>3. a.role # role[a.user] => a.exp <= roleChanged[a.user] + AccessTTL + MaxLatency
  BY <1>1 DEF IInv, StaleRoleBound
<1>4. /\ now \in Nat /\ now' \in Nat /\ now <= now'
      /\ roleChanged[a.user] \in Nat /\ roleChanged'[a.user] \in {roleChanged[a.user], now}
      /\ role'[a.user] # NONE
      /\ role'[a.user] # role[a.user] => roleChanged'[a.user] = now
  BY <1>1, <1>2 DEF IInv, TypeOK, Grows
<1> QED
  BY <1>2, <1>3, <1>4, <1>1, TimeAssumption

\* What another slot knows stays true.
LEMMA KeepsJob ==
  ASSUME IInv, TypeOK', Grows, NEW s \in Slots, pc[s] # "idle",
         pc'[s] = pc[s], job'[s] = job[s], now' <= job[s].since + MaxLatency
  PROVE  JobOK(s)'
<1>1. JobOK(s) /\ job[s] \in Job
  BY DEF IInv, JobsOK, TypeOK
<1>2. Presented(s) => Presented(s)' /\ owner'[job[s].cookie] = owner[job[s].cookie]
                      /\ expires'[job[s].cookie] = expires[job[s].cookie]
  BY DEF Presented, Grows
<1>3. RoleRead(s) => RoleRead(s)'
  <2> SUFFICES ASSUME RoleRead(s) PROVE RoleRead(s)'
    OBVIOUS
  <2>1. /\ now \in Nat /\ job[s].since \in Nat /\ job[s].since <= now
        /\ job[s].user \in Users
        /\ roleChanged[job[s].user] \in Nat
    BY <1>1 DEF IInv, TypeOK, Job, JobOK, RoleRead
  <2> QED
    BY <2>1 DEF RoleRead, Grows
<1>4. Presented(s) /\ WasGood(s) => WasGood(s)'
  BY <1>2 DEF WasGood
<1>5. Signed(s) => Signed(s)'
  <2>1. now \in Nat /\ now' \in Nat /\ now <= now' /\ job[s].exp \in Nat
    BY <1>1 DEF IInv, TypeOK, Job, Grows
  <2> QED
    BY <2>1, TimeAssumption DEF Signed, Grows
<1>6. job[s].cookie \in revoked => job[s].cookie \in revoked'
  BY DEF Grows
<1>7. faults' = 0 => faults = 0
  BY DEF IInv, TypeOK, Grows
<1>8. Presented(s) /\ IsExpired(job[s].cookie) => IsExpired(job[s].cookie)'
  <2>1. Presented(s) => expires[job[s].cookie] \in Nat
    BY DEF IInv, TypeOK, Presented
  <2>2. now \in Nat /\ now' \in Nat /\ now <= now'
    BY DEF IInv, TypeOK, Grows
  <2> QED
    BY <1>2, <2>1, <2>2 DEF IsExpired
<1>9. job[s].since <= now'
  BY <1>1 DEF IInv, TypeOK, Job, JobOK, Grows
<1> QED
  BY <1>1, <1>2, <1>3, <1>4, <1>5, <1>6, <1>7, <1>8, <1>9 DEF JobOK, IsRevoked

\* A step of slot s, as far as the other slots are concerned.
LEMMA OneSlotMoves ==
  ASSUME IInv, TypeOK', Grows, NEW s \in Slots, now' = now,
         \A z \in Slots \ {s} : pc'[z] = pc[z] /\ job'[z] = job[z],
         pc'[s] # "idle" => JobOK(s)'
  PROVE  JobsOK'
<1> SUFFICES ASSUME NEW z \in Slots, pc'[z] # "idle" PROVE JobOK(z)'
  BY DEF JobsOK
<1>1. CASE z = s
  BY <1>1
<1>2. CASE z # s
  <2>1. pc[z] # "idle" /\ pc'[z] = pc[z] /\ job'[z] = job[z]
    BY <1>2
  <2>2. now' <= job[z].since + MaxLatency
    BY <2>1 DEF IInv, JobsOK, JobOK
  <2> QED
    BY <2>1, <2>2, KeepsJob
<1> QED
  BY <1>1, <1>2
\* A step that neither adds a row of refresh_tokens nor answers a browser.
LEMMA QuietStep ==
  ASSUME IInv, TypeOK', Grows, JobsOK', UNCHANGED <<owner, parent, jar, access>>
  PROVE  IInv'
BY KeepsTokens, KeepsAccess DEF IInv

LEMMA NoJobType == NoJob \in Job
  BY DEF NoJob, Job

\* A row is added for a user who has one, for the token he presented, if any.
LEMMA InsertKeeps ==
  ASSUME IInv, TypeOK', Grows, NEW s \in Slots, NEW t \in Tokens, InsertToken(s, t),
         pc[s] = "issue", now' = now, UNCHANGED <<jar, access, role>>
  PROVE  RowsOK' /\ JarsOK' /\ AccessOK' /\ StaleRoleBound' /\ ExchangeIsSound'
<1>1. JobOK(s) /\ job[s] \in Job
  BY DEF IInv, JobsOK, TypeOK
<1>2. JarsOK' /\ AccessOK' /\ StaleRoleBound'
  BY KeepsTokens, KeepsAccess
<1> DEFINE u == job[s].user
           c == job[s].cookie
<1>3. u \in Users /\ role[u] # NONE /\ u # NONE
  BY <1>1, NoneAssumption DEF JobOK, RoleRead
<1>4. /\ owner[t] = NONE /\ owner'[t] = u /\ parent'[t] = c
      /\ expires'[t] = now + RefreshTTL
      /\ \A z \in Tokens \ {t} : /\ owner'[z] = owner[z] /\ parent'[z] = parent[z]
                                 /\ expires'[z] = expires[z]
      /\ revoked' = revoked
  BY DEF InsertToken, IInv, TypeOK
<1>5. RowsOK'
  BY <1>3, <1>4 DEF IInv, RowsOK
<1>6. c # NONE => /\ c \in Tokens \ {t} /\ c \in revoked /\ owner[c] = u
                  /\ job[s].since <= expires[c] /\ now <= job[s].since + MaxLatency
  BY <1>1, <1>4 DEF JobOK, Presented, WasGood
<1>7. ASSUME NEW z \in Tokens, parent'[z] # NONE
      PROVE  /\ parent'[z] \in revoked'
             /\ owner'[parent'[z]] = owner'[z]
             /\ expires'[z] <= expires'[parent'[z]] + RefreshTTL + MaxLatency
  <2>1. CASE z = t
    <3>1. c # NONE /\ parent'[z] = c /\ owner'[c] = owner[c] /\ expires'[c] = expires[c]
      BY <1>4, <1>6, <1>7, <2>1
    <3>2. now \in Nat /\ job[s].since \in Nat /\ expires[c] \in Nat
      BY <1>1, <1>6, <3>1 DEF IInv, TypeOK, Job
    <3>3. now + RefreshTTL <= expires[c] + RefreshTTL + MaxLatency
      BY <1>6, <3>1, <3>2, TimeAssumption
    <3> QED
      BY <1>4, <1>6, <2>1, <3>1, <3>3
  <2>2. CASE z # t
    <3>1. parent[z] # NONE /\ parent'[z] = parent[z] /\ parent[z] \in Tokens
      BY <1>4, <1>7, <2>2 DEF IInv, TypeOK
    <3>2. /\ owner[z] # NONE /\ owner[parent[z]] = owner[z] /\ parent[z] \in revoked
          /\ expires[z] <= expires[parent[z]] + RefreshTTL + MaxLatency
      BY <3>1 DEF IInv, RowsOK, ExchangeIsSound
    <3>3. parent[z] # t
      BY <1>4, <3>2
    <3> QED
      BY <1>4, <2>2, <3>1, <3>2, <3>3
  <2> QED
    BY <2>1, <2>2
<1> QED
  BY <1>2, <1>5, <1>7 DEF ExchangeIsSound

-----------------------------------------------------------------------------
(* The initial states and the steps. *)

LEMMA SessionsInit == Init => IInv
<1> SUFFICES ASSUME Init PROVE IInv
  OBVIOUS
<1>1. TypeOK
  BY NoJobType DEF Init, TypeOK
<1>2. RowsOK /\ JarsOK /\ AccessOK /\ JobsOK
  BY DEF Init, RowsOK, JarsOK, AccessOK, JobsOK
<1>3. ExchangeIsSound /\ StaleRoleBound
  BY DEF Init, ExchangeIsSound, StaleRoleBound
<1> QED
  BY <1>1, <1>2, <1>3 DEF IInv

LEMMA ArriveStep ==
  ASSUME IInv, NEW s \in Slots, NEW b \in Browsers, NEW u \in Users,
         SignUp(s, b, u) \/ Login(s, b, u) \/ Refresh(s, b) \/ Logout(s, b)
  PROVE  IInv'
<1>1. PICK l \in {"createUser", "getByEmail", "lookUp", "logout"}, j \in Job :
         /\ Arrive(s, l, j)
         /\ j.browser = b /\ j.reply = "keep"
         /\ l \in {"createUser", "getByEmail"} => j.user = u /\ j.cookie = NONE
         /\ l \in {"lookUp", "logout"} => j.cookie = jar[b] /\ jar[b] # NONE
  <2>1. CASE SignUp(s, b, u) \/ Login(s, b, u)
    <3>1. [NoJob EXCEPT !.browser = b, !.user = u] \in Job
      BY DEF NoJob, Job
    <3> QED
      BY <2>1, <3>1 DEF SignUp, Login, NoJob
  <2>2. CASE Refresh(s, b) \/ Logout(s, b)
    <3>1. [NoJob EXCEPT !.browser = b, !.cookie = jar[b]] \in Job
      BY DEF NoJob, Job, IInv, TypeOK
    <3> QED
      BY <2>2, <3>1 DEF Refresh, Logout, NoJob
  <2> QED
    BY <2>1, <2>2
<1> DEFINE k == [j EXCEPT !.since = now]
<1>2. k \in Job /\ k.since = now /\ k.browser = b /\ k.reply = "keep"
      /\ k.user = j.user /\ k.cookie = j.cookie
  BY <1>1 DEF Job, IInv, TypeOK
<1>3. /\ pc' = [pc EXCEPT ![s] = l] /\ job' = [job EXCEPT ![s] = k]
      /\ UNCHANGED <<role, roleChanged, owner, expires, revoked, parent, ended,
                     access, jar, now, faults>>
  BY <1>1 DEF Arrive, GoTo, users, table, client
<1>4. TypeOK'
  BY <1>2, <1>3 DEF IInv, TypeOK, Handling
<1>5. Grows
  BY <1>3 DEF Grows, IInv, TypeOK
<1>6. job'[s] = k /\ pc'[s] = l
  BY <1>3 DEF IInv, TypeOK
<1>7. now' = now /\ now <= now + MaxLatency /\ now <= now
  <2>1. now \in Nat
    BY DEF IInv, TypeOK
  <2> QED
    BY <1>3, <2>1, TimeAssumption
<1>8. l \in {"lookUp", "logout"} => k.cookie \in Tokens /\ owner[k.cookie] # NONE
  BY <1>1, <1>2 DEF IInv, TypeOK, JarsOK
<1> HIDE DEF k
<1>9. JobOK(s)'
  BY <1>1, <1>2, <1>3, <1>6, <1>7, <1>8 DEF JobOK, Presented
<1>10. JobsOK'
  <2>1. \A z \in Slots \ {s} : pc'[z] = pc[z] /\ job'[z] = job[z]
    BY <1>3 DEF IInv, TypeOK
  <2> QED
    BY <1>3, <1>4, <1>5, <1>9, <2>1, OneSlotMoves
<1> QED
  BY <1>3, <1>4, <1>5, <1>10, QuietStep

\* A step of one handler that does not add a row of refresh_tokens.
LEMMA HandlerStep ==
  ASSUME IInv, NEW s \in Slots, NEW l \in Handling \cup {"idle"}, NEW k \in Job,
         pc' = [pc EXCEPT ![s] = l], job' = [job EXCEPT ![s] = k],
         TypeOK', Grows, now' = now, UNCHANGED <<owner, parent, jar, access>>,
         pc'[s] = l /\ job'[s] = k /\ l # "idle" => JobOK(s)'
  PROVE  IInv'
<1>1. pc'[s] = l /\ job'[s] = k /\ \A z \in Slots \ {s} : pc'[z] = pc[z] /\ job'[z] = job[z]
  BY DEF IInv, TypeOK
<1>2. JobsOK'
  BY <1>1, OneSlotMoves
<1> QED
  BY <1>2, QuietStep

\* What s knows, in one place for the steps below.
LEMMA Known ==
  ASSUME IInv, NEW s \in Slots, pc[s] # "idle"
  PROVE  JobOK(s) /\ job[s] \in Job /\ now \in Nat /\ job[s].since \in Nat
BY DEF IInv, JobsOK, TypeOK, Job

LEMMA CreateUserStep ==
  ASSUME IInv, NEW s \in Slots, CreateUser(s)
  PROVE  IInv'
<1> DEFINE u == job[s].user
<1>1. /\ JobOK(s) /\ job[s] \in Job /\ pc[s] = "createUser"
      /\ u \in Users /\ job[s].cookie = NONE /\ job[s].reply = "keep"
  BY Known DEF CreateUser, JobOK
<1>2. UNCHANGED <<roleChanged, owner, expires, revoked, parent, ended, access, jar, now, faults>>
  BY DEF CreateUser, table, client
<1>3. CASE role[u] = NONE
  <2> DEFINE k == [job[s] EXCEPT !.role = "customer"]
  <2>1. k \in Job /\ k.role = "customer" /\ k.user = u /\ k.cookie = NONE
        /\ k.browser = job[s].browser /\ k.since = job[s].since
    BY <1>1 DEF Job, Roles
  <2>2. /\ role' = [role EXCEPT ![u] = "customer"]
        /\ job' = [job EXCEPT ![s] = k] /\ pc' = [pc EXCEPT ![s] = "issue"]
    BY <1>3 DEF CreateUser, GoTo
  <2>3. TypeOK'
    BY <1>1, <1>2, <2>1, <2>2 DEF IInv, TypeOK, Roles, Handling
  <2>4. Grows
    BY <1>2, <1>3, <2>2, NoneAssumption DEF Grows, IInv, TypeOK, Roles
  <2>5. role'[u] = "customer" /\ "customer" # NONE
    BY <1>1, <1>3, <2>2, NoneAssumption DEF IInv, TypeOK, Roles
  <2>6. ASSUME pc'[s] = "issue", job'[s] = k PROVE JobOK(s)'
    BY <1>1, <1>2, <2>1, <2>5, <2>6 DEF JobOK, RoleRead, Roles
  <2> HIDE DEF k
  <2> QED
    BY <1>2, <2>1, <2>2, <2>3, <2>4, <2>6, HandlerStep DEF Handling
<1>4. CASE role[u] # NONE
  <2>1. /\ role' = role /\ job' = [job EXCEPT ![s] = job[s]]
        /\ pc' = [pc EXCEPT ![s] = "respond"]
    BY <1>4 DEF CreateUser, Reply, GoTo
  <2>2. TypeOK' /\ Grows
    BY <1>1, <1>2, <2>1 DEF IInv, TypeOK, Handling, Grows
  <2>3. ASSUME pc'[s] = "respond", job'[s] = job[s] PROVE JobOK(s)'
    BY <1>1, <1>2, <2>3 DEF JobOK
  <2> QED
    BY <1>1, <1>2, <2>1, <2>2, <2>3, HandlerStep DEF Handling
<1> QED
  BY <1>3, <1>4

LEMMA GetByEmailStep ==
  ASSUME IInv, NEW s \in Slots, GetByEmail(s)
  PROVE  IInv'
<1> DEFINE u == job[s].user
<1>1. /\ JobOK(s) /\ job[s] \in Job /\ pc[s] = "getByEmail"
      /\ u \in Users /\ job[s].cookie = NONE /\ job[s].reply = "keep"
      /\ now \in Nat /\ job[s].since \in Nat
  BY Known DEF GetByEmail, JobOK
<1>2. UNCHANGED <<role, roleChanged, owner, expires, revoked, parent, ended,
                  access, jar, now, faults>>
  BY DEF GetByEmail, users, table, client
<1>3. CASE UserFound(u) /\ job' = [job EXCEPT ![s].role = role[u]] /\ GoTo(s, "issue")
  <2> DEFINE k == [job[s] EXCEPT !.role = role[u]]
  <2>1. /\ role[u] # NONE /\ role[u] \in Roles
        /\ k \in Job /\ k.role = role[u] /\ k.user = u /\ k.cookie = NONE
        /\ k.browser = job[s].browser /\ k.since = job[s].since
    BY <1>1, <1>3 DEF Job, IInv, TypeOK, UserFound
  <2>2. job' = [job EXCEPT ![s] = k] /\ pc' = [pc EXCEPT ![s] = "issue"]
    BY <1>3 DEF GoTo
  <2> HIDE DEF k
  <2>3. TypeOK' /\ Grows
    BY <1>2, <2>1, <2>2 DEF IInv, TypeOK, Handling, Grows
  <2>4. ASSUME pc'[s] = "issue", job'[s] = k PROVE JobOK(s)'
    BY <1>1, <1>2, <2>1, <2>4 DEF JobOK, RoleRead
  <2> QED
    BY <1>2, <2>1, <2>2, <2>3, <2>4, HandlerStep DEF Handling
<1>4. CASE Reply(s, job[s])
  <2>1. job' = [job EXCEPT ![s] = job[s]] /\ pc' = [pc EXCEPT ![s] = "respond"]
    BY <1>4 DEF Reply, GoTo
  <2>2. TypeOK' /\ Grows
    BY <1>1, <1>2, <2>1 DEF IInv, TypeOK, Handling, Grows
  <2>3. ASSUME pc'[s] = "respond", job'[s] = job[s] PROVE JobOK(s)'
    BY <1>1, <1>2, <2>3 DEF JobOK
  <2> QED
    BY <1>1, <1>2, <2>1, <2>2, <2>3, HandlerStep DEF Handling
<1> QED
  BY <1>3, <1>4 DEF GetByEmail

LEMMA LookUpStep ==
  ASSUME IInv, NEW s \in Slots, LookUp(s)
  PROVE  IInv'
<1> DEFINE t == job[s].cookie
           dead == IsRevoked(t) \/ IsExpired(t)
           k == [job[s] EXCEPT !.user = owner[t], !.reply = IF dead THEN "clear" ELSE @]
           l == IF IsRevoked(t) THEN "revokeAll" ELSE IF IsExpired(t) THEN "respond" ELSE "getByID"
<1>1. /\ JobOK(s) /\ job[s] \in Job /\ pc[s] = "lookUp"
      /\ Presented(s) /\ job[s].reply = "keep"
      /\ now \in Nat /\ job[s].since \in Nat
  BY Known DEF LookUp, JobOK
<1>2. /\ job' = [job EXCEPT ![s] = k] /\ pc' = [pc EXCEPT ![s] = l]
      /\ UNCHANGED <<role, roleChanged, owner, expires, revoked, parent, ended,
                     access, jar, now, faults>>
  BY DEF LookUp, GoTo, users, table, client
<1>3. /\ k \in Job /\ k.user = owner[t] /\ k.cookie = t
      /\ k.browser = job[s].browser /\ k.since = job[s].since
      /\ k.reply = IF dead THEN "clear" ELSE "keep"
  BY <1>1 DEF Job, IInv, TypeOK, Presented
<1>4. l \in Handling /\ l \in {"revokeAll", "respond", "getByID"}
      /\ (l = "revokeAll" => IsRevoked(t))
      /\ (l = "respond" => IsExpired(t) /\ ~IsRevoked(t))
      /\ (l = "getByID" => ~IsExpired(t) /\ ~IsRevoked(t))
  BY DEF Handling
<1>5. ~IsExpired(t) => job[s].since <= expires[t]
  <2>1. job[s].since <= now /\ expires[t] \in Nat
    BY <1>1 DEF JobOK, Presented, IInv, TypeOK
  <2> QED
    BY <1>1, <2>1 DEF IsExpired
<1> HIDE DEF k, l
<1>6. TypeOK' /\ Grows
  BY <1>1, <1>2, <1>3, <1>4 DEF IInv, TypeOK, Grows
<1>7. ASSUME pc'[s] = l, job'[s] = k PROVE JobOK(s)'
  BY <1>1, <1>2, <1>3, <1>4, <1>5, <1>7
     DEF JobOK, Presented, WasGood, IsRevoked, IsExpired
<1> QED
  BY <1>2, <1>3, <1>4, <1>6, <1>7, HandlerStep

LEMMA RevokeAllStep ==
  ASSUME IInv, NEW s \in Slots, RevokeAll(s)
  PROVE  IInv'
<1>1. /\ JobOK(s) /\ job[s] \in Job /\ pc[s] = "revokeAll"
      /\ Presented(s) /\ job[s].reply = "clear" /\ job[s].cookie \in revoked
  BY Known DEF RevokeAll, JobOK
<1>2. /\ job' = [job EXCEPT ![s] = job[s]] /\ pc' = [pc EXCEPT ![s] = "respond"]
      /\ revoked' = revoked \cup TokensOf(job[s].user)
      /\ ended' = ended \cup TokensOf(job[s].user)
      /\ UNCHANGED <<role, roleChanged, owner, expires, parent, access, jar, now, faults>>
  BY DEF RevokeAll, GoTo, users, client, IInv, TypeOK
<1>3. TypeOK' /\ Grows
  BY <1>1, <1>2 DEF IInv, TypeOK, Handling, TokensOf, Grows
<1>4. ASSUME pc'[s] = "respond", job'[s] = job[s] PROVE JobOK(s)'
  BY <1>1, <1>2, <1>4 DEF JobOK, Presented, IsRevoked
<1> QED
  BY <1>1, <1>2, <1>3, <1>4, HandlerStep DEF Handling

LEMMA GetByIDStep ==
  ASSUME IInv, NEW s \in Slots, GetByID(s)
  PROVE  IInv'
<1> DEFINE u == job[s].user
           k == [job[s] EXCEPT !.role = role[u]]
<1>1. /\ JobOK(s) /\ job[s] \in Job /\ pc[s] = "getByID"
      /\ Presented(s) /\ WasGood(s) /\ u = owner[job[s].cookie]
  BY Known DEF GetByID, JobOK
<1>2. /\ job' = [job EXCEPT ![s] = k] /\ pc' = [pc EXCEPT ![s] = "revoke"]
      /\ UNCHANGED <<role, roleChanged, owner, expires, revoked, parent, ended,
                     access, jar, now, faults>>
  BY DEF GetByID, GoTo, users, table, client
<1>3. u \in Users /\ role[u] # NONE /\ role[u] \in Roles
  BY <1>1 DEF Presented, IInv, TypeOK, RowsOK
<1>4. /\ k \in Job /\ k.role = role[u] /\ k.user = u /\ k.cookie = job[s].cookie
      /\ k.browser = job[s].browser /\ k.since = job[s].since
  BY <1>1, <1>3 DEF Job
<1> HIDE DEF k
<1>5. TypeOK' /\ Grows
  BY <1>2, <1>4 DEF IInv, TypeOK, Handling, Grows
<1>6. ASSUME pc'[s] = "revoke", job'[s] = k PROVE JobOK(s)'
  BY <1>1, <1>2, <1>3, <1>4, <1>6 DEF JobOK, Presented, WasGood, RoleRead
<1> QED
  BY <1>2, <1>4, <1>5, <1>6, HandlerStep DEF Handling

LEMMA RevokeStep ==
  ASSUME IInv, NEW s \in Slots, Revoke(s)
  PROVE  IInv'
<1>1. /\ JobOK(s) /\ job[s] \in Job /\ pc[s] = "revoke" /\ Presented(s)
      /\ WasGood(s) /\ RoleRead(s) /\ job[s].user = owner[job[s].cookie]
  BY Known DEF Revoke, JobOK
<1>2. /\ job' = [job EXCEPT ![s] = job[s]] /\ pc' = [pc EXCEPT ![s] = "issue"]
      /\ revoked' = revoked \cup {job[s].cookie}
      /\ UNCHANGED <<role, roleChanged, owner, expires, parent, ended,
                     access, jar, now, faults>>
  BY DEF Revoke, GoTo, users, client, IInv, TypeOK
<1>3. TypeOK' /\ Grows
  BY <1>1, <1>2 DEF IInv, TypeOK, Handling, Presented, Grows
<1>4. ASSUME pc'[s] = "issue", job'[s] = job[s] PROVE JobOK(s)'
  BY <1>1, <1>2, <1>4 DEF JobOK, Presented, WasGood, RoleRead
<1> QED
  BY <1>1, <1>2, <1>3, <1>4, HandlerStep DEF Handling

LEMMA LogoutStep ==
  ASSUME IInv, NEW s \in Slots, LogoutRevoke(s)
  PROVE  IInv'
<1> DEFINE k == [job[s] EXCEPT !.reply = "clear"]
<1>1. JobOK(s) /\ job[s] \in Job /\ pc[s] = "logout" /\ Presented(s)
  BY Known DEF LogoutRevoke, JobOK
<1>2. /\ job' = [job EXCEPT ![s] = k] /\ pc' = [pc EXCEPT ![s] = "respond"]
      /\ revoked' = revoked \cup {job[s].cookie}
      /\ ended' = IF IsRevoked(job[s].cookie) THEN ended ELSE ended \cup {job[s].cookie}
      /\ UNCHANGED <<role, roleChanged, owner, expires, parent, access, jar, now, faults>>
  BY DEF LogoutRevoke, Reply, GoTo, users, client
<1>3. /\ k \in Job /\ k.reply = "clear" /\ k.cookie = job[s].cookie
      /\ k.browser = job[s].browser /\ k.since = job[s].since
  BY <1>1 DEF Job
<1> HIDE DEF k
<1>4. TypeOK' /\ Grows
  BY <1>1, <1>2, <1>3 DEF IInv, TypeOK, Handling, Presented, Grows
<1>5. ASSUME pc'[s] = "respond", job'[s] = k PROVE JobOK(s)'
  BY <1>1, <1>2, <1>3, <1>5 DEF JobOK, Presented, IsRevoked
<1> QED
  BY <1>2, <1>3, <1>4, <1>5, HandlerStep DEF Handling

\* The row issueResult adds is well-formed and new.
LEMMA InsertTypes ==
  ASSUME IInv, NEW s \in Slots, NEW t \in Tokens, InsertToken(s, t), pc[s] = "issue"
  PROVE  /\ owner' \in [Tokens -> Users \cup {NONE}] /\ expires' \in [Tokens -> Nat]
         /\ parent' \in [Tokens -> Tokens \cup {NONE}]
         /\ revoked' \subseteq Tokens /\ ended' \subseteq Tokens
         /\ revoked \subseteq revoked' /\ owner'[t] # NONE
         /\ \A z \in Tokens : owner[z] # NONE =>
               owner'[z] = owner[z] /\ expires'[z] = expires[z]
<1>1. JobOK(s) /\ job[s] \in Job /\ now \in Nat
  BY Known
<1>2. job[s].user \in Users /\ job[s].user # NONE /\ job[s].cookie \in Tokens \cup {NONE}
  BY <1>1, NoneAssumption DEF JobOK, RoleRead, Job
<1>3. now + RefreshTTL \in Nat
  BY <1>1, TimeAssumption
<1> QED
  BY <1>2, <1>3 DEF InsertToken, IInv, TypeOK

LEMMA IssueStep ==
  ASSUME IInv, NEW s \in Slots, Issue(s)
  PROVE  IInv'
<1>1. /\ JobOK(s) /\ job[s] \in Job /\ pc[s] = "issue" /\ RoleRead(s)
      /\ now \in Nat /\ job[s].since \in Nat /\ now <= job[s].since + MaxLatency
  BY Known DEF Issue, JobOK
<1>2. PICK t \in Tokens : InsertToken(s, t) /\
         Reply(s, [job[s] EXCEPT !.issued = t, !.exp = AccessExpiry, !.reply = "session"])
  BY DEF Issue
<1> DEFINE k == [job[s] EXCEPT !.issued = t, !.exp = AccessExpiry, !.reply = "session"]
<1>3. AccessExpiry \in Nat /\ AccessExpiry = now + AccessTTL
  BY <1>1, TimeAssumption DEF AccessExpiry
<1>4. /\ k \in Job /\ k.issued = t /\ k.exp = now + AccessTTL /\ k.reply = "session"
      /\ k.user = job[s].user /\ k.role = job[s].role
      /\ k.browser = job[s].browser /\ k.since = job[s].since
  BY <1>1, <1>3 DEF Job
<1>5. /\ job' = [job EXCEPT ![s] = k] /\ pc' = [pc EXCEPT ![s] = "respond"]
      /\ UNCHANGED <<role, roleChanged, access, jar, now, faults>>
  BY <1>2 DEF Issue, Reply, GoTo, users, client
<1> HIDE DEF k
<1>6. TypeOK'
  BY <1>2, <1>1, <1>4, <1>5, InsertTypes DEF IInv, TypeOK, Handling
<1>7. Grows
  BY <1>2, <1>1, <1>5, InsertTypes DEF IInv, TypeOK, Grows
<1>8. job'[s] = k /\ pc'[s] = "respond"
      /\ \A z \in Slots \ {s} : pc'[z] = pc[z] /\ job'[z] = job[z]
  BY <1>5 DEF IInv, TypeOK
<1>9. JobOK(s)'
  <2>1. owner'[t] # NONE
    BY <1>1, <1>2, InsertTypes
  <2>2. now + AccessTTL <= job[s].since + MaxLatency + AccessTTL
    BY <1>1, TimeAssumption
  <2>3. Signed(s)'
    BY <1>1, <1>4, <1>5, <1>8, <2>1, <2>2, TimeAssumption DEF Signed
  <2>4. RoleRead(s)'
    BY <1>1, <1>4, <1>5, <1>8 DEF RoleRead
  <2> QED
    BY <1>1, <1>4, <1>5, <1>8, <2>3, <2>4 DEF JobOK
<1>10. JobsOK'
  BY <1>5, <1>6, <1>7, <1>8, <1>9, OneSlotMoves
<1> QED
  BY <1>1, <1>2, <1>5, <1>6, <1>7, <1>10, InsertKeeps DEF IInv

LEMMA StatementFailsStep ==
  ASSUME IInv, NEW s \in Slots, StatementFails(s)
  PROVE  IInv'
<1> DEFINE k == [job[s] EXCEPT !.reply = IF job[s].cookie = NONE THEN "keep" ELSE "clear"]
<1>1. /\ JobOK(s) /\ job[s] \in Job /\ pc[s] \in Handling \ {"respond"} /\ pc[s] # "idle"
      /\ now \in Nat /\ faults \in Nat
  <2>1. pc[s] \in Handling \ {"respond"} /\ pc[s] # "idle"
    BY DEF StatementFails, Handling
  <2> QED
    BY <2>1, Known DEF IInv, TypeOK
<1>2. /\ job' = [job EXCEPT ![s] = k] /\ pc' = [pc EXCEPT ![s] = "respond"]
      /\ UNCHANGED <<roleChanged, access, jar, now>> /\ faults' = faults + 1
  BY DEF StatementFails, Reply, GoTo, Fault, client
<1>3. /\ k \in Job /\ k.reply # "session"
      /\ k.browser = job[s].browser /\ k.since = job[s].since
  BY <1>1 DEF Job
<1> HIDE DEF k
<1>4. faults' \in Nat /\ faults' # 0 /\ faults <= faults'
  BY <1>1, <1>2
<1>5. ASSUME pc'[s] = "respond", job'[s] = k PROVE JobOK(s)'
  BY <1>1, <1>2, <1>3, <1>4, <1>5 DEF JobOK
<1>6. ASSUME UNCHANGED <<owner, expires, parent>>, revoked \subseteq revoked',
             revoked' \subseteq Tokens, ended' = ended,
             role' \in [Users -> Roles \cup {NONE}],
             \A u \in Users : role[u] # NONE => role'[u] = role[u]
      PROVE  IInv'
  <2>1. TypeOK'
    BY <1>2, <1>3, <1>4, <1>6 DEF IInv, TypeOK, Handling
  <2>2. Grows
    BY <1>1, <1>2, <1>4, <1>6 DEF IInv, TypeOK, Grows
  <2> QED
    BY <1>2, <1>3, <1>5, <1>6, <2>1, <2>2, HandlerStep DEF Handling
<1>7. CASE UNCHANGED <<role, table>>
  BY <1>6, <1>7 DEF table, IInv, TypeOK
<1>8. CASE /\ pc[s] = "createUser" /\ role[job[s].user] = NONE
           /\ role' = [role EXCEPT ![job[s].user] = "customer"]
           /\ UNCHANGED table
  BY <1>6, <1>8 DEF table, IInv, TypeOK, Roles
<1>9. CASE /\ pc[s] \in {"revoke", "logout"}
           /\ revoked' = revoked \cup {job[s].cookie}
           /\ UNCHANGED <<role, owner, expires, parent, ended>>
  <2>1. job[s].cookie \in Tokens
    BY <1>1, <1>9 DEF JobOK, Presented
  <2> QED
    BY <1>6, <1>9, <2>1 DEF IInv, TypeOK
<1>10. CASE /\ pc[s] = "revokeAll"
            /\ revoked' = revoked \cup TokensOf(job[s].user)
            /\ UNCHANGED <<role, owner, expires, parent, ended>>
  BY <1>6, <1>10 DEF IInv, TypeOK, TokensOf
<1>11. CASE pc[s] = "issue" /\ (\E t \in Tokens : InsertToken(s, t)) /\ UNCHANGED role
  <2>1. PICK t \in Tokens : InsertToken(s, t)
    BY <1>11
  <2>2. TypeOK'
    BY <1>2, <1>3, <1>4, <1>11, <2>1, InsertTypes DEF IInv, TypeOK, Handling
  <2>3. Grows
    BY <1>1, <1>2, <1>4, <1>11, <2>1, InsertTypes DEF IInv, TypeOK, Grows
  <2>4. job'[s] = k /\ pc'[s] = "respond"
        /\ \A z \in Slots \ {s} : pc'[z] = pc[z] /\ job'[z] = job[z]
    BY <1>2 DEF IInv, TypeOK
  <2>5. JobsOK'
    BY <1>2, <1>5, <2>2, <2>3, <2>4, OneSlotMoves
  <2> QED
    BY <1>2, <1>11, <2>1, <2>2, <2>3, <2>5, InsertKeeps DEF IInv
<1> QED
  BY <1>7, <1>8, <1>9, <1>10, <1>11 DEF StatementFails, FailedWrite

LEMMA RespondStep ==
  ASSUME IInv, NEW s \in Slots, Respond(s)
  PROVE  IInv'
<1>1. JobOK(s) /\ job[s] \in Job /\ pc[s] = "respond" /\ job[s].browser \in Browsers
      /\ now \in Nat
  BY Known DEF Respond, JobOK
<1>2. /\ job' = [job EXCEPT ![s] = NoJob] /\ pc' = [pc EXCEPT ![s] = "idle"]
      /\ UNCHANGED <<role, roleChanged, owner, expires, revoked, parent, ended, now, faults>>
  BY DEF Respond, GoTo, users, table
<1>3. Grows
  BY <1>2 DEF Grows, IInv, TypeOK
<1>4. job'[s] = NoJob /\ pc'[s] = "idle"
      /\ \A z \in Slots \ {s} : pc'[z] = pc[z] /\ job'[z] = job[z]
  BY <1>2 DEF IInv, TypeOK
<1>5. CASE job[s].reply # "session"
  <2>1. access' = access /\ (jar' = jar \/ jar' = [jar EXCEPT ![job[s].browser] = NONE])
    BY <1>5 DEF Respond, client
  <2>2. TypeOK'
    BY <1>2, <2>1, NoJobType DEF IInv, TypeOK
  <2>3. JobsOK'
    BY <1>2, <1>3, <1>4, <2>2, OneSlotMoves
  <2>4. JarsOK'
    BY <1>2, <2>1 DEF IInv, TypeOK, JarsOK
  <2> QED
    BY <1>2, <1>3, <2>1, <2>2, <2>3, <2>4, KeepsTokens, KeepsAccess DEF IInv
<1>6. CASE job[s].reply = "session"
  <2> DEFINE a == [user |-> job[s].user, role |-> job[s].role, exp |-> job[s].exp]
  <2>1. RoleRead(s) /\ Signed(s)
    BY <1>1, <1>6 DEF JobOK
  <2>2. a \in AccessToken /\ a.user = job[s].user /\ a.role = job[s].role /\ a.exp = job[s].exp
    BY <1>1, <2>1 DEF AccessToken, RoleRead, Job
  <2>3. /\ jar' = [jar EXCEPT ![job[s].browser] = job[s].issued]
        /\ access' = {z \in access \cup {a} : now < z.exp}
    BY <1>6 DEF Respond, CookieSet
  <2> HIDE DEF a
  <2>4. TypeOK'
    BY <1>1, <1>2, <2>1, <2>2, <2>3, NoJobType DEF IInv, TypeOK, Signed
  <2>5. JobsOK'
    BY <1>2, <1>3, <1>4, <2>4, OneSlotMoves
  <2>6. JarsOK'
    BY <1>1, <1>2, <2>1, <2>3 DEF IInv, TypeOK, JarsOK, Signed
  <2>7. AccessOK'
    BY <1>2, <2>1, <2>2, <2>3 DEF IInv, AccessOK, RoleRead, Signed
  <2>8. a.role # role[a.user] => a.exp <= roleChanged[a.user] + AccessTTL + MaxLatency
    <3>1. job[s].role # role[job[s].user] => job[s].since <= roleChanged[job[s].user]
      BY <2>1 DEF RoleRead
    <3>2. job[s].exp <= job[s].since + MaxLatency + AccessTTL
      BY <2>1 DEF Signed
    <3>3. job[s].exp \in Nat /\ job[s].since \in Nat /\ roleChanged[job[s].user] \in Nat
      BY <1>1, <2>1 DEF Job, IInv, TypeOK, RoleRead
    <3> QED
      BY <2>2, <3>1, <3>2, <3>3, TimeAssumption
  <2>9. StaleRoleBound'
    BY <1>2, <2>3, <2>8 DEF IInv, StaleRoleBound
  <2> QED
    BY <1>2, <1>3, <2>4, <2>5, <2>6, <2>7, <2>9, KeepsTokens DEF IInv
<1> QED
  BY <1>5, <1>6

LEMMA RequestDiesStep ==
  ASSUME IInv, NEW s \in Slots, RequestDies(s)
  PROVE  IInv'
<1>1. /\ job' = [job EXCEPT ![s] = NoJob] /\ pc' = [pc EXCEPT ![s] = "idle"]
      /\ UNCHANGED <<role, roleChanged, owner, expires, revoked, parent, ended,
                     access, jar, now>>
      /\ faults' = faults + 1
  BY DEF RequestDies, GoTo, Fault, users, table, client
<1>2. TypeOK' /\ Grows
  BY <1>1, NoJobType DEF IInv, TypeOK, Grows
<1> QED
  BY <1>1, <1>2, NoJobType, HandlerStep

\* Nobody's handler moves: the owner, cmd/seedadmin, or time.
LEMMA OutsideStep ==
  ASSUME IInv, NEW u \in Users, ChangeRole(u) \/ SeedAdmin(u)
  PROVE  IInv'
<1>1. PICK x \in Roles : role' = [role EXCEPT ![u] = x]
  <2>1. \E x \in Roles : x # role[u]
    BY DEF Roles
  <2>2. (CHOOSE x \in Roles : x # role[u]) \in Roles
    BY <2>1
  <2> QED
    BY <2>2 DEF ChangeRole, SeedAdmin, Roles
<1>2. /\ roleChanged' = [roleChanged EXCEPT ![u] = now]
      /\ UNCHANGED <<owner, expires, revoked, parent, ended, access, jar, pc, job, now, faults>>
  BY DEF ChangeRole, SeedAdmin, table, client
<1>3. TypeOK'
  BY <1>1, <1>2 DEF IInv, TypeOK
<1>4. Grows
  BY <1>1, <1>2, NoneAssumption DEF IInv, TypeOK, Grows
<1>5. JobsOK'
  BY <1>2, <1>3, <1>4, KeepsJob DEF IInv, JobsOK, JobOK
<1> QED
  BY <1>2, <1>3, <1>4, <1>5, QuietStep

LEMMA TickStep ==
  ASSUME IInv, Tick
  PROVE  IInv'
<1>1. /\ UNCHANGED <<role, roleChanged, owner, expires, revoked, parent, ended,
                     jar, pc, job, faults>>
      /\ now' = now + 1 /\ access' \subseteq access
      /\ \A s \in Slots : pc[s] # "idle" => now < job[s].since + MaxLatency
  BY DEF Tick, users, table
<1>2. TypeOK' /\ Grows
  BY <1>1 DEF IInv, TypeOK, Grows
<1>3. JobsOK'
  <2> SUFFICES ASSUME NEW s \in Slots, pc[s] # "idle" PROVE JobOK(s)'
    BY <1>1 DEF JobsOK
  <2>1. now' <= job[s].since + MaxLatency
    <3>1. now \in Nat /\ job[s].since \in Nat
      BY Known
    <3> QED
      BY <1>1, <3>1, TimeAssumption
  <2> QED
    BY <1>1, <1>2, <2>1, KeepsJob
<1> QED
  BY <1>1, <1>2, <1>3, KeepsTokens, KeepsAccess DEF IInv

LEMMA SameStep ==
  ASSUME IInv, UNCHANGED vars
  PROVE  IInv'
<1>1. TypeOK' /\ Grows
  BY DEF vars, IInv, TypeOK, Grows
<1>2. JobsOK'
  BY <1>1, KeepsJob DEF vars, IInv, JobsOK, JobOK
<1> QED
  BY <1>1, <1>2, QuietStep DEF vars

LEMMA SessionsStep == IInv /\ [Next]_vars => IInv'
<1> SUFFICES ASSUME IInv, [Next]_vars PROVE IInv'
  OBVIOUS
<1>1. ASSUME NEW s \in Slots, NEW b \in Browsers, NEW u \in Users,
             SignUp(s, b, u) \/ Login(s, b, u)
      PROVE  IInv'
  BY <1>1, ArriveStep
<1>2. ASSUME NEW s \in Slots, NEW b \in Browsers, Refresh(s, b) \/ Logout(s, b)
      PROVE  IInv'
  \* Some user has signed up: b has a cookie, whose token has an owner.
  <2>1. owner[jar[b]] \in Users
    BY <1>2 DEF Refresh, Logout, IInv, TypeOK, JarsOK
  <2> QED
    BY <1>2, <2>1, ArriveStep
<1>3. ASSUME NEW s \in Slots,
             \/ CreateUser(s) \/ GetByEmail(s)
             \/ LookUp(s) \/ RevokeAll(s) \/ GetByID(s) \/ Revoke(s)
             \/ Issue(s) \/ LogoutRevoke(s) \/ Respond(s)
             \/ StatementFails(s) \/ RequestDies(s)
      PROVE  IInv'
  BY <1>3, CreateUserStep, GetByEmailStep, LookUpStep, RevokeAllStep, GetByIDStep,
     RevokeStep, IssueStep, LogoutStep, RespondStep, StatementFailsStep, RequestDiesStep
<1>4. ASSUME NEW u \in Users, ChangeRole(u) PROVE IInv'
  BY <1>4, OutsideStep
<1>5. CASE Tick \/ OutOfTokens \/ UNCHANGED vars
  BY <1>5, TickStep, SameStep DEF OutOfTokens
<1> QED
  BY <1>1, <1>2, <1>3, <1>4, <1>5 DEF Next

THEOREM SessionsInvariant == Spec => []IInv
  BY SessionsInit, SessionsStep, PTL DEF Spec

-----------------------------------------------------------------------------
(* What the runs check of Sessions, for every value of its constants. *)

\* Every reachable state of the session rules is well-formed; in particular
\* no token is ever issued to somebody who has no row in users.
THEOREM SessionsTypes == Spec => []TypeOK
<1>1. IInv => TypeOK
  BY DEF IInv
<1> QED
  BY <1>1, SessionsInvariant, PTL

\* However refreshes overlap: a new token is only ever issued for one that
\* is revoked by then, was its owner's, and had not expired when presented.
THEOREM ExchangesAreSound == Spec => []ExchangeIsSound
<1>1. IInv => ExchangeIsSound
  BY DEF IInv
<1> QED
  BY <1>1, SessionsInvariant, PTL

\* No access token claims a role its user lost longer than the token's life
\* and one request's time ago.
THEOREM StaleRolesExpire == Spec => []StaleRoleBound
<1>1. IInv => StaleRoleBound
  BY DEF IInv
<1> QED
  BY <1>1, SessionsInvariant, PTL

\* While no statement has failed, cookies are only cleared for a token that
\* is good for nothing any more.
THEOREM ClearedTokensAreDead == Spec => []ClearedIsDead
<1>1. IInv => ClearedIsDead
  BY DEF IInv, JobsOK, JobOK, ClearedIsDead
<1> QED
  BY <1>1, SessionsInvariant, PTL

-----------------------------------------------------------------------------
(* Who decides orders.  lastAdmin is in step with users.role, and whatever *)
(* claims to be an admin was one when its request read the row.            *)

\* s carries the claim that its user is an admin.
Claims(s) ==
    /\ \/ pc[s] \in {"revoke", "issue"}
       \/ pc[s] = "respond" /\ job[s].reply = "session"
    /\ job[s].role = "admin"

HistoryOK ==
    \A u \in Users :
        lastAdmin[u] <= now + 1 /\ (role[u] = "admin" => lastAdmin[u] = now + 1)

ClaimsOK ==
    \A s \in Slots : Claims(s) => job[s].since + 1 <= lastAdmin[job[s].user]

TokensClaim ==
    \A a \in access : a.role = "admin" =>
        /\ lastAdmin[a.user] > 0
        /\ a.exp + 1 <= lastAdmin[a.user] + AccessTTL + MaxLatency

DeedInTime ==
    deed # NONE =>
        /\ lastAdmin[deed.user] > 0
        /\ deed.since + 1 < lastAdmin[deed.user] + AccessTTL + MaxLatency
        /\ now <= deed.since + MaxLatency

AInv == IInv /\ DeedOK /\ HistoryOK /\ ClaimsOK /\ TokensClaim /\ DeedInTime

\* A claim is handed on within a request, or read from users.role.
LEMMA ClaimsAreRead ==
  ASSUME IInv, [Next]_vars, NEW s \in Slots, Claims(s)'
  PROVE  \/ Claims(s) /\ job'[s].user = job[s].user /\ job'[s].since = job[s].since
         \/ /\ job'[s].user \in Users /\ role[job'[s].user] = "admin"
            /\ job'[s].since = job[s].since /\ pc[s] # "idle"
<1> DEFINE Goal ==
       \/ Claims(s) /\ job'[s].user = job[s].user /\ job'[s].since = job[s].since
       \/ /\ job'[s].user \in Users /\ role[job'[s].user] = "admin"
          /\ job'[s].since = job[s].since /\ pc[s] # "idle"
<1> SUFFICES Goal
  OBVIOUS
<1>0. /\ job[s] \in Job /\ pc \in [Slots -> Handling \cup {"idle"}] /\ job \in [Slots -> Job]
      /\ (pc[s] \in {"getByEmail", "getByID"} => job[s].user \in Users)
      /\ (pc[s] \in {"createUser", "getByEmail"} => job[s].reply = "keep")
  <2>1. pc[s] = "getByEmail" => job[s].user \in Users
    BY Known DEF JobOK
  <2>2. pc[s] = "getByID" => job[s].user \in Users
    BY Known DEF JobOK, Presented, IInv, TypeOK
  <2>3. pc[s] \in {"createUser", "getByEmail"} => job[s].reply = "keep"
    BY Known DEF JobOK
  <2> QED
    BY <2>1, <2>2, <2>3 DEF IInv, TypeOK
<1>1. ASSUME pc'[s] = pc[s], job'[s] = job[s] PROVE Goal
  BY <1>1 DEF Claims
<1>2. ASSUME NEW z \in Slots, NEW l \in {"createUser", "getByEmail", "lookUp", "logout"},
             NEW j, Arrive(z, l, j)
      PROVE  Goal
  <2>1. CASE z = s
    <3>1. pc'[s] = l
      BY <1>0, <1>2, <2>1 DEF Arrive, GoTo
    <3> QED
      BY <3>1 DEF Claims
  <2>2. CASE z # s
    BY <1>0, <1>1, <1>2, <2>2 DEF Arrive, GoTo
  <2> QED
    BY <2>1, <2>2
<1>3. ASSUME NEW z \in Slots, CreateUser(z) \/ GetByEmail(z) PROVE Goal
  <2>1. CASE z # s
    BY <1>0, <1>1, <1>3, <2>1 DEF CreateUser, GetByEmail, Reply, GoTo
  <2>2. CASE z = s /\ CreateUser(s)
    <3>1. \/ job' = [job EXCEPT ![s].role = "customer"]
          \/ pc'[s] = "respond" /\ job'[s] = job[s]
      BY <1>0, <2>2 DEF CreateUser, Reply, GoTo
    <3> QED
      BY <1>0, <2>2, <3>1 DEF Claims, Job, CreateUser
  <2>3. CASE z = s /\ GetByEmail(s)
    <3>1. pc[s] = "getByEmail"
      BY <2>3 DEF GetByEmail
    <3>2. CASE pc'[s] = "respond" /\ job'[s] = job[s]
      BY <1>0, <3>1, <3>2 DEF Claims
    <3>3. CASE pc'[s] = "issue" /\ job' = [job EXCEPT ![s].role = role[job[s].user]]
      BY <1>0, <3>1, <3>3 DEF Claims, Job
    <3> QED
      BY <1>0, <2>3, <3>2, <3>3 DEF GetByEmail, Reply, GoTo
  <2> QED
    BY <1>3, <2>1, <2>2, <2>3
<1>4. ASSUME NEW z \in Slots, LookUp(z) \/ RevokeAll(z) \/ LogoutRevoke(z) PROVE Goal
  <2>1. CASE z # s
    BY <1>0, <1>1, <1>4, <2>1 DEF LookUp, RevokeAll, LogoutRevoke, Reply, GoTo
  <2>2. CASE z = s
    <3>1. pc'[s] \in {"revokeAll", "respond", "getByID"}
      BY <1>0, <1>4, <2>2 DEF LookUp, RevokeAll, LogoutRevoke, Reply, GoTo
    <3>2. pc'[s] = "respond" => job'[s].reply = "clear"
      <4>1. CASE LookUp(z)
        BY <1>0, <2>2, <4>1 DEF LookUp, GoTo, Job
      <4>2. CASE RevokeAll(z)
        <5>1. job[s].reply = "clear"
          BY <2>2, <4>2, Known DEF RevokeAll, JobOK
        <5> QED
          BY <4>2, <5>1 DEF RevokeAll
      <4>3. CASE LogoutRevoke(z)
        BY <1>0, <2>2, <4>3 DEF LogoutRevoke, Reply, Job
      <4> QED
        BY <1>4, <4>1, <4>2, <4>3
    <3> QED
      BY <3>1, <3>2 DEF Claims
  <2> QED
    BY <2>1, <2>2
<1>5. ASSUME NEW z \in Slots, GetByID(z) \/ Revoke(z) \/ Issue(z) PROVE Goal
  <2>1. CASE z # s
    BY <1>0, <1>1, <1>5, <2>1 DEF GetByID, Revoke, Issue, Reply, GoTo
  <2>2. CASE z = s /\ GetByID(s)
    BY <1>0, <2>2 DEF GetByID, GoTo, Claims, Job
  <2>3. CASE z = s /\ Revoke(s)
    BY <1>0, <2>3 DEF Revoke, GoTo, Claims
  <2>4. CASE z = s /\ Issue(s)
    <3>1. PICK t \in Tokens : job' = [job EXCEPT ![s] =
              [job[s] EXCEPT !.issued = t, !.exp = AccessExpiry, !.reply = "session"]]
      BY <2>4 DEF Issue, Reply
    <3> QED
      BY <1>0, <2>4, <3>1 DEF Issue, Claims, Job
  <2> QED
    BY <1>5, <2>1, <2>2, <2>3, <2>4
<1>6. ASSUME NEW z \in Slots, Respond(z) \/ StatementFails(z) \/ RequestDies(z) PROVE Goal
  <2>1. CASE z # s
    BY <1>0, <1>1, <1>6, <2>1 DEF Respond, StatementFails, RequestDies, Reply, GoTo
  <2>2. CASE z = s /\ (Respond(s) \/ RequestDies(s))
    <3>1. pc'[s] = "idle"
      BY <1>0, <2>2 DEF Respond, RequestDies, GoTo
    <3> QED
      BY <3>1 DEF Claims
  <2>3. CASE z = s /\ StatementFails(s)
    <3>1. pc'[s] = "respond" /\ job'[s].reply # "session"
      BY <1>0, <2>3 DEF StatementFails, Reply, GoTo, Job
    <3> QED
      BY <3>1 DEF Claims
  <2> QED
    BY <1>6, <2>1, <2>2, <2>3
<1>7. CASE (\E u \in Users : ChangeRole(u)) \/ Tick \/ OutOfTokens \/ UNCHANGED vars
  BY <1>1, <1>7 DEF ChangeRole, Tick, OutOfTokens, vars
<1>8. ASSUME NEW z \in Slots, NEW b \in Browsers, NEW u \in Users,
             SignUp(z, b, u) \/ Login(z, b, u) \/ Refresh(z, b) \/ Logout(z, b)
      PROVE  Goal
  BY <1>2, <1>8 DEF SignUp, Login, Refresh, Logout
<1>9. ASSUME NEW z \in Slots, NEW b \in Browsers, Refresh(z, b) \/ Logout(z, b)
      PROVE  Goal
  BY <1>2, <1>9 DEF Refresh, Logout
<1> HIDE DEF Goal
<1>10. CASE \E z \in Slots, b \in Browsers, u \in Users : SignUp(z, b, u) \/ Login(z, b, u)
  BY <1>8, <1>10
<1>11. CASE \E z \in Slots, b \in Browsers : Refresh(z, b) \/ Logout(z, b)
  BY <1>9, <1>11
<1>12. CASE \E z \in Slots :
               \/ CreateUser(z) \/ GetByEmail(z)
               \/ LookUp(z) \/ RevokeAll(z) \/ GetByID(z) \/ Revoke(z)
               \/ Issue(z) \/ LogoutRevoke(z) \/ Respond(z)
               \/ StatementFails(z) \/ RequestDies(z)
  BY <1>3, <1>4, <1>5, <1>6, <1>12
<1> QED
  BY <1>7, <1>10, <1>11, <1>12 DEF Next

\* Access tokens are handed out by handlers, with the claims they have read.
LEMMA AccessIsSigned ==
  ASSUME IInv, [Next]_vars, NEW a \in access', a \notin access
  PROVE  \E s \in Slots : /\ pc[s] = "respond" /\ job[s].reply = "session"
                          /\ a = [user |-> job[s].user, role |-> job[s].role, exp |-> job[s].exp]
<1>1. access' # access /\ ~(access' \subseteq access)
  OBVIOUS
<1>2. ~Tick
  BY <1>1 DEF Tick
<1>3. \E s \in Slots : Respond(s)
  BY <1>1, <1>2 DEF Next, vars, client, SignUp, Login, Refresh, Logout, Arrive, CreateUser,
     GetByEmail, LookUp, RevokeAll, GetByID, Revoke, Issue, LogoutRevoke, StatementFails,
     RequestDies, ChangeRole, OutOfTokens
<1> QED
  BY <1>1, <1>3 DEF Respond, client

\* The clock takes one tick at most.
LEMMA ClockTicks == [Next]_vars => now' = now \/ now' = now + 1
BY DEF Next, vars, SignUp, Login, Refresh, Logout, Arrive, CreateUser, GetByEmail, LookUp,
   RevokeAll, GetByID, Revoke, Issue, LogoutRevoke, Respond, StatementFails, RequestDies,
   ChangeRole, Tick, OutOfTokens

\* The sessions' part of a step keeps all that is said of admins.
LEMMA AdminsKept ==
  ASSUME AInv, IInv', Remember, now' = now \/ now' = now + 1,
         \A s \in Slots : Claims(s)' =>
            \/ Claims(s) /\ job'[s].user = job[s].user /\ job'[s].since = job[s].since
            \/ /\ job'[s].user \in Users /\ role[job'[s].user] = "admin"
               /\ job'[s].since = job[s].since /\ pc[s] # "idle",
         \A a \in access' : a \in access \/ \E s \in Slots :
            /\ pc[s] = "respond" /\ job[s].reply = "session"
            /\ a = [user |-> job[s].user, role |-> job[s].role, exp |-> job[s].exp]
  PROVE  /\ HistoryOK' /\ ClaimsOK' /\ TokensClaim'
         /\ lastAdmin' \in [Users -> Nat]
         /\ \A u \in Users : lastAdmin[u] <= lastAdmin'[u]
<1>1. now \in Nat /\ now' \in Nat /\ now <= now' /\ lastAdmin \in [Users -> Nat]
  BY DEF AInv, IInv, TypeOK, DeedOK
<1>2. \A u \in Users : /\ lastAdmin[u] <= lastAdmin'[u] /\ lastAdmin'[u] \in Nat
                       /\ lastAdmin'[u] <= now' + 1
                       /\ role'[u] = "admin" => lastAdmin'[u] = now' + 1
  <2> SUFFICES ASSUME NEW u \in Users
               PROVE  /\ lastAdmin[u] <= lastAdmin'[u] /\ lastAdmin'[u] \in Nat
                      /\ lastAdmin'[u] <= now' + 1
                      /\ role'[u] = "admin" => lastAdmin'[u] = now' + 1
    OBVIOUS
  <2>1. lastAdmin[u] \in Nat /\ lastAdmin[u] <= now + 1
    BY <1>1 DEF AInv, HistoryOK
  <2>2. lastAdmin'[u] = IF role'[u] = "admin" THEN now' + 1 ELSE lastAdmin[u]
    BY DEF Remember
  <2>3. CASE role'[u] = "admin"
    <3>1. lastAdmin'[u] = now' + 1
      BY <2>2, <2>3
    <3>2. now' + 1 \in Nat
      <4>1. \A n \in Nat : n + 1 \in Nat
        OBVIOUS
      <4> QED
        BY ONLY <1>1, <4>1
    <3>3. lastAdmin[u] <= now' + 1
      BY <1>1, <2>1
    <3> QED
      BY <3>1, <3>2, <3>3
  <2>4. CASE role'[u] # "admin"
    <3>1. lastAdmin'[u] = lastAdmin[u]
      BY <2>2, <2>4
    <3>2. lastAdmin[u] <= now' + 1
      BY <1>1, <2>1
    <3> QED
      BY <2>1, <2>4, <3>1, <3>2
  <2> QED
    BY <2>3, <2>4
<1>3. lastAdmin' \in [Users -> Nat]
  BY <1>2 DEF Remember
<1>4. ASSUME NEW s \in Slots, Claims(s)'
      PROVE  job'[s].since + 1 <= lastAdmin'[job'[s].user]
  <2>1. CASE Claims(s) /\ job'[s].user = job[s].user /\ job'[s].since = job[s].since
    <3>1. pc[s] # "idle" /\ RoleRead(s)
      <4>1. pc[s] # "idle"
        BY <2>1 DEF Claims
      <4> QED
        BY <2>1, <4>1, Known DEF AInv, Claims, JobOK
    <3>2. job[s].user \in Users /\ job[s].since \in Nat
      BY <3>1, Known DEF RoleRead, AInv
    <3>3. job[s].since + 1 <= lastAdmin[job[s].user]
      BY <2>1 DEF AInv, ClaimsOK
    <3> QED
      BY <1>1, <1>2, <2>1, <3>2, <3>3
  <2>2. CASE /\ job'[s].user \in Users /\ role[job'[s].user] = "admin"
             /\ job'[s].since = job[s].since /\ pc[s] # "idle"
    <3>1. job[s].since \in Nat /\ job[s].since <= now
      BY <2>2, Known DEF AInv, JobOK
    <3>2. lastAdmin[job'[s].user] = now + 1
      BY <2>2 DEF AInv, HistoryOK
    <3> QED
      BY <1>1, <1>2, <2>2, <3>1, <3>2
  <2> QED
    BY <1>4, <2>1, <2>2
<1>5. ASSUME NEW a \in access', a.role = "admin"
      PROVE  lastAdmin'[a.user] > 0 /\ a.exp + 1 <= lastAdmin'[a.user] + AccessTTL + MaxLatency
  <2>1. CASE a \in access
    <3>1. a.user \in Users /\ a.exp \in Nat
      BY <2>1 DEF AInv, IInv, TypeOK, AccessToken
    <3>2. lastAdmin[a.user] > 0 /\ a.exp + 1 <= lastAdmin[a.user] + AccessTTL + MaxLatency
      BY <1>5, <2>1 DEF AInv, TokensClaim
    <3> QED
      BY <1>1, <1>2, <3>1, <3>2, TimeAssumption
  <2>2. ASSUME NEW s \in Slots, pc[s] = "respond", job[s].reply = "session",
               a = [user |-> job[s].user, role |-> job[s].role, exp |-> job[s].exp]
        PROVE  lastAdmin'[a.user] > 0
               /\ a.exp + 1 <= lastAdmin'[a.user] + AccessTTL + MaxLatency
    <3>1. a.user = job[s].user /\ a.role = job[s].role /\ a.exp = job[s].exp
      BY <2>2
    <3>2. Claims(s)
      BY <1>5, <2>2, <3>1 DEF Claims
    <3>3. JobOK(s) /\ job[s] \in Job
      BY <2>2, Known DEF AInv
    <3>4. /\ job[s].user \in Users /\ job[s].since \in Nat /\ job[s].exp \in Nat
          /\ job[s].exp <= job[s].since + MaxLatency + AccessTTL
      BY <2>2, <3>3 DEF JobOK, RoleRead, Signed, Job
    <3>5. job[s].since + 1 <= lastAdmin[job[s].user]
      BY <3>2 DEF AInv, ClaimsOK
    <3> QED
      BY <1>1, <1>2, <3>1, <3>4, <3>5, TimeAssumption
  <2> QED
    BY <2>1, <2>2
<1> QED
  BY <1>2, <1>3, <1>4, <1>5 DEF HistoryOK, ClaimsOK, TokensClaim

LEMMA AccessInitially == AccessInit => AInv
<1> SUFFICES ASSUME AccessInit PROVE AInv
  OBVIOUS
<1>1. IInv
  BY SessionsInit DEF AccessInit
<1>2. DeedOK /\ DeedInTime
  BY DEF AccessInit, DeedOK, DeedInTime
<1>3. now = 0 /\ \A u \in Users : role[u] # "admin"
  BY NoneAssumption DEF AccessInit, Init, Roles
<1>4. HistoryOK
  BY <1>3 DEF AccessInit, HistoryOK
<1>5. ClaimsOK /\ TokensClaim
  BY DEF AccessInit, Init, ClaimsOK, Claims, TokensClaim
<1> QED
  BY <1>1, <1>2, <1>4, <1>5 DEF AInv

LEMMA AccessStep == AInv /\ [AccessNext]_accessVars => AInv'
<1> SUFFICES ASSUME AInv, [AccessNext]_accessVars PROVE AInv'
  OBVIOUS
<1>0. /\ now \in Nat /\ lastAdmin \in [Users -> Nat]
      /\ deed # NONE => deed \in [user: Users, since: Nat, stage: {"deciding", "decided"}]
  BY DEF AInv, IInv, TypeOK, DeedOK
\* deed is as it was, and not overtaken by time.
<1>1. ASSUME IInv', Remember, [Next]_vars \/ \E u \in Users : SeedAdmin(u),
             now' = now \/ now' = now + 1,
             deed # NONE /\ deed' # NONE => deed'.user = deed.user /\ deed'.since = deed.since,
             deed' \in [user: Users, since: Nat, stage: {"deciding", "decided"}] \cup {NONE},
             deed' # NONE => now' <= deed'.since + MaxLatency,
             deed = NONE /\ deed' # NONE =>
                /\ lastAdmin[deed'.user] > 0
                /\ deed'.since + 1 < lastAdmin[deed'.user] + AccessTTL + MaxLatency
      PROVE  AInv'
  <2>1. /\ HistoryOK' /\ ClaimsOK' /\ TokensClaim'
        /\ lastAdmin' \in [Users -> Nat]
        /\ \A u \in Users : lastAdmin[u] <= lastAdmin'[u]
    <3>1. CASE [Next]_vars
      <4>1. \A a \in access' : a \in access \/ \E s \in Slots :
              /\ pc[s] = "respond" /\ job[s].reply = "session"
              /\ a = [user |-> job[s].user, role |-> job[s].role, exp |-> job[s].exp]
        BY <3>1, AccessIsSigned DEF AInv
      <4>2. \A s \in Slots : Claims(s)' =>
              \/ Claims(s) /\ job'[s].user = job[s].user /\ job'[s].since = job[s].since
              \/ /\ job'[s].user \in Users /\ role[job'[s].user] = "admin"
                 /\ job'[s].since = job[s].since /\ pc[s] # "idle"
        BY <3>1, ClaimsAreRead DEF AInv
      <4> QED
        BY <1>1, <4>1, <4>2, AdminsKept
    <3>2. CASE \E u \in Users : SeedAdmin(u)
      <4>1. UNCHANGED <<access, pc, job, now>>
        BY <3>2 DEF SeedAdmin, client
      <4>2. \A s \in Slots : Claims(s)' => Claims(s)
        BY <4>1 DEF Claims
      <4> QED
        BY <1>1, <4>1, <4>2, AdminsKept
    <3> QED
      BY <1>1, <3>1, <3>2
  <2>2. DeedOK'
    BY <1>1, <2>1 DEF DeedOK
  <2>3. DeedInTime'
    <3> SUFFICES ASSUME deed' # NONE
                 PROVE  /\ lastAdmin'[deed'.user] > 0
                        /\ deed'.since + 1 < lastAdmin'[deed'.user] + AccessTTL + MaxLatency
      BY <1>1 DEF DeedInTime
    <3>1. deed'.user \in Users /\ deed'.since \in Nat
      BY <1>1
    <3>2. /\ lastAdmin[deed'.user] > 0
          /\ deed'.since + 1 < lastAdmin[deed'.user] + AccessTTL + MaxLatency
      BY <1>1 DEF AInv, DeedInTime
    <3> QED
      BY <1>0, <2>1, <3>1, <3>2, TimeAssumption
  <2> QED
    BY <1>1, <2>1, <2>2, <2>3 DEF AInv
<1>2. ASSUME SessionStep, Remember PROVE AInv'
  <2>1. IInv' /\ (now' = now \/ now' = now + 1) /\ deed' = deed
    BY <1>2, SessionsStep, ClockTicks DEF SessionStep, AInv
  <2>2. deed # NONE => now' <= deed.since + MaxLatency
    BY <1>0, <1>2, <2>1, TimeAssumption DEF SessionStep, AInv, DeedInTime
  <2> QED
    BY <1>0, <1>1, <1>2, <2>1, <2>2 DEF SessionStep
<1>3. ASSUME NEW u \in Users, SeedAdmin(u), Remember PROVE AInv'
  <2>1. IInv' /\ now' = now /\ deed' = deed
    BY <1>3, OutsideStep DEF SeedAdmin, AInv
  <2> QED
    BY <1>0, <1>1, <1>3, <2>1 DEF AInv, DeedInTime
<1>4. ASSUME NEW a \in access, Admit(a), Remember PROVE AInv'
  <2>1. IInv' /\ UNCHANGED vars /\ now' = now /\ deed = NONE
        /\ deed' = [user |-> a.user, since |-> now, stage |-> "deciding"]
    BY <1>4, SessionsStep DEF Admit, AInv, vars
  <2>2. a.role = "admin" /\ now < a.exp /\ a.user \in Users /\ a.exp \in Nat
    BY <1>4 DEF Admit, Authenticate, RequireRole, AInv, IInv, TypeOK, AccessToken
  <2>3. lastAdmin[a.user] > 0 /\ a.exp + 1 <= lastAdmin[a.user] + AccessTTL + MaxLatency
    BY <2>2 DEF AInv, TokensClaim
  <2>4. deed'.user = a.user /\ deed'.since = now
        /\ deed' \in [user: Users, since: Nat, stage: {"deciding", "decided"}]
    BY <1>0, <2>1, <2>2
  <2>5. now + 1 < lastAdmin[a.user] + AccessTTL + MaxLatency /\ now <= now + MaxLatency
    BY <1>0, <2>2, <2>3, TimeAssumption
  <2> QED
    BY <1>1, <1>4, <2>1, <2>3, <2>4, <2>5
<1>5. ASSUME Decide \/ EndDeed, Remember PROVE AInv'
  <2>1. IInv' /\ UNCHANGED vars /\ now' = now /\ deed # NONE
    BY <1>5, SessionsStep DEF Decide, EndDeed, AInv, vars
  <2>2. \/ deed' = NONE
        \/ deed' = [deed EXCEPT !.stage = "decided"]
    BY <1>5 DEF Decide, EndDeed
  <2>3. deed' # NONE =>
           /\ deed' \in [user: Users, since: Nat, stage: {"deciding", "decided"}]
           /\ deed'.user = deed.user /\ deed'.since = deed.since
    BY <1>0, <2>1, <2>2
  <2> QED
    BY <1>1, <1>5, <2>1, <2>3 DEF AInv, DeedInTime
<1>6. CASE UNCHANGED accessVars
  <2>1. IInv' /\ UNCHANGED vars /\ UNCHANGED <<deed, lastAdmin>>
    BY <1>6, SessionsStep DEF accessVars, AInv
  <2> QED
    BY <2>1 DEF vars, AInv, DeedOK, HistoryOK, ClaimsOK, Claims, TokensClaim, DeedInTime
<1> QED
  BY <1>2, <1>3, <1>4, <1>5, <1>6 DEF AccessNext

THEOREM AccessInvariant == AccessSpec => []AInv
  BY AccessInitially, AccessStep, PTL DEF AccessSpec

\* Whoever decides an order has been an admin less than the life of an access
\* token and two requests' time ago, whatever role he has now.
THEOREM DecidersWereAdmins == AccessSpec => []DecisionsByRecentAdmins
<1>1. ASSUME AInv PROVE DecisionsByRecentAdmins
  <2> SUFFICES ASSUME deed # NONE
               PROVE  /\ lastAdmin[deed.user] > 0
                      /\ now + 1 < lastAdmin[deed.user] + AccessTTL + 2 * MaxLatency
    BY DEF DecisionsByRecentAdmins
  <2>1. /\ deed.user \in Users /\ deed.since \in Nat /\ now \in Nat
        /\ lastAdmin[deed.user] \in Nat
    BY <1>1 DEF AInv, DeedOK, IInv, TypeOK
  <2> QED
    BY <1>1, <2>1, TimeAssumption DEF AInv, DeedInTime
<1> QED
  BY <1>1, AccessInvariant, PTL

-----------------------------------------------------------------------------
(* What a step does to the tokens, whatever else it does.  A step is one   *)
(* of Sessions or a new admin's row (SeedAdmin), so that what follows      *)
(* holds of either specification.                                          *)

Steps == Next \/ \E u \in Users : SeedAdmin(u)

TokensKept == UNCHANGED <<owner, parent, revoked, ended, jar>>

SameRequest(s) == job'[s].browser = job[s].browser /\ job'[s].cookie = job[s].cookie

Begins(s) ==
    /\ pc[s] = "idle" /\ TokensKept
    /\ \/ pc'[s] \in {"createUser", "getByEmail"} /\ job'[s].cookie = NONE
       \/ /\ pc'[s] \in {"lookUp", "logout"}
          /\ job'[s].cookie = jar[job'[s].browser] /\ job'[s].cookie # NONE

Reads(s) ==
    /\ TokensKept /\ SameRequest(s)
    /\ \/ /\ pc[s] \in {"createUser", "getByEmail"}
          /\ pc'[s] = "issue" \/ (pc'[s] = "respond" /\ job'[s].reply = "keep")
       \/ pc[s] = "lookUp" /\ pc'[s] = "revokeAll" /\ job[s].cookie \in revoked
       \/ /\ pc[s] = "lookUp" /\ job[s].cookie \notin revoked
          /\ pc'[s] = "getByID" \/ (pc'[s] = "respond" /\ job'[s].reply = "clear")
       \/ pc[s] = "getByID" /\ pc'[s] = "revoke"

Revokes(s) ==
    /\ SameRequest(s) /\ UNCHANGED <<owner, parent, jar>>
    /\ revoked' = revoked \cup {job[s].cookie}
    /\ \/ pc[s] = "revoke" /\ pc'[s] = "issue" /\ ended' = ended
       \/ /\ pc[s] = "logout" /\ pc'[s] = "respond" /\ job'[s].reply = "clear"
          /\ ended' \subseteq ended \cup {job[s].cookie}

RevokesAll(s) ==
    /\ pc[s] = "revokeAll" /\ pc'[s] = "respond"
    /\ UNCHANGED <<owner, parent, jar, job>>
    /\ revoked' = revoked \cup TokensOf(job[s].user)
    /\ ended' = ended \cup TokensOf(job[s].user)

Issues(s) ==
    /\ pc[s] = "issue" /\ pc'[s] = "respond" /\ SameRequest(s) /\ jar' = jar
    /\ job'[s].reply = "session" /\ job'[s].issued \in Tokens
    /\ InsertToken(s, job'[s].issued)

Answers(s) ==
    /\ pc[s] = "respond" /\ pc'[s] = "idle" /\ job'[s].cookie = NONE
    /\ UNCHANGED <<owner, parent, revoked, ended>>
    /\ \/ job[s].reply = "session" /\ jar' = [jar EXCEPT ![job[s].browser] = job[s].issued]
       \/ job[s].reply = "clear" /\ jar' = [jar EXCEPT ![job[s].browser] = NONE]
       \/ job[s].reply = "keep" /\ jar' = jar

Fails(s) ==
    /\ faults' # 0 /\ faults' # faults /\ pc'[s] # pc[s]
    /\ jar' = jar /\ ended' = ended /\ revoked \subseteq revoked'
    /\ \A t \in revoked' \ revoked :
          t = job[s].cookie \/ (pc[s] = "revokeAll" /\ owner[t] = job[s].user)
    /\ \/ UNCHANGED <<owner, parent>>
       \/ pc[s] = "issue" /\ \E c \in Tokens : InsertToken(s, c)
    /\ \/ pc'[s] = "idle" /\ job'[s].cookie = NONE
       \/ pc'[s] = "respond" /\ SameRequest(s) /\ job'[s].reply # "session"

Moves(s) ==
    /\ \A z \in Slots \ {s} : pc'[z] = pc[z] /\ job'[z] = job[z]
    /\ \/ /\ faults' = faults
          /\ \/ Begins(s) \/ Reads(s) \/ Revokes(s) \/ RevokesAll(s) \/ Issues(s) \/ Answers(s)
       \/ Fails(s)

Still == TokensKept /\ UNCHANGED <<pc, job, faults>>

\* What the step lemmas below need of a slot's state.
LEMMA SlotFacts ==
  ASSUME IInv, NEW s \in Slots
  PROVE  /\ pc \in [Slots -> Handling \cup {"idle"}] /\ job \in [Slots -> Job]
         /\ job[s] \in Job
         /\ pc[s] \in {"createUser", "getByEmail"} => job[s].reply = "keep"
BY Known DEF IInv, TypeOK, JobOK

LEMMA RequestArrives ==
  ASSUME IInv, NEW s \in Slots, NEW l \in {"createUser", "getByEmail", "lookUp", "logout"},
         NEW j \in Job, Arrive(s, l, j),
         l \in {"createUser", "getByEmail"} => j.cookie = NONE,
         l \in {"lookUp", "logout"} => j.cookie = jar[j.browser] /\ j.cookie # NONE
  PROVE  Moves(s)
<1>1. /\ pc[s] = "idle" /\ pc'[s] = l /\ job'[s] = [j EXCEPT !.since = now]
      /\ \A z \in Slots \ {s} : pc'[z] = pc[z] /\ job'[z] = job[z]
      /\ TokensKept /\ faults' = faults
  BY SlotFacts DEF Arrive, GoTo, table, client, TokensKept
<1>2. job'[s].browser = j.browser /\ job'[s].cookie = j.cookie
  BY <1>1 DEF Job
<1> QED
  BY <1>1, <1>2 DEF Moves, Begins

LEMMA SigningInBegins ==
  ASSUME IInv, NEW s \in Slots, NEW b \in Browsers, NEW u \in Users,
         SignUp(s, b, u) \/ Login(s, b, u)
  PROVE  Moves(s)
<1> DEFINE j == [NoJob EXCEPT !.browser = b, !.user = u]
<1>1. j \in Job /\ j.cookie = NONE
  BY NoJobType DEF NoJob, Job
<1>2. Arrive(s, "createUser", j) \/ Arrive(s, "getByEmail", j)
  BY DEF SignUp, Login
<1> HIDE DEF j
<1> QED
  BY <1>1, <1>2, RequestArrives

LEMMA CookieBegins ==
  ASSUME IInv, NEW s \in Slots, NEW b \in Browsers, Refresh(s, b) \/ Logout(s, b)
  PROVE  Moves(s)
<1> DEFINE j == [NoJob EXCEPT !.browser = b, !.cookie = jar[b]]
<1>1. jar[b] \in Tokens \cup {NONE}
  BY DEF IInv, TypeOK
<1>2. j \in Job /\ j.cookie = jar[j.browser] /\ j.cookie = jar[b]
  BY <1>1, NoJobType DEF NoJob, Job
<1>3. jar[b] # NONE /\ (Arrive(s, "lookUp", j) \/ Arrive(s, "logout", j))
  BY DEF Refresh, Logout
<1> HIDE DEF j
<1> QED
  BY <1>2, <1>3, RequestArrives

LEMMA RequestReads ==
  ASSUME IInv, NEW s \in Slots, CreateUser(s) \/ GetByEmail(s) \/ LookUp(s) \/ GetByID(s)
  PROVE  Moves(s)
<1>1. /\ \A z \in Slots \ {s} : pc'[z] = pc[z] /\ job'[z] = job[z]
      /\ TokensKept /\ faults' = faults
  BY SlotFacts DEF CreateUser, GetByEmail, LookUp, GetByID, Reply, GoTo, table, client, TokensKept
<1>2. SameRequest(s)
  BY SlotFacts DEF CreateUser, GetByEmail, LookUp, GetByID, Reply, SameRequest, Job
<1>3. CASE CreateUser(s) \/ GetByEmail(s)
  <2>1. /\ pc[s] \in {"createUser", "getByEmail"}
        /\ pc'[s] = "issue" \/ (pc'[s] = "respond" /\ job'[s] = job[s])
    BY <1>3, SlotFacts DEF CreateUser, GetByEmail, Reply, GoTo
  <2> QED
    BY <1>1, <1>2, <2>1, SlotFacts DEF Moves, Reads
<1>4. CASE LookUp(s)
  <2>1. pc[s] = "lookUp" /\ pc'[s] = IF job[s].cookie \in revoked THEN "revokeAll"
                                     ELSE IF IsExpired(job[s].cookie) THEN "respond" ELSE "getByID"
    BY <1>4, SlotFacts DEF LookUp, GoTo, IsRevoked
  <2>2. IsExpired(job[s].cookie) => job'[s].reply = "clear"
    BY <1>4, SlotFacts DEF LookUp, Job
  <2> QED
    BY <1>1, <1>2, <2>1, <2>2 DEF Moves, Reads
<1>5. CASE GetByID(s)
  BY <1>1, <1>2, <1>5, SlotFacts DEF GetByID, GoTo, Moves, Reads
<1> QED
  BY <1>3, <1>4, <1>5

LEMMA RequestRevokes ==
  ASSUME IInv, NEW s \in Slots, RevokeAll(s) \/ Revoke(s) \/ LogoutRevoke(s)
  PROVE  Moves(s)
<1>1. CASE RevokeAll(s)
  BY <1>1, SlotFacts DEF RevokeAll, GoTo, client, Moves, RevokesAll
<1>2. CASE Revoke(s)
  BY <1>2, SlotFacts DEF Revoke, GoTo, client, Moves, Revokes, SameRequest
<1>3. CASE LogoutRevoke(s)
  <2>1. /\ pc[s] = "logout" /\ pc'[s] = "respond" /\ job'[s].reply = "clear" /\ SameRequest(s)
        /\ \A z \in Slots \ {s} : pc'[z] = pc[z] /\ job'[z] = job[z]
    BY <1>3, SlotFacts DEF LogoutRevoke, Reply, GoTo, Job, SameRequest
  <2> QED
    BY <1>3, <2>1 DEF LogoutRevoke, client, Moves, Revokes
<1> QED
  BY <1>1, <1>2, <1>3

LEMMA RequestIssues ==
  ASSUME IInv, NEW s \in Slots, Issue(s)
  PROVE  Moves(s)
<1>1. pc[s] = "issue" /\ faults' = faults /\ jar' = jar
  BY DEF Issue, client
<1>2. PICK t \in Tokens : InsertToken(s, t) /\
         Reply(s, [job[s] EXCEPT !.issued = t, !.exp = AccessExpiry, !.reply = "session"])
  BY DEF Issue
<1> DEFINE k == [job[s] EXCEPT !.issued = t, !.exp = AccessExpiry, !.reply = "session"]
<1>3. k.reply = "session" /\ k.issued = t /\ k.browser = job[s].browser /\ k.cookie = job[s].cookie
  BY SlotFacts DEF Job
<1>4. job' = [job EXCEPT ![s] = k] /\ pc' = [pc EXCEPT ![s] = "respond"]
  BY <1>2 DEF Reply, GoTo
<1> HIDE DEF k
<1>5. /\ job'[s] = k /\ pc'[s] = "respond"
      /\ \A z \in Slots \ {s} : pc'[z] = pc[z] /\ job'[z] = job[z]
  BY <1>4, SlotFacts
<1> QED
  BY <1>1, <1>2, <1>3, <1>5 DEF Moves, Issues, SameRequest

LEMMA RequestEnds ==
  ASSUME IInv, NEW s \in Slots, Respond(s) \/ StatementFails(s) \/ RequestDies(s)
  PROVE  Moves(s)
<1>1. \A z \in Slots \ {s} : pc'[z] = pc[z] /\ job'[z] = job[z]
  BY SlotFacts DEF Respond, StatementFails, RequestDies, Reply, GoTo
<1>2. CASE Respond(s)
  BY <1>1, <1>2, SlotFacts DEF Respond, GoTo, CookieSet, client, table, NoJob, Moves, Answers
<1>3. CASE StatementFails(s) \/ RequestDies(s)
  <2>1. faults' # 0 /\ faults' # faults /\ jar' = jar /\ ended' = ended
    BY <1>3 DEF StatementFails, RequestDies, Fault, FailedWrite, InsertToken, client, table, IInv, TypeOK
  <2>2. /\ revoked \subseteq revoked'
        /\ \A t \in revoked' \ revoked :
              t = job[s].cookie \/ (pc[s] = "revokeAll" /\ owner[t] = job[s].user)
        /\ \/ UNCHANGED <<owner, parent>>
           \/ pc[s] = "issue" /\ \E c \in Tokens : InsertToken(s, c)
    <3>1. CASE RequestDies(s)
      BY <3>1 DEF RequestDies, table
    <3>2. CASE StatementFails(s)
      BY <3>2 DEF StatementFails, FailedWrite, InsertToken, TokensOf, table
    <3> QED
      BY <1>3, <3>1, <3>2
  <2>3. /\ pc'[s] # pc[s]
        /\ \/ pc'[s] = "idle" /\ job'[s].cookie = NONE
           \/ pc'[s] = "respond" /\ SameRequest(s) /\ job'[s].reply # "session"
    <3>1. CASE RequestDies(s)
      BY <3>1, SlotFacts DEF RequestDies, GoTo, NoJob
    <3>2. CASE StatementFails(s)
      <4>1. /\ pc[s] # "respond" /\ pc'[s] = "respond"
            /\ job'[s] = [job[s] EXCEPT !.reply = IF job[s].cookie = NONE THEN "keep" ELSE "clear"]
        BY <3>2, SlotFacts DEF StatementFails, Reply, GoTo
      <4> QED
        BY <4>1, SlotFacts DEF SameRequest, Job
    <3> QED
      BY <1>3, <3>1, <3>2
  <2> QED
    BY <1>1, <2>1, <2>2, <2>3 DEF Moves, Fails
<1> QED
  BY <1>2, <1>3

LEMMA StepShape ==
  ASSUME IInv, [Steps]_vars
  PROVE  (\E s \in Slots : Moves(s)) \/ Still
<1>1. CASE \/ \E s \in Slots, b \in Browsers, u \in Users : SignUp(s, b, u) \/ Login(s, b, u)
           \/ \E s \in Slots, b \in Browsers : Refresh(s, b) \/ Logout(s, b)
  BY <1>1, SigningInBegins, CookieBegins
<1>2. CASE \E s \in Slots :
               \/ CreateUser(s) \/ GetByEmail(s)
               \/ LookUp(s) \/ RevokeAll(s) \/ GetByID(s) \/ Revoke(s)
               \/ Issue(s) \/ LogoutRevoke(s) \/ Respond(s)
               \/ StatementFails(s) \/ RequestDies(s)
  BY <1>2, RequestReads, RequestRevokes, RequestIssues, RequestEnds
<1>3. CASE \/ \E u \in Users : ChangeRole(u) \/ SeedAdmin(u)
           \/ Tick \/ OutOfTokens \/ UNCHANGED vars
  BY <1>3 DEF ChangeRole, SeedAdmin, Tick, OutOfTokens, vars, table, client, Still, TokensKept
<1> QED
  BY <1>1, <1>2, <1>3 DEF Steps, Next

LEMMA StepsKeepIInv == IInv /\ [Steps]_vars => IInv'
BY SessionsStep, OutsideStep DEF Steps

\* Both specifications take these steps.
LEMMA BothSpecs == Spec \/ AccessSpec => Init /\ [][Steps]_vars
<1>1. [Next]_vars => [Steps]_vars
  BY DEF Steps
<1>2. AccessInit => Init
  BY DEF AccessInit
<1>3. [AccessNext]_accessVars => [Steps]_vars
  BY DEF AccessNext, SessionStep, Admit, Decide, EndDeed, Steps, accessVars
<1> QED
  BY <1>1, <1>2, <1>3, PTL DEF Spec, AccessSpec

LEMMA BothInvariant == Spec \/ AccessSpec => []IInv
  BY BothSpecs, SessionsInit, StepsKeepIInv, PTL

-----------------------------------------------------------------------------
(* How often a token is exchanged.  A request may exchange a token once it *)
(* has seen it valid; none that looks it up after its first exchange will. *)
(* So requests that may still exchange t, and tokens it was exchanged for, *)
(* were never more together than the requests that saw t valid at once.    *)

\* The requests that have seen t valid and not yet stored its successor.
Exchangers(t) == {s \in Slots : pc[s] \in {"getByID", "revoke", "issue"} /\ job[s].cookie = t}

CountOK ==
    \A t \in Tokens :
        /\ IsFiniteSet(Successors(t))
        /\ Cardinality(Successors(t)) + Cardinality(Exchangers(t)) <= Cardinality(Slots)

\* A token that is still valid has not been exchanged.
LEMMA ValidHasNoSuccessor ==
  ASSUME IInv, NEW t \in Tokens, t \notin revoked
  PROVE  Successors(t) = {}
BY NoneAssumption DEF IInv, ExchangeIsSound, Successors

\* A new row is the successor of the cookie of the request that adds it, of
\* no other token, and was nobody's before.
LEMMA OneSuccessorMore ==
  ASSUME IInv, NEW s \in Slots, NEW c \in Tokens, InsertToken(s, c), NEW t \in Tokens
  PROVE  /\ c \notin Successors(t)
         /\ Successors(t)' = IF t = job[s].cookie THEN Successors(t) \cup {c} ELSE Successors(t)
<1>1. parent[c] = NONE /\ parent[c] # t
  BY NoneAssumption DEF IInv, RowsOK, InsertToken
<1>2. parent' = [parent EXCEPT ![c] = job[s].cookie] /\ parent \in [Tokens -> Tokens \cup {NONE}]
  BY DEF IInv, TypeOK, InsertToken
<1> QED
  BY <1>1, <1>2 DEF Successors

LEMMA SlotsCount ==
  ASSUME NEW X, X \subseteq Slots
  PROVE  /\ IsFiniteSet(X) /\ Cardinality(X) \in Nat /\ Cardinality(Slots) \in Nat
         /\ Cardinality(X) <= Cardinality(Slots)
BY SlotsAssumption, FS_Subset, FS_CardinalityType

LEMMA CountStep ==
  ASSUME IInv, CountOK, [Steps]_vars
  PROVE  CountOK'
<1> SUFFICES ASSUME NEW t \in Tokens
             PROVE  /\ IsFiniteSet(Successors(t)')
                    /\ Cardinality(Successors(t)') + Cardinality(Exchangers(t)') <= Cardinality(Slots)
  BY DEF CountOK
<1> DEFINE S == Successors(t)
           X == Exchangers(t)
           Goal == /\ IsFiniteSet(S')
                   /\ Cardinality(S') + Cardinality(X') <= Cardinality(Slots)
<1>1. /\ IsFiniteSet(S) /\ Cardinality(S) \in Nat
      /\ Cardinality(S) + Cardinality(X) <= Cardinality(Slots)
  BY FS_CardinalityType DEF CountOK
<1>2. X \subseteq Slots /\ X' \subseteq Slots
  BY DEF Exchangers
<1> HIDE DEF X
<1>3. /\ IsFiniteSet(X) /\ Cardinality(X) \in Nat /\ Cardinality(X') \in Nat
      /\ Cardinality(Slots) \in Nat /\ Cardinality(X') <= Cardinality(Slots)
  BY <1>2, SlotsCount
<1> HIDE DEF S
\* Nothing is stored, and nobody joins the exchangers.
<1>4. ASSUME S' = S, X' \subseteq X PROVE Goal
  <2>1. Cardinality(X') <= Cardinality(X)
    BY <1>3, <1>4, FS_Subset
  <2> QED
    BY <1>1, <1>3, <1>4, <2>1
\* A new row: whoever stores it leaves the exchangers of its parent.
<1>5. ASSUME NEW s \in Slots, NEW c \in Tokens, InsertToken(s, c), pc[s] = "issue",
             X' \subseteq X \ {s}
      PROVE  Goal
  <2>1. CASE t # job[s].cookie
    <3>1. S' = S
      BY <1>5, <2>1, OneSuccessorMore DEF S
    <3> QED
      BY <1>4, <1>5, <3>1
  <2>2. CASE t = job[s].cookie
    <3>1. c \notin S /\ S' = S \cup {c}
      BY <1>5, <2>2, OneSuccessorMore DEF S
    <3>2. IsFiniteSet(S') /\ Cardinality(S') = Cardinality(S) + 1
      BY <1>1, <3>1, FS_AddElement
    <3>3. s \in X
      BY <1>5, <2>2 DEF X, Exchangers
    <3>4. IsFiniteSet(X \ {s}) /\ Cardinality(X \ {s}) = Cardinality(X) - 1
      BY <1>3, <3>3, FS_RemoveElement
    <3>5. Cardinality(X') <= Cardinality(X) - 1
      BY <1>5, <3>4, FS_Subset
    <3> QED
      BY <1>1, <1>3, <3>2, <3>5
  <2> QED
    BY <2>1, <2>2
\* Somebody joins: t is valid, so nobody has exchanged it.
<1>6. ASSUME t \notin revoked, parent' = parent PROVE Goal
  <2>1. S' = {}
    BY <1>6, ValidHasNoSuccessor DEF S, Successors
  <2>2. IsFiniteSet({}) /\ Cardinality({}) = 0
    BY FS_EmptySet
  <2> QED
    BY <1>3, <2>1, <2>2
<1>7. ASSUME parent' = parent PROVE S' = S
  BY <1>7 DEF S, Successors
<1>8. ASSUME NEW s \in Slots, Moves(s) PROVE Goal
  <2>1. \A z \in Slots \ {s} : pc'[z] = pc[z] /\ job'[z] = job[z]
    BY <1>8 DEF Moves
  <2>2. ASSUME s \notin X' PROVE X' \subseteq X \ {s}
    BY <2>1, <2>2 DEF X, Exchangers
  <2>3. ASSUME s \in X', s \in X PROVE X' \subseteq X
    BY <2>1, <2>3 DEF X, Exchangers
  <2>4. CASE Begins(s) \/ RevokesAll(s) \/ Answers(s)
    <3>1. s \notin X' /\ parent' = parent
      BY <2>4 DEF Begins, RevokesAll, Answers, TokensKept, X, Exchangers
    <3> QED
      BY <1>4, <1>7, <2>2, <3>1
  <2>5. CASE Reads(s)
    <3>1. parent' = parent
      BY <2>5 DEF Reads, TokensKept
    <3>2. s \in X' => s \in X \/ t \notin revoked
      BY <2>5, <1>2, SlotFacts, Known, NoneAssumption
         DEF Reads, SameRequest, X, Exchangers, JobOK
    <3> QED
      BY <1>4, <1>6, <1>7, <2>2, <2>3, <3>1, <3>2
  <2>6. CASE Revokes(s)
    <3>1. parent' = parent /\ (s \in X' => s \in X)
      BY <2>6 DEF Revokes, SameRequest, X, Exchangers
    <3> QED
      BY <1>4, <1>7, <2>2, <2>3, <3>1
  <2>7. CASE Issues(s) \/ Fails(s)
    <3>1. s \notin X'
      BY <2>7 DEF Issues, Fails, X, Exchangers
    <3>2. \/ parent' = parent
          \/ pc[s] = "issue" /\ \E c \in Tokens : InsertToken(s, c)
      BY <2>7 DEF Issues, Fails
    <3> QED
      BY <1>4, <1>5, <1>7, <2>2, <3>1, <3>2
  <2> QED
    BY <1>8, <2>4, <2>5, <2>6, <2>7 DEF Moves
<1>9. ASSUME Still PROVE Goal
  <2>1. X' = X /\ parent' = parent
    BY <1>9 DEF Still, TokensKept, X, Exchangers
  <2> QED
    BY <1>4, <1>7, <2>1
<1>10. Goal
  BY <1>8, <1>9, StepShape
<1> QED
  BY <1>10 DEF S, X

LEMMA CountInitially == Init => CountOK
<1> SUFFICES ASSUME Init, NEW t \in Tokens
             PROVE  /\ IsFiniteSet(Successors(t))
                    /\ Cardinality(Successors(t)) + Cardinality(Exchangers(t)) <= Cardinality(Slots)
  BY DEF CountOK
<1>1. Successors(t) = {} /\ Exchangers(t) = {}
  BY NoneAssumption DEF Init, Successors, Exchangers
<1>2. IsFiniteSet({}) /\ Cardinality({}) = 0 /\ Cardinality(Slots) \in Nat
  BY FS_EmptySet, SlotsCount
<1> QED
  BY <1>1, <1>2

\* However many requests present a token, overlap, fail or are lost: the
\* tokens it is exchanged for are no more than the requests the server can
\* have under way at once.
THEOREM ExchangesAreFew == Spec \/ AccessSpec => []SuccessorsBounded
<1>1. CountOK => SuccessorsBounded
  <2> SUFFICES ASSUME CountOK, NEW t \in Tokens
               PROVE  Cardinality(Successors(t)) <= Cardinality(Slots)
    BY DEF SuccessorsBounded
  <2>1. Exchangers(t) \subseteq Slots
    BY DEF Exchangers
  <2>2. /\ Cardinality(Exchangers(t)) \in Nat /\ Cardinality(Slots) \in Nat
        /\ Cardinality(Successors(t)) \in Nat
        /\ Cardinality(Successors(t)) + Cardinality(Exchangers(t)) <= Cardinality(Slots)
    BY <2>1, SlotsCount, FS_CardinalityType DEF CountOK
  <2> QED
    BY <2>2
<1> QED
  BY <1>1, BothSpecs, BothInvariant, CountInitially, CountStep, PTL

-----------------------------------------------------------------------------
(* What the doc comments of AuthService promise holds of those who wait    *)
(* for their answers: the two tabs of one browser, or the two devices of   *)
(* one user, are what it takes to break it.                                *)

Presents(s) == pc[s] # "idle" /\ job[s].cookie # NONE

\* No browser has two requests under way at once.
BrowsersTakeTurns ==
    \A s, z \in Slots :
        pc[s] # "idle" /\ pc[z] # "idle" /\ job[s].browser = job[z].browser => s = z

\* No token is presented twice at once.
TokensTakeTurns ==
    \A s, z \in Slots : Presents(s) /\ Presents(z) /\ job[s].cookie = job[z].cookie => s = z

\* No user has two requests under way that present a token of his.
UsersTakeTurns ==
    \A s, z \in Slots :
        Presents(s) /\ Presents(z) /\ owner[job[s].cookie] = owner[job[z].cookie] => s = z

\* s has seen its cookie's token valid and not yet stored its successor.
Exchanging(s) == pc[s] \in {"getByID", "revoke", "issue"} /\ job[s].cookie # NONE

\* Whoever exchanges a token now was exchanging it before, or has just seen
\* it valid.
LEMMA StartsValid ==
  ASSUME IInv, NEW s \in Slots, Moves(s), NEW z \in Slots, Exchanging(z)'
  PROVE  /\ job'[z].cookie = job[z].cookie /\ job[z].cookie \in Tokens
         /\ Exchanging(z) \/ (z = s /\ Reads(s) /\ job[z].cookie \notin revoked)
<1>1. /\ job'[z].cookie = job[z].cookie
      /\ Exchanging(z) \/ (z = s /\ Reads(s) /\ job[z].cookie \notin revoked)
  <2>1. CASE z # s
    BY <2>1 DEF Moves, Exchanging
  <2>2. CASE z = s
    <3>1. ~Begins(s) /\ ~RevokesAll(s) /\ ~Issues(s) /\ ~Answers(s) /\ ~Fails(s)
      BY <2>2 DEF Begins, RevokesAll, Issues, Answers, Fails, Exchanging
    <3>2. CASE Reads(s)
      <4>1. pc[s] \in {"createUser", "getByEmail"} => job[s].cookie = NONE
        BY Known DEF JobOK
      <4> QED
        BY <2>2, <3>2, <4>1 DEF Reads, SameRequest, Exchanging
    <3>3. CASE Revokes(s)
      BY <2>2, <3>3 DEF Revokes, SameRequest, Exchanging
    <3> QED
      BY <3>1, <3>2, <3>3 DEF Moves
  <2> QED
    BY <2>1, <2>2
<1>2. job[z].cookie # NONE /\ job[z] \in Job
  BY <1>1, SlotFacts DEF Exchanging
<1> QED
  BY <1>1, <1>2 DEF Job

\* A step that changes parent stores a successor of an exchanging request's
\* cookie, or starts a session that has no parent.
LEMMA NewParent ==
  ASSUME IInv, NEW s \in Slots, Moves(s), parent' # parent
  PROVE  /\ \E c \in Tokens : InsertToken(s, c)
         /\ job[s].cookie = NONE \/ Exchanging(s)
         /\ ~Exchanging(s)'
BY DEF Moves, Begins, Reads, Revokes, RevokesAll, Issues, Answers, Fails, TokensKept, Exchanging

-----------------------------------------------------------------------------
(* A token is exchanged once, if it is not presented twice at once.        *)

OnceOK ==
    /\ \A s \in Slots : Exchanging(s) => Successors(job[s].cookie) = {}
    /\ \A t \in Tokens : \A c, d \in Successors(t) : c = d

LEMMA OnceStep ==
  ASSUME IInv, OnceOK, TokensTakeTurns, [Steps]_vars
  PROVE  OnceOK'
<1>1. ASSUME NEW s \in Slots, Moves(s), parent' = parent PROVE OnceOK'
  <2>1. \A t \in Tokens : Successors(t)' = Successors(t)
    BY <1>1 DEF Successors
  <2>2. ASSUME NEW z \in Slots, Exchanging(z)' PROVE Successors(job[z].cookie)' = {}
    <3>1. /\ job'[z].cookie = job[z].cookie /\ job[z].cookie \in Tokens
          /\ Exchanging(z) \/ job[z].cookie \notin revoked
      BY <1>1, <2>2, StartsValid
    <3>2. Successors(job[z].cookie) = {}
      BY <3>1, ValidHasNoSuccessor DEF OnceOK
    <3> QED
      BY <1>1, <3>1, <3>2 DEF Successors
  <2>3. \A z \in Slots : Exchanging(z)' => job'[z].cookie = job[z].cookie
    BY <1>1, StartsValid
  <2> QED
    BY <2>1, <2>2, <2>3 DEF OnceOK, Successors
<1>2. ASSUME NEW s \in Slots, Moves(s), parent' # parent PROVE OnceOK'
  <2>1. PICK c \in Tokens : InsertToken(s, c)
    BY <1>2, NewParent
  <2>2. /\ job[s].cookie = NONE \/ Exchanging(s)
        /\ ~Exchanging(s)' /\ ~Reads(s)
    BY <1>2, NewParent DEF Reads, TokensKept
  <2>3. ASSUME NEW t \in Tokens
        PROVE  Successors(t)' = IF t = job[s].cookie THEN Successors(t) \cup {c} ELSE Successors(t)
    BY <2>1, OneSuccessorMore
  <2>4. ASSUME NEW z \in Slots, Exchanging(z)'
        PROVE  job'[z].cookie = job[z].cookie /\ Successors(job[z].cookie)' = {}
    <3>1. z # s /\ Exchanging(z) /\ job'[z].cookie = job[z].cookie /\ job[z].cookie \in Tokens
      BY <1>2, <2>2, <2>4, StartsValid
    <3>2. job[z].cookie # job[s].cookie
      BY <2>2, <3>1 DEF TokensTakeTurns, Presents, Exchanging
    <3> QED
      BY <2>3, <3>1, <3>2 DEF OnceOK
  <2>5. ASSUME NEW t \in Tokens, t = job[s].cookie PROVE Successors(t) = {}
    BY <2>2, <2>5, NoneAssumption DEF OnceOK
  <2>6. \A t \in Tokens : \A d, e \in Successors(t)' : d = e
    BY <2>3, <2>5 DEF OnceOK
  <2> QED
    BY <2>4, <2>6 DEF OnceOK, Successors
<1>3. CASE Still
  BY <1>3 DEF Still, TokensKept, OnceOK, Exchanging, Successors
<1> QED
  BY <1>1, <1>2, <1>3, StepShape

\* "The old refresh token is revoked in the same call, so it can never be
\* reused" (auth_service.go): so it is, for a client that does not present
\* it again before it has its answer, whatever fails.
THEOREM UsedOnceInTurn == (Spec \/ AccessSpec) /\ []TokensTakeTurns => []UsedOnce
<1>1. Init => OnceOK
  BY NoneAssumption DEF Init, OnceOK, Exchanging, Successors
<1>2. OnceOK => UsedOnce
  <2> SUFFICES ASSUME OnceOK, NEW t \in Tokens
               PROVE  Cardinality(Successors(t)) <= 1
    BY DEF UsedOnce
  <2>1. CASE Successors(t) = {}
    BY <2>1, FS_EmptySet
  <2>2. CASE Successors(t) # {}
    <3>1. PICK c : Successors(t) = {c}
      BY <2>2 DEF OnceOK
    <3> QED
      BY <3>1, FS_Singleton
  <2> QED
    BY <2>1, <2>2
<1> QED
  BY <1>1, <1>2, BothSpecs, BothInvariant, OnceStep, PTL

-----------------------------------------------------------------------------
(* A session that was ended stays ended.                                   *)

EndedOK ==
    /\ ended \subseteq revoked
    /\ \A s \in Slots : Exchanging(s) => job[s].cookie \notin ended

LEMMA EndedStep ==
  ASSUME IInv, EndedOK, UsersTakeTurns, [Steps]_vars
  PROVE  EndedOK' /\ \A t \in ended : Successors(t)' = Successors(t)
<1>1. ASSUME NEW s \in Slots, Moves(s)
      PROVE  ended' \subseteq revoked' /\ \A z \in Slots : Exchanging(z)' => job'[z].cookie \notin ended'
  <2>1. revoked \subseteq revoked' /\ ended' \subseteq revoked'
    BY <1>1 DEF Moves, Begins, Reads, Revokes, RevokesAll, Issues, Answers, Fails, TokensKept,
                InsertToken, EndedOK
  <2>2. ASSUME NEW z \in Slots, Exchanging(z)' PROVE job'[z].cookie \notin ended'
    <3>1. /\ job'[z].cookie = job[z].cookie
          /\ Exchanging(z) \/ (z = s /\ Reads(s) /\ job[z].cookie \notin revoked)
      BY <1>1, <2>2, StartsValid
    <3>2. job[z].cookie \notin ended
      BY <3>1 DEF EndedOK
    <3>3. CASE ended' = ended
      BY <3>1, <3>2, <3>3
    <3>4. CASE RevokesAll(s) \/ (Revokes(s) /\ pc[s] = "logout")
      <4>1. Presented(s) /\ (pc[s] = "revokeAll" => job[s].user = owner[job[s].cookie])
        BY <3>4, Known DEF RevokesAll, JobOK
      <4>2. z # s /\ Exchanging(z)
        BY <2>2, <3>1, <3>4 DEF RevokesAll, Revokes, Reads, TokensKept, Exchanging
      <4>3. owner[job[z].cookie] # owner[job[s].cookie]
        BY <3>4, <4>1, <4>2, NoneAssumption
           DEF UsersTakeTurns, Presents, Presented, Exchanging, RevokesAll
      <4> QED
        BY <3>1, <3>2, <3>4, <4>1, <4>3 DEF RevokesAll, Revokes, TokensOf
    <3> QED
      BY <1>1, <3>3, <3>4 DEF Moves, Begins, Reads, Revokes, Issues, Answers, Fails, TokensKept,
                              InsertToken
  <2> QED
    BY <2>1, <2>2
<1>2. ASSUME NEW s \in Slots, Moves(s), NEW t \in ended PROVE Successors(t)' = Successors(t)
  <2>1. CASE parent' = parent
    BY <2>1 DEF Successors
  <2>2. CASE parent' # parent
    <3>1. (\E c \in Tokens : InsertToken(s, c)) /\ (job[s].cookie = NONE \/ Exchanging(s))
      BY <1>2, <2>2, NewParent
    <3>2. t \in Tokens /\ t # job[s].cookie
      BY <3>1, NoneAssumption DEF EndedOK, IInv, TypeOK
    <3> QED
      BY <3>1, <3>2, OneSuccessorMore
  <2> QED
    BY <2>1, <2>2
<1>3. CASE Still
  BY <1>3 DEF Still, TokensKept, EndedOK, Exchanging, Successors
<1> QED
  BY <1>1, <1>2, <1>3, StepShape DEF EndedOK

\* Logging out, or the mass revoke "forcing every session to
\* re-authenticate" (auth_service.go), is final: no token it revoked is exchanged
\* any more, as long as the user has no other request with a token of his
\* under way, whatever fails.
THEOREM EndedInTurn == (Spec \/ AccessSpec) /\ []UsersTakeTurns => EndedSessionsStayEnded
<1>1. Init => EndedOK
  BY DEF Init, EndedOK, Exchanging
<1>2. IInv /\ EndedOK /\ UsersTakeTurns /\ [Steps]_vars =>
        EndedOK' /\ [\A t \in ended : Successors(t)' = Successors(t)]_vars
  BY EndedStep
<1> QED
  BY <1>1, <1>2, BothSpecs, BothInvariant, PTL DEF EndedSessionsStayEnded

-----------------------------------------------------------------------------
(* A client that waits raises no replay alarm. As long as nothing failed   *)
(* and no browser has two requests under way, cookies are all different,   *)
(* and a cookie whose token is revoked is about to be replaced by the      *)
(* answer of the request that revoked it.                                  *)

\* The answer of s will replace its browser's cookie.
Replaces(s) == pc[s] = "issue" \/ (pc[s] = "respond" /\ job[s].reply # "keep")

\* s carries a new token that no browser has yet.
Brings(s) == pc[s] = "respond" /\ job[s].reply = "session"

RowsRevoked == \A t \in revoked : owner[t] # NONE

CookiesCurrent == \A s \in Slots : Presents(s) => jar[job[s].browser] = job[s].cookie

DeadCookies ==
    \A b \in Browsers : jar[b] \in revoked =>
        \E s \in Slots : job[s].browser = b /\ job[s].cookie = jar[b] /\ Replaces(s)

NewTokens ==
    \A s \in Slots : Brings(s) =>
        /\ job[s].issued \notin revoked
        /\ \A b \in Browsers : jar[b] # job[s].issued
        /\ \A z \in Slots : Brings(z) /\ job[z].issued = job[s].issued => z = s

CookiesDiffer == \A a, b \in Browsers : jar[a] = jar[b] /\ jar[a] # NONE => a = b

QuietInv ==
    /\ RowsRevoked /\ CookiesCurrent /\ DeadCookies /\ NewTokens /\ CookiesDiffer
    /\ \A s \in Slots : pc[s] # "revokeAll"

AlarmOK == faults = 0 => QuietInv

\* Under QuietInv, a request that still has to look at its cookie's token
\* finds it valid.
LEMMA PresentedIsValid ==
  ASSUME IInv, QuietInv, BrowsersTakeTurns, NEW s \in Slots,
         pc[s] \in {"lookUp", "logout", "getByID", "revoke"}
  PROVE  /\ job[s].cookie \in Tokens /\ job[s].cookie \notin revoked
         /\ job[s].browser \in Browsers /\ jar[job[s].browser] = job[s].cookie
         /\ owner[job[s].cookie] # NONE
<1>1. /\ job[s].browser \in Browsers /\ job[s].cookie \in Tokens /\ owner[job[s].cookie] # NONE
  BY Known DEF JobOK, Presented
<1>2. jar[job[s].browser] = job[s].cookie
  BY <1>1, NoneAssumption DEF QuietInv, CookiesCurrent, Presents
<1>3. ASSUME job[s].cookie \in revoked PROVE FALSE
  <2>1. PICK z \in Slots : job[z].browser = job[s].browser /\ Replaces(z)
    BY <1>1, <1>2, <1>3 DEF QuietInv, DeadCookies
  <2>2. z = s
    BY <2>1 DEF BrowsersTakeTurns, Replaces
  <2> QED
    BY <2>1, <2>2 DEF Replaces
<1> QED
  BY <1>1, <1>2, <1>3

LEMMA BeginsQuietly ==
  ASSUME IInv, QuietInv, NEW s \in Slots, Moves(s), Begins(s)
  PROVE  QuietInv'
<1>1. \A z \in Slots \ {s} : pc'[z] = pc[z] /\ job'[z] = job[z]
  BY DEF Moves
<1>2. UNCHANGED <<owner, revoked, jar>> /\ pc[s] = "idle"
  BY DEF Begins, TokensKept
<1>3. /\ ~Replaces(s) /\ ~Brings(s)' /\ pc'[s] # "revokeAll"
      /\ Presents(s)' => jar[job'[s].browser] = job'[s].cookie
  BY DEF Begins, Replaces, Brings, Presents
<1>4. RowsRevoked' /\ CookiesDiffer'
  BY <1>2 DEF QuietInv, RowsRevoked, CookiesDiffer
<1>5. CookiesCurrent'
  BY <1>1, <1>2, <1>3 DEF QuietInv, CookiesCurrent, Presents
<1>6. DeadCookies'
  BY <1>1, <1>2, <1>3 DEF QuietInv, DeadCookies, Replaces
<1>7. NewTokens'
  BY <1>1, <1>2, <1>3 DEF QuietInv, NewTokens, Brings
<1> QED
  BY <1>1, <1>3, <1>4, <1>5, <1>6, <1>7 DEF QuietInv

LEMMA ReadsQuietly ==
  ASSUME IInv, QuietInv, BrowsersTakeTurns, NEW s \in Slots, Moves(s), Reads(s)
  PROVE  QuietInv'
<1>1. \A z \in Slots \ {s} : pc'[z] = pc[z] /\ job'[z] = job[z]
  BY DEF Moves
<1>2. UNCHANGED <<owner, revoked, jar>> /\ SameRequest(s) /\ pc[s] # "idle"
  BY DEF Reads, TokensKept
<1>3. ~Replaces(s) /\ ~Brings(s)' /\ pc'[s] # "revokeAll"
  BY PresentedIsValid DEF Reads, Replaces, Brings
<1>4. RowsRevoked' /\ CookiesDiffer'
  BY <1>2 DEF QuietInv, RowsRevoked, CookiesDiffer
<1>5. CookiesCurrent'
  BY <1>1, <1>2 DEF QuietInv, CookiesCurrent, Presents, SameRequest
<1>6. DeadCookies'
  BY <1>1, <1>2, <1>3 DEF QuietInv, DeadCookies, Replaces
<1>7. NewTokens'
  BY <1>1, <1>2, <1>3 DEF QuietInv, NewTokens, Brings
<1> QED
  BY <1>1, <1>3, <1>4, <1>5, <1>6, <1>7 DEF QuietInv

LEMMA RevokesQuietly ==
  ASSUME IInv, QuietInv, BrowsersTakeTurns, NEW s \in Slots, Moves(s), Revokes(s)
  PROVE  QuietInv'
<1> DEFINE t == job[s].cookie
           b == job[s].browser
<1>1. \A z \in Slots \ {s} : pc'[z] = pc[z] /\ job'[z] = job[z]
  BY DEF Moves
<1>2. /\ UNCHANGED <<owner, jar>> /\ revoked' = revoked \cup {t} /\ SameRequest(s)
      /\ pc[s] \in {"revoke", "logout"}
      /\ ~Brings(s)' /\ Replaces(s)' /\ pc'[s] # "revokeAll"
  BY DEF Revokes, Brings, Replaces
<1>3. /\ b \in Browsers /\ jar[b] = t /\ t \in Tokens /\ t # NONE /\ owner[t] # NONE
  BY <1>2, PresentedIsValid, NoneAssumption
<1> HIDE DEF t, b
<1>4. RowsRevoked' /\ CookiesDiffer'
  BY <1>2, <1>3 DEF QuietInv, RowsRevoked, CookiesDiffer
<1>5. CookiesCurrent'
  BY <1>1, <1>2 DEF QuietInv, CookiesCurrent, Presents, SameRequest
<1>6. ASSUME NEW a \in Browsers, jar'[a] \in revoked'
      PROVE  \E z \in Slots : job'[z].browser = a /\ job'[z].cookie = jar'[a] /\ Replaces(z)'
  <2>1. CASE jar[a] = t
    <3>1. a = b
      BY <1>3, <2>1 DEF QuietInv, CookiesDiffer
    <3> QED
      BY <1>2, <1>3, <3>1 DEF SameRequest, t, b
  <2>2. CASE jar[a] # t
    <3>1. PICK z \in Slots : job[z].browser = a /\ job[z].cookie = jar[a] /\ Replaces(z)
      BY <1>2, <1>6, <2>2 DEF QuietInv, DeadCookies
    <3>2. z # s
      BY <1>2, <3>1 DEF Replaces
    <3> QED
      BY <1>1, <1>2, <3>1, <3>2 DEF Replaces
  <2> QED
    BY <2>1, <2>2
<1>7. NewTokens'
  BY <1>1, <1>2, <1>3 DEF QuietInv, NewTokens, Brings
<1> QED
  BY <1>1, <1>2, <1>4, <1>5, <1>6, <1>7 DEF QuietInv, DeadCookies

LEMMA IssuesQuietly ==
  ASSUME IInv, QuietInv, NEW s \in Slots, Moves(s), Issues(s)
  PROVE  QuietInv'
<1> DEFINE t == job'[s].issued
<1>1. \A z \in Slots \ {s} : pc'[z] = pc[z] /\ job'[z] = job[z]
  BY DEF Moves
<1>2. /\ UNCHANGED <<revoked, jar>> /\ SameRequest(s) /\ pc[s] = "issue" /\ pc'[s] = "respond"
      /\ job'[s].reply = "session" /\ t \in Tokens /\ InsertToken(s, t)
  BY DEF Issues, InsertToken
<1>3. /\ owner[t] = NONE /\ owner' = [owner EXCEPT ![t] = job[s].user]
      /\ owner \in [Tokens -> Users \cup {NONE}] /\ jar \in [Browsers -> Tokens \cup {NONE}]
      /\ revoked \subseteq Tokens
  BY <1>2 DEF InsertToken, IInv, TypeOK
<1>4. job[s].user # NONE
  BY <1>2, Known, NoneAssumption DEF JobOK, RoleRead
<1> HIDE DEF t
<1>5. RowsRevoked' /\ CookiesDiffer'
  BY <1>2, <1>3, <1>4 DEF QuietInv, RowsRevoked, CookiesDiffer
<1>6. CookiesCurrent'
  BY <1>1, <1>2 DEF QuietInv, CookiesCurrent, Presents, SameRequest
<1>7. DeadCookies'
  BY <1>1, <1>2 DEF QuietInv, DeadCookies, Replaces, SameRequest
<1>8. t \notin revoked /\ \A b \in Browsers : jar[b] # t
  BY <1>2, <1>3, NoneAssumption DEF QuietInv, RowsRevoked, IInv, JarsOK
<1>9. ASSUME NEW z \in Slots, Brings(z) PROVE job[z].issued # t
  <2>1. owner[job[z].issued] # NONE
    BY <1>9, Known DEF Brings, JobOK, Signed
  <2> QED
    BY <1>3, <2>1
<1>10. NewTokens'
  <2>1. job'[s].issued = t /\ ~Brings(s)
    BY <1>2 DEF t, Brings
  <2> QED
    BY <1>1, <1>2, <1>8, <1>9, <2>1 DEF QuietInv, NewTokens, Brings
<1> QED
  BY <1>1, <1>2, <1>5, <1>6, <1>7, <1>10 DEF QuietInv

LEMMA AnswersQuietly ==
  ASSUME IInv, QuietInv, BrowsersTakeTurns, NEW s \in Slots, Moves(s), Answers(s)
  PROVE  QuietInv'
<1> DEFINE b == job[s].browser
<1>1. \A z \in Slots \ {s} : pc'[z] = pc[z] /\ job'[z] = job[z]
  BY DEF Moves
<1>2. /\ UNCHANGED <<owner, revoked>> /\ pc[s] = "respond" /\ pc'[s] = "idle"
      /\ \/ Brings(s) /\ jar' = [jar EXCEPT ![b] = job[s].issued]
         \/ job[s].reply = "clear" /\ jar' = [jar EXCEPT ![b] = NONE]
         \/ job[s].reply = "keep" /\ jar' = jar
  BY DEF Answers, Brings
<1>3. b \in Browsers /\ jar \in [Browsers -> Tokens \cup {NONE}] /\ NONE \notin revoked
      /\ (Brings(s) => job[s].issued \in Tokens)
  BY <1>2, Known, NoneAssumption DEF JobOK, Brings, Signed, IInv, TypeOK
<1>4. ASSUME NEW z \in Slots, z # s, pc[z] # "idle" PROVE job[z].browser # b
  BY <1>2, <1>4 DEF BrowsersTakeTurns
<1>5. \A a \in Browsers \ {b} : jar'[a] = jar[a]
  BY <1>2, <1>3
<1>6. ~Brings(s)' /\ ~Presents(s)'
  BY <1>2 DEF Brings, Presents
<1>7. \/ Brings(s) /\ jar'[b] = job[s].issued
      \/ job[s].reply = "clear" /\ jar'[b] = NONE
      \/ job[s].reply = "keep" /\ jar'[b] = jar[b] /\ ~Replaces(s)
  BY <1>2, <1>3 DEF Replaces
<1> HIDE DEF b
<1>8. RowsRevoked'
  BY <1>2 DEF QuietInv, RowsRevoked
<1>9. CookiesCurrent'
  <2> SUFFICES ASSUME NEW z \in Slots, Presents(z)' PROVE jar'[job'[z].browser] = job'[z].cookie
    BY DEF CookiesCurrent
  <2>1. z # s /\ Presents(z) /\ pc[z] # "idle" /\ job'[z] = job[z]
    BY <1>1, <1>6 DEF Presents
  <2>2. job[z].browser \in Browsers \ {b}
    BY <1>4, <2>1, Known DEF JobOK
  <2> QED
    BY <1>5, <2>1, <2>2 DEF QuietInv, CookiesCurrent
<1>10. ASSUME NEW a \in Browsers, jar'[a] \in revoked'
       PROVE  \E z \in Slots : job'[z].browser = a /\ job'[z].cookie = jar'[a] /\ Replaces(z)'
  <2>1. jar'[a] = jar[a] /\ (a = b => ~Replaces(s))
    BY <1>2, <1>3, <1>5, <1>7, <1>10 DEF QuietInv, NewTokens
  <2>2. PICK z \in Slots : job[z].browser = a /\ job[z].cookie = jar[a] /\ Replaces(z)
    BY <1>2, <1>10, <2>1 DEF QuietInv, DeadCookies
  <2>3. z # s
    BY <2>1, <2>2 DEF b
  <2> QED
    BY <1>1, <2>1, <2>2, <2>3 DEF Replaces
<1>11. NewTokens'
  <2> SUFFICES ASSUME NEW z \in Slots, Brings(z)'
               PROVE  /\ job'[z].issued \notin revoked'
                      /\ \A a \in Browsers : jar'[a] # job'[z].issued
                      /\ \A y \in Slots : Brings(y)' /\ job'[y].issued = job'[z].issued => y = z
    BY DEF NewTokens
  <2>1. z # s /\ Brings(z) /\ job'[z] = job[z]
    BY <1>1, <1>6 DEF Brings
  <2>2. job[z].issued \in Tokens /\ job[z].issued # NONE
    BY <2>1, Known, NoneAssumption DEF Brings, JobOK, Signed
  <2>3. /\ job[z].issued \notin revoked /\ \A a \in Browsers : jar[a] # job[z].issued
        /\ \A y \in Slots : Brings(y) /\ job[y].issued = job[z].issued => y = z
    BY <2>1 DEF QuietInv, NewTokens
  <2>4. jar'[b] # job[z].issued
    BY <1>3, <1>7, <2>1, <2>2, <2>3
  <2>5. \A y \in Slots : Brings(y)' => Brings(y) /\ job'[y] = job[y]
    BY <1>1, <1>6 DEF Brings
  <2> QED
    BY <1>2, <1>5, <2>1, <2>3, <2>4, <2>5
<1>12. CookiesDiffer'
  <2>1. ASSUME NEW a \in Browsers \ {b}, jar'[b] # NONE PROVE jar'[a] # jar'[b]
    BY <1>3, <1>5, <1>7, <2>1 DEF QuietInv, CookiesDiffer, NewTokens
  <2> QED
    BY <1>3, <1>5, <2>1 DEF QuietInv, CookiesDiffer
<1>13. \A z \in Slots : pc'[z] # "revokeAll"
  BY <1>1, <1>2 DEF QuietInv
<1> QED
  BY <1>8, <1>9, <1>10, <1>11, <1>12, <1>13 DEF QuietInv, DeadCookies

LEMMA AlarmStep ==
  ASSUME IInv, AlarmOK, BrowsersTakeTurns, [Steps]_vars
  PROVE  AlarmOK'
<1> SUFFICES ASSUME faults' = 0 PROVE QuietInv'
  BY DEF AlarmOK
<1>1. ASSUME NEW s \in Slots, Moves(s) PROVE QuietInv'
  <2>1. ~Fails(s) /\ faults = 0
    BY <1>1 DEF Moves, Fails
  <2>2. QuietInv /\ ~RevokesAll(s)
    BY <2>1 DEF AlarmOK, QuietInv, RevokesAll
  <2> QED
    BY <1>1, <2>1, <2>2, BeginsQuietly, ReadsQuietly, RevokesQuietly, IssuesQuietly,
       AnswersQuietly DEF Moves
<1>2. CASE Still
  BY <1>2 DEF Still, TokensKept, AlarmOK, QuietInv, RowsRevoked, CookiesCurrent, DeadCookies,
     NewTokens, CookiesDiffer, Presents, Replaces, Brings
<1> QED
  BY <1>1, <1>2, StepShape

\* No request is taken for the replay of a stolen token.
NoAlarm == \A s \in Slots : pc[s] # "revokeAll"

\* "A second presentation is not something normal operation produces on
\* its own" (auth_service.go) is so while nothing has failed and browsers
\* wait for their answers, however many browsers and users there are.  A
\* browser that does not wait, with two tabs that refresh at once, does
\* produce one.
THEOREM NoAlarmInTurn == (Spec \/ AccessSpec) /\ []BrowsersTakeTurns => [](faults = 0 => NoAlarm)
<1>1. Init => AlarmOK
  BY NoneAssumption DEF Init, AlarmOK, QuietInv, RowsRevoked, CookiesCurrent, DeadCookies, NewTokens,
     CookiesDiffer, Presents, Brings
<1>2. AlarmOK => (faults = 0 => NoAlarm)
  BY DEF AlarmOK, QuietInv, NoAlarm
<1> QED
  BY <1>1, <1>2, BothSpecs, BothInvariant, AlarmStep, PTL

-----------------------------------------------------------------------------
(* With failures and requests that overlap, alarms there are, but each has *)
(* its cause with the user it logs out.  His tokens are excused from then  *)
(* on.  Until then a cookie whose token is revoked is, as before, about to *)
(* be replaced by the answer of the request that revoked it; and what that *)
(* answer brings is nobody's cookie yet, however late it comes.            *)

\* The owner of t has a token that was presented twice at once, or in vain.
Excused(t) == \E d \in doubtful : owner[d] = owner[t]
ExcusedNext(t) == \E d \in doubtful' : owner'[d] = owner'[t]

CookiesStored == \A s \in Slots : job[s].cookie # NONE => owner[job[s].cookie] # NONE

DoubtsStored == doubtful \subseteq Tokens /\ \A t \in doubtful : owner[t] # NONE

SharedAreDoubtful ==
    \A s, z \in Slots :
        s # z /\ job[s].cookie = job[z].cookie /\ job[s].cookie # NONE => job[s].cookie \in doubtful

\* A cookie that is still in a jar was presented from that jar.
OwnCookies ==
    \A s \in Slots, b \in Browsers :
        job[s].cookie # NONE /\ jar[b] = job[s].cookie => job[s].browser = b

Replaced ==
    \A b \in Browsers : jar[b] \in revoked =>
        \/ Excused(jar[b])
        \/ \E s \in Slots : job[s].browser = b /\ job[s].cookie = jar[b] /\ Replaces(s)

Undelivered ==
    \A s \in Slots : Brings(s) =>
        /\ job[s].issued \in revoked => Excused(job[s].issued)
        /\ \A b \in Browsers : jar[b] # job[s].issued
        /\ \A z \in Slots : job[z].cookie # job[s].issued
        /\ \A z \in Slots : Brings(z) /\ job[z].issued = job[s].issued => z = s

DeadIsExcused ==
    \A s \in Slots : pc[s] \in {"lookUp", "revokeAll"} /\ job[s].cookie \in revoked =>
        Excused(job[s].cookie)

ReplayInv ==
    /\ RowsRevoked /\ CookiesStored /\ DoubtsStored /\ SharedAreDoubtful /\ CookiesDiffer
    /\ OwnCookies /\ Replaced /\ Undelivered /\ DeadIsExcused

LEMMA OwnersStay ==
  ASSUME IInv, NEW s \in Slots, Moves(s), NEW t \in Tokens, owner[t] # NONE
  PROVE  owner'[t] = owner[t]
<1>1. UNCHANGED owner \/ \E c \in Tokens : InsertToken(s, c)
  BY DEF Moves, Begins, Reads, Revokes, RevokesAll, Issues, Answers, Fails, TokensKept
<1> QED
  BY <1>1 DEF InsertToken, IInv, TypeOK

\* A step of s, as far as cookies under way are concerned.
LEMMA CookiesUnderWay ==
  ASSUME IInv, NEW s \in Slots, Moves(s)
  PROVE  /\ \A z \in Slots \ {s} : pc'[z] = pc[z] /\ job'[z] = job[z]
         /\ \/ job'[s].cookie = NONE
            \/ SameRequest(s)
            \/ Begins(s) /\ job'[s].cookie = jar[job'[s].browser]
BY DEF Moves, Begins, Reads, Revokes, RevokesAll, Issues, Answers, Fails, SameRequest

\* The tokens on record are stored, and remain a cause for alarm.
LEMMA DoubtsStay ==
  ASSUME IInv, IInv', ReplayInv, Record, NEW s \in Slots, Moves(s)
  PROVE  /\ CookiesStored' /\ DoubtsStored' /\ SharedAreDoubtful'
         /\ \A t \in Tokens : owner[t] # NONE /\ Excused(t) => ExcusedNext(t)
<1>1. ASSUME NEW t \in Tokens, owner[t] # NONE PROVE owner'[t] = owner[t] /\ owner'[t] # NONE
  BY <1>1, OwnersStay
<1>2. CookiesStored'
  <2> SUFFICES ASSUME NEW z \in Slots, job'[z].cookie # NONE PROVE owner'[job'[z].cookie] # NONE
    BY DEF CookiesStored
  <2>1. job'[z].cookie \in Tokens
    BY DEF IInv, TypeOK, Job
  <2>2. CASE job'[z].cookie = job[z].cookie
    BY <1>1, <2>1, <2>2 DEF ReplayInv, CookiesStored
  <2>3. CASE job'[z].cookie # job[z].cookie
    <3>1. z = s /\ Begins(s) /\ job'[z].cookie = jar[job'[z].browser] /\ pc'[z] # "idle"
      BY <2>3, CookiesUnderWay DEF SameRequest, Begins
    <3>2. job'[z].browser \in Browsers
      BY <3>1 DEF IInv, JobsOK, JobOK
    <3> QED
      BY <1>1, <2>1, <3>1, <3>2 DEF IInv, JarsOK
  <2> QED
    BY <2>2, <2>3
<1>3. DoubtsStored'
  <2> SUFFICES ASSUME NEW t \in Tokens, t \in doubtful \/ Shared(t)' \/ Hit(t)
               PROVE  owner'[t] # NONE
    BY DEF Record, DoubtsStored, ReplayInv
  <2>1. CASE t \in doubtful
    BY <1>1, <2>1 DEF ReplayInv, DoubtsStored
  <2>2. CASE Shared(t)'
    BY <1>2, <2>2, NoneAssumption DEF Shared, CookiesStored
  <2>3. CASE Hit(t)
    BY <1>1, <2>3, NoneAssumption DEF Hit, ReplayInv, CookiesStored
  <2> QED
    BY <2>1, <2>2, <2>3
<1>4. SharedAreDoubtful'
  <2> SUFFICES ASSUME NEW y \in Slots, NEW z \in Slots, y # z, job'[y].cookie # NONE,
                      job'[y].cookie = job'[z].cookie
               PROVE  job'[y].cookie \in doubtful'
    BY DEF SharedAreDoubtful
  <2>1. job'[y].cookie \in Tokens
    BY DEF IInv, TypeOK, Job
  <2> QED
    BY <2>1 DEF Record, Shared
<1>5. ASSUME NEW t \in Tokens, owner[t] # NONE, Excused(t) PROVE ExcusedNext(t)
  <2>1. PICK d \in doubtful : owner[d] = owner[t]
    BY <1>5 DEF Excused
  <2>2. d \in doubtful' /\ owner'[d] = owner[d]
    BY <1>1, <2>1 DEF Record, ReplayInv, DoubtsStored
  <2> QED
    BY <1>1, <1>5, <2>1, <2>2 DEF ExcusedNext
<1> QED
  BY <1>2, <1>3, <1>4, <1>5

\* What a step revokes is the cookie of the request that ends or exchanges
\* it, or excused.
LEMMA NewlyRevoked ==
  ASSUME IInv, IInv', ReplayInv, Record, NEW s \in Slots, Moves(s), NEW t \in revoked' \ revoked
  PROVE  /\ t \in Tokens /\ t # NONE /\ owner[t] # NONE /\ owner'[t] # NONE
         /\ (Revokes(s) /\ t = job[s].cookie) \/ ExcusedNext(t)
<1>1. t \in Tokens /\ t # NONE
  BY NoneAssumption DEF IInv, TypeOK
<1>2. CASE t = job[s].cookie
  <2>1. owner[t] # NONE
    BY <1>1, <1>2 DEF ReplayInv, CookiesStored
  <2>2. CASE Fails(s)
    <3>1. t \in doubtful'
      BY <1>1, <1>2, <2>2 DEF Record, Hit, Fails
    <3> QED
      BY <1>1, <2>1, <3>1, OwnersStay DEF ExcusedNext
  <2>3. CASE Revokes(s)
    BY <1>1, <1>2, <2>1, <2>3, OwnersStay
  <2>4. CASE RevokesAll(s)
    <3>1. pc[s] = "revokeAll" /\ owner[t] = job[s].user
      BY <2>4 DEF RevokesAll, TokensOf
    <3>2. Excused(t)
      BY <1>2, <3>1, Known DEF JobOK, ReplayInv, DeadIsExcused
    <3> QED
      BY <1>1, <2>1, <3>2, DoubtsStay, OwnersStay
  <2> QED
    BY <2>2, <2>3, <2>4 DEF Moves, Begins, Reads, Issues, InsertToken, Answers, TokensKept
<1>3. CASE t # job[s].cookie
  <2>1. pc[s] = "revokeAll" /\ owner[t] = job[s].user
    BY <1>3 DEF Moves, Begins, Reads, Revokes, RevokesAll, Issues, InsertToken, Answers, Fails,
       TokensKept, TokensOf
  <2>2. job[s].user = owner[job[s].cookie] /\ owner[job[s].cookie] # NONE /\ job[s].cookie \in revoked
    BY <2>1, Known DEF JobOK, Presented
  <2>3. Excused(t)
    BY <2>1, <2>2 DEF ReplayInv, DeadIsExcused, Excused
  <2> QED
    BY <1>1, <2>1, <2>2, <2>3, DoubtsStay, OwnersStay
<1> QED
  BY <1>2, <1>3

\* Cookies go out of date when a request is answered, and only then.
LEMMA AnsweredCookie ==
  ASSUME IInv, NEW s \in Slots, Moves(s), jar' # jar
  PROVE  /\ Answers(s) /\ job[s].browser \in Browsers
         /\ \A a \in Browsers : a # job[s].browser => jar'[a] = jar[a]
         /\ \/ Brings(s) /\ job[s].issued \in Tokens /\ jar'[job[s].browser] = job[s].issued
            \/ job[s].reply = "clear" /\ jar'[job[s].browser] = NONE
<1>1. Answers(s)
  BY DEF Moves, Begins, Reads, Revokes, RevokesAll, Issues, Answers, Fails, TokensKept
<1>2. job[s].browser \in Browsers /\ (Brings(s) => job[s].issued \in Tokens)
  BY <1>1, Known DEF Answers, JobOK, Brings, Signed
<1> QED
  BY <1>1, <1>2 DEF Answers, Brings, IInv, TypeOK

LEMMA CookiesStayApart ==
  ASSUME IInv, IInv', ReplayInv, NEW s \in Slots, Moves(s)
  PROVE  CookiesDiffer' /\ OwnCookies'
<1>1. CookiesDiffer'
  <2>1. CASE jar' = jar
    BY <2>1 DEF ReplayInv, CookiesDiffer
  <2>2. CASE jar' # jar
    BY <2>2, AnsweredCookie DEF ReplayInv, CookiesDiffer, Undelivered
  <2> QED
    BY <2>1, <2>2
<1>2. OwnCookies'
  <2> SUFFICES ASSUME NEW z \in Slots, NEW b \in Browsers, job'[z].cookie # NONE,
                      jar'[b] = job'[z].cookie
               PROVE  job'[z].browser = b
    BY DEF OwnCookies
  <2>1. CASE job'[z].browser = job[z].browser /\ job'[z].cookie = job[z].cookie
    <3>1. jar'[b] = jar[b]
      BY <2>1, AnsweredCookie DEF ReplayInv, Undelivered
    <3> QED
      BY <2>1, <3>1 DEF ReplayInv, OwnCookies
  <2>2. CASE z = s /\ Begins(s) /\ job'[s].cookie = jar[job'[s].browser]
    <3>1. jar' = jar /\ job'[s].browser \in Browsers
      BY <2>2 DEF Begins, TokensKept, IInv, JobsOK, JobOK
    <3> QED
      BY <2>2, <3>1 DEF ReplayInv, CookiesDiffer
  <2> QED
    BY <2>1, <2>2, CookiesUnderWay DEF SameRequest
<1> QED
  BY <1>1, <1>2

LEMMA ReplacedStep ==
  ASSUME IInv, IInv', ReplayInv, Record, NEW s \in Slots, Moves(s)
  PROVE  Replaced'
<1> SUFFICES ASSUME NEW b \in Browsers, jar'[b] \in revoked', ~ExcusedNext(jar'[b])
             PROVE  \E z \in Slots : job'[z].browser = b /\ job'[z].cookie = jar'[b] /\ Replaces(z)'
  BY DEF Replaced, Excused, ExcusedNext
<1>1. jar'[b] \in Tokens /\ jar'[b] # NONE /\ owner'[jar'[b]] # NONE
  BY NoneAssumption DEF IInv, TypeOK, JarsOK
<1>2. CASE jar'[b] \notin revoked
  <2>1. Revokes(s) /\ jar'[b] = job[s].cookie /\ jar' = jar
    BY <1>2, NewlyRevoked DEF Revokes
  <2>2. job[s].browser = b
    BY <1>1, <2>1 DEF ReplayInv, OwnCookies
  <2> QED
    BY <2>1, <2>2 DEF Revokes, Replaces, SameRequest
<1>3. CASE jar'[b] \in revoked
  <2>1. owner[jar'[b]] # NONE /\ ~Excused(jar'[b])
    BY <1>1, <1>3, DoubtsStay DEF ReplayInv, RowsRevoked
  <2>2. jar'[b] = jar[b] /\ (jar' # jar => b # job[s].browser)
    BY <1>1, <1>3, <2>1, AnsweredCookie DEF ReplayInv, Undelivered
  <2>3. PICK z \in Slots : job[z].browser = b /\ job[z].cookie = jar[b] /\ Replaces(z)
    BY <1>3, <2>1, <2>2 DEF ReplayInv, Replaced
  <2>4. CASE z # s
    BY <2>2, <2>3, <2>4, CookiesUnderWay DEF Replaces
  <2>5. CASE z = s
    <3>1. ~Fails(s)
      BY <1>1, <2>1, <2>2, <2>3, <2>5, OwnersStay DEF Fails, Record, Hit, ExcusedNext
    <3>2. CASE Issues(s)
      BY <2>2, <2>3, <2>5, <3>2 DEF Issues, Replaces, SameRequest
    <3>3. ~Answers(s)
      BY <2>2, <2>3, <2>5, <1>1, NoneAssumption DEF Answers, Replaces, ReplayInv, Undelivered, Brings, IInv, TypeOK
    <3> QED
      BY <2>3, <2>5, <3>1, <3>2, <3>3 DEF Moves, Begins, Reads, Revokes, RevokesAll, Replaces
  <2> QED
    BY <2>4, <2>5
<1> QED
  BY <1>2, <1>3

LEMMA UndeliveredStep ==
  ASSUME IInv, IInv', ReplayInv, Record, NEW s \in Slots, Moves(s)
  PROVE  Undelivered'
<1> SUFFICES ASSUME NEW z \in Slots, Brings(z)'
             PROVE  /\ job'[z].issued \in revoked' => ExcusedNext(job'[z].issued)
                    /\ \A b \in Browsers : jar'[b] # job'[z].issued
                    /\ \A y \in Slots : job'[y].cookie # job'[z].issued
                    /\ \A y \in Slots : Brings(y)' /\ job'[y].issued = job'[z].issued => y = z
  BY DEF Undelivered, Excused, ExcusedNext
<1> DEFINE t == job'[z].issued
<1>1. t \in Tokens /\ t # NONE
  BY NoneAssumption DEF Brings, IInv, JobsOK, JobOK, Signed
<1>2. \A y \in Slots : Brings(y)' =>
         \/ Brings(y) /\ job'[y] = job[y] /\ y # s
         \/ y = s /\ Issues(s)
  <2>1. RevokesAll(s) => job'[s].reply = "clear"
    BY Known DEF RevokesAll, JobOK
  <2>2. Brings(s)' => Issues(s)
    BY <2>1 DEF Brings, Moves, Begins, Reads, Revokes, RevokesAll, Issues, Answers, Fails
  <2>3. \A y \in Slots \ {s} : pc'[y] = pc[y] /\ job'[y] = job[y]
    BY DEF Moves
  <2> QED
    BY <2>2, <2>3 DEF Brings
<1>3. CASE z = s /\ Issues(s)
  <2>1. owner[t] = NONE /\ jar' = jar /\ revoked' = revoked /\ job'[s].cookie = job[s].cookie
    BY <1>3 DEF Issues, InsertToken, SameRequest
  <2>2. t \notin revoked' /\ \A b \in Browsers : jar'[b] # t
    BY <1>1, <2>1 DEF ReplayInv, RowsRevoked, IInv, JarsOK
  <2>3. \A y \in Slots : job'[y].cookie # t
    BY <1>1, <2>1, CookiesUnderWay DEF ReplayInv, CookiesStored
  <2>4. \A y \in Slots : Brings(y) => job[y].issued # t
    BY <2>1, Known DEF Brings, JobOK, Signed
  <2> QED
    BY <1>2, <1>3, <2>2, <2>3, <2>4
<1>4. CASE z # s /\ Brings(z) /\ job'[z] = job[z]
  <2>1. /\ t \in revoked => Excused(t)
        /\ \A b \in Browsers : jar[b] # t
        /\ \A y \in Slots : job[y].cookie # t
        /\ \A y \in Slots : Brings(y) /\ job[y].issued = t => y = z
    BY <1>4 DEF ReplayInv, Undelivered
  <2>2. owner[t] # NONE
    BY <1>4, Known DEF Brings, JobOK, Signed
  <2> HIDE DEF t
  <2>3. t \in revoked' => ExcusedNext(t)
    BY <1>1, <2>1, <2>2, NewlyRevoked, DoubtsStay
  <2>4. \A b \in Browsers : jar'[b] # t
    BY <1>1, <1>4, <2>1, AnsweredCookie
  <2>5. \A y \in Slots : job'[y].cookie # t
    <3>1. ASSUME Begins(s), job'[s].cookie = jar[job'[s].browser] PROVE job'[s].cookie # t
      <4>1. job'[s].browser \in Browsers
        BY <3>1 DEF Begins, IInv, JobsOK, JobOK
      <4> QED
        BY <2>1, <3>1, <4>1
    <3> QED
      BY <1>1, <2>1, <3>1, CookiesUnderWay DEF SameRequest
  <2>6. ~Issues(s) \/ job'[s].issued # t
    BY <2>2 DEF Issues, InsertToken
  <2> QED
    BY <1>2, <1>4, <2>1, <2>3, <2>4, <2>5, <2>6 DEF t
<1> QED
  BY <1>2, <1>3, <1>4

LEMMA DeadIsExcusedStep ==
  ASSUME IInv, IInv', ReplayInv, Record, NEW s \in Slots, Moves(s)
  PROVE  DeadIsExcused'
<1> SUFFICES ASSUME NEW z \in Slots, pc'[z] \in {"lookUp", "revokeAll"}, job'[z].cookie \in revoked'
             PROVE  ExcusedNext(job'[z].cookie)
  BY DEF DeadIsExcused, Excused, ExcusedNext
<1> DEFINE t == job'[z].cookie
<1>1. t \in Tokens /\ t # NONE /\ owner'[t] # NONE
  BY NoneAssumption, DoubtsStay DEF IInv, TypeOK, CookiesStored
<1>2. t \in doubtful' => ExcusedNext(t)
  BY DEF ExcusedNext
<1>3. ASSUME NEW y \in Slots, y # z, job'[y].cookie = t PROVE ExcusedNext(t)
  BY <1>1, <1>2, <1>3, DoubtsStay DEF SharedAreDoubtful
<1>4. CASE Begins(z) /\ z = s
  <2>1. jar' = jar /\ revoked' = revoked /\ t = jar[job'[z].browser] /\ pc[z] = "idle"
    BY <1>1, <1>4 DEF Begins, TokensKept
  <2>2. job'[z].browser \in Browsers
    BY DEF IInv, JobsOK, JobOK
  <2>3. Excused(t) \/ \E y \in Slots : job[y].cookie = t /\ Replaces(y)
    BY <2>1, <2>2 DEF ReplayInv, Replaced
  <2>4. \A y \in Slots : Replaces(y) => y # z /\ job'[y] = job[y]
    BY <1>4, <2>1, CookiesUnderWay DEF Replaces
  <2>5. owner[t] # NONE
    BY <2>1 DEF ReplayInv, RowsRevoked
  <2> QED
    BY <1>1, <1>3, <2>3, <2>4, <2>5, DoubtsStay
<1>5. CASE pc[z] \in {"lookUp", "revokeAll"} /\ job'[z].cookie = job[z].cookie
  <2>1. CASE t \in revoked
    <3>1. Excused(t) /\ owner[t] # NONE
      BY <1>5, <2>1 DEF ReplayInv, DeadIsExcused, RowsRevoked
    <3> QED
      BY <1>1, <3>1, DoubtsStay
  <2>2. CASE t \notin revoked
    <3>1. CASE Revokes(s) /\ t = job[s].cookie
      BY <1>3, <1>5, <3>1 DEF Revokes, SameRequest
    <3> QED
      BY <2>2, <3>1, NewlyRevoked
  <2> QED
    BY <2>1, <2>2
<1>6. \/ Begins(z) /\ z = s
      \/ pc[z] \in {"lookUp", "revokeAll"} /\ job'[z].cookie = job[z].cookie
  BY CookiesUnderWay DEF Moves, Begins, Reads, Revokes, RevokesAll, Issues, Answers, Fails,
     SameRequest
<1> QED
  BY <1>4, <1>5, <1>6

LEMMA ReplayStep ==
  ASSUME IInv, ReplayInv, [ReplayNext]_replayVars
  PROVE  ReplayInv'
<1>1. CASE ReplayNext
  <2>1. Record /\ [Steps]_vars
    BY <1>1 DEF ReplayNext, Steps
  <2>2. IInv'
    BY <2>1, StepsKeepIInv
  <2>3. ASSUME NEW s \in Slots, Moves(s) PROVE ReplayInv'
    <3>1. RowsRevoked'
      BY <2>1, <2>2, <2>3, NewlyRevoked, OwnersStay DEF ReplayInv, RowsRevoked, IInv, TypeOK
    <3> QED
      BY <2>1, <2>2, <2>3, <3>1, DoubtsStay, CookiesStayApart, ReplacedStep, UndeliveredStep,
         DeadIsExcusedStep DEF ReplayInv
  <2>4. CASE Still
    <3>1. UNCHANGED <<owner, revoked, jar, pc, job, faults>>
      BY <2>4 DEF Still, TokensKept
    <3>2. doubtful' = doubtful
      <4>1. \A t \in Tokens : Shared(t)' => t \in doubtful
        BY <3>1, NoneAssumption DEF Shared, ReplayInv, SharedAreDoubtful
      <4> QED
        BY <2>1, <3>1, <4>1 DEF Record, Hit
    <3> QED
      BY <3>1, <3>2 DEF ReplayInv, RowsRevoked, CookiesStored, DoubtsStored, SharedAreDoubtful,
         CookiesDiffer, OwnCookies, Replaced, Undelivered, DeadIsExcused, Excused, Replaces, Brings
  <2> QED
    BY <2>1, <2>3, <2>4, StepShape
<1>2. CASE UNCHANGED replayVars
  BY <1>2 DEF replayVars, vars, ReplayInv, RowsRevoked, CookiesStored, DoubtsStored,
     SharedAreDoubtful, CookiesDiffer, OwnCookies, Replaced, Undelivered, DeadIsExcused, Excused,
     Replaces, Brings
<1> QED
  BY <1>1, <1>2

LEMMA ReplayInvariant == ReplaySpec => [](IInv /\ ReplayInv)
<1>1. ReplayInit => Init /\ ReplayInv
  BY NoneAssumption DEF ReplayInit, Init, NoJob, ReplayInv, RowsRevoked, CookiesStored,
     DoubtsStored, SharedAreDoubtful, CookiesDiffer, OwnCookies, Replaced, Undelivered,
     DeadIsExcused, Brings
<1>2. [ReplayNext]_replayVars => [Steps]_vars
  BY DEF ReplayNext, Steps, replayVars
<1> QED
  BY <1>1, <1>2, SessionsInit, StepsKeepIInv, ReplayStep, PTL DEF ReplaySpec

\* Whoever is logged out everywhere had a token of his own presented by two
\* requests at once, by one that failed, or by one whose answer was lost:
\* "something normal operation produces on its own" (auth_service.go), but
\* for that user only.  It holds for any number of users, browsers and
\* requests, whatever fails and however long answers take.
THEOREM AlarmsAreCaused == ReplaySpec => []AlarmsHaveACause
<1>1. IInv /\ ReplayInv => AlarmsHaveACause
  <2> SUFFICES ASSUME IInv, ReplayInv, NEW s \in Slots, pc[s] = "revokeAll"
               PROVE  \E t \in doubtful : owner[t] = job[s].user
    BY DEF AlarmsHaveACause
  <2>1. job[s].cookie \in revoked /\ job[s].user = owner[job[s].cookie]
    BY Known DEF JobOK
  <2> QED
    BY <2>1 DEF ReplayInv, DeadIsExcused, Excused
<1> QED
  BY <1>1, ReplayInvariant, PTL
=============================================================================
