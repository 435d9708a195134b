------------------------------ MODULE RateLimiter ------------------------------
(***************************************************************************)
(* IPRateLimiter, the middleware in front of login and sign-up: a map from *)
(* client IP to a golang.org/x/time/rate limiter, entries made on the      *)
(* first request of an IP and evicted by a background sweep once they have *)
(* not been seen for a while.  allow and each sweep run under one mutex,   *)
(* so each is one step.                                                    *)
(*                                                                         *)
(* rate.Limiter is modelled from its use: it starts full and works out     *)
(* what it has gained since it last granted a request when it is next      *)
(* asked.  Its tokens are counted in ticks, Period ticks to the token, so  *)
(* that a fraction of a token is a whole number.                           *)
(***************************************************************************)
EXTENDS BucketParameters, Sequences, FiniteSets

CONSTANTS
    StaleAfter,     \* staleAfter of cleanupLoop (15 min)
    SweepInterval,  \* sweepInterval of cleanupLoop (10 min)
    SweepDelay,     \* how late the sweep's goroutine may run
    MaxClock,       \* bound on the clock
    NONE            \* no entry

ASSUME SweepAssumption ==
    /\ StaleAfter \in Nat /\ SweepInterval \in Nat \ {0}
    /\ SweepDelay \in Nat /\ SweepDelay < SweepInterval
    /\ MaxClock \in Nat

\* staleAfter is long enough for any bucket to have filled up: what makes
\* forgetting an entry harmless.
ASSUME StaleAssumption == StaleAfter >= Cap

\* ipRateLimiterEntry: the limiter's tokens and the time they are as of.
Entry == [tokens: 0..Cap, last: Nat, lastSeen: Nat]

ASSUME NoneAssumption == NONE \notin Entry

VARIABLES
    now,            \* the clock
    limiters,       \* limiters[ip]: the entry of ip, NONE if it has none
    sweepDue,       \* when the ticker fires next
    admitted,       \* admitted[ip]: history, when requests of ip were let in
    refused         \* history: IPs with a request turned away at this instant

vars == <<now, limiters, sweepDue, admitted, refused>>

TypeOK ==
    /\ now \in Nat
    /\ limiters \in [IPs -> Entry \cup {NONE}]
    /\ sweepDue \in Nat
    /\ admitted \in [IPs -> Seq(Nat)]
    /\ refused \subseteq IPs

Init ==
    /\ now = 0
    /\ limiters = [ip \in IPs |-> NONE]
    /\ sweepDue = SweepInterval
    /\ admitted = [ip \in IPs |-> <<>>]
    /\ refused = {}

-----------------------------------------------------------------------------

\* mutant: a new bucket starts empty.
EmptyEntry == [tokens |-> 0, last |-> now, lastSeen |-> now]
NewEntry == [tokens |-> Cap, last |-> now, lastSeen |-> now]

\* mutant: a limiter is made anew for every request.
AlwaysNew(ip) == NewEntry
EntryOf(ip) == IF limiters[ip] = NONE THEN NewEntry ELSE limiters[ip]

\* rate.Limiter: the tokens gained since it last granted, up to a full bucket.
Available(e) == AtMost(Cap, e.tokens + (now - e.last))

\* What ip's bucket holds now; an IP without an entry would get a full one.
Level(ip) == Available(EntryOf(ip))

\* mutant: what Limiter.Allow answers is not looked at.
AdmitAnyway(ip) ==
    /\ limiters' = [limiters EXCEPT ![ip] =
          [tokens |-> Available(EntryOf(ip)) - Period, last |-> now, lastSeen |-> now]]
    /\ admitted' = [admitted EXCEPT ![ip] = Append(@, now)]
    /\ UNCHANGED <<now, sweepDue, refused>>

\* allow, when Limiter.Allow grants the request.
Admit(ip) ==
    /\ Available(EntryOf(ip)) >= Period
    /\ limiters' = [limiters EXCEPT ![ip] =
          [tokens |-> Available(EntryOf(ip)) - Period, last |-> now, lastSeen |-> now]]
    /\ admitted' = [admitted EXCEPT ![ip] = Append(@, now)]
    /\ UNCHANGED <<now, sweepDue, refused>>

\* allow, when it does not: 429.  The entry has been seen all the same.
Refuse(ip) ==
    /\ Available(EntryOf(ip)) < Period
    /\ limiters' = [limiters EXCEPT ![ip] = [EntryOf(ip) EXCEPT !.lastSeen = now]]
    /\ refused' = refused \cup {ip}
    /\ UNCHANGED <<now, sweepDue, admitted>>

\* time.Since(entry.lastSeen) > staleAfter
Seldom(e) == now - e.lastSeen > StaleAfter + SweepInterval  \* mutant: waits too long
Hasty(e) == now - e.lastSeen > Period               \* mutant: forgets too soon
Stale(e) == now - e.lastSeen > StaleAfter

\* One turn of cleanupLoop.
Sweep ==
    /\ now >= sweepDue
    /\ limiters' = [ip \in IPs |->
          IF limiters[ip] # NONE /\ Stale(limiters[ip]) THEN NONE ELSE limiters[ip]]
    /\ sweepDue' = sweepDue + SweepInterval
    /\ UNCHANGED <<now, admitted, refused>>

Tick ==
    /\ now < MaxClock
    /\ now < sweepDue + SweepDelay
    /\ now' = now + 1
    /\ refused' = {}
    /\ UNCHANGED <<limiters, sweepDue, admitted>>

Next ==
    \/ \E ip \in IPs : Admit(ip) \/ Refuse(ip)
    \/ Sweep
    \/ Tick

Spec == Init /\ [][Next]_vars

-----------------------------------------------------------------------------

Bucket == INSTANCE TokenBucket WITH level <- [ip \in IPs |-> Level(ip)]

\* Making entries on demand, refilling them lazily and evicting them cannot
\* be told from one bucket per IP that was always there: no eviction hands
\* out tokens, no IP spends another's.
ImplementsBucket == Bucket!Spec

\* Between any two admitted requests of an IP, both included, no more than
\* Burst requests and the tokens gained meanwhile were let in.
WindowBound ==
    \A ip \in IPs : \A i, j \in 1..Len(admitted[ip]) : i <= j =>
        (j - i + 1) * Period <= Cap + (admitted[ip][j] - admitted[ip][i])

\* Nobody is turned away who has not used up his share: a refused IP had
\* Burst requests admitted within the Cap ticks before.
RefusalsJustified ==
    \A ip \in refused :
        Cardinality({i \in 1..Len(admitted[ip]) : now <= admitted[ip][i] + Cap}) >= Burst

\* The map does not grow for ever: no entry outlives its last request by
\* more than staleAfter and one sweep interval (cleanupLoop).
EntriesExpire ==
    \A ip \in IPs : limiters[ip] # NONE =>
        now <= limiters[ip].lastSeen + StaleAfter + SweepInterval + SweepDelay

\* "5 attempts/minute/IP, 429 beyond that": no window of Cap ticks (Burst
\* tokens' worth, one minute) admits more than Burst requests of an IP.
AtMostBurstPerWindow ==
    \A ip \in IPs : \A i \in 1..Len(admitted[ip]) :
        i + Burst <= Len(admitted[ip]) =>
            admitted[ip][i + Burst] - admitted[ip][i] >= Cap
=============================================================================
