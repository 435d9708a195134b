------------------------------ MODULE TokenBucket ------------------------------
(***************************************************************************)
(* What the per-IP rate limiter promises: every IP has a bucket that holds *)
(* Burst tokens, is full at first, and gains a token every Period ticks;   *)
(* a request is admitted exactly when it can take a whole token.  Nothing  *)
(* here is created on demand, computed lazily or evicted: RateLimiter,     *)
(* which does all three, is shown to implement this specification.         *)
(***************************************************************************)
EXTENDS BucketParameters, Sequences

VARIABLES
    now,            \* the clock
    level,          \* level[ip]: what ip's bucket holds now
    admitted,       \* admitted[ip]: history, when requests of ip were let in
    refused         \* history: IPs with a request turned away at this instant

vars == <<now, level, admitted, refused>>

TypeOK ==
    /\ now \in Nat
    /\ level \in [IPs -> 0..Cap]
    /\ admitted \in [IPs -> Seq(Nat)]
    /\ refused \subseteq IPs

Init ==
    /\ now = 0
    /\ level = [ip \in IPs |-> Cap]
    /\ admitted = [ip \in IPs |-> <<>>]
    /\ refused = {}

Tick ==
    /\ now' = now + 1
    /\ level' = [ip \in IPs |-> AtMost(Cap, level[ip] + 1)]
    /\ refused' = {}
    /\ UNCHANGED admitted

Admit(ip) ==
    /\ level[ip] >= Period
    /\ level' = [level EXCEPT ![ip] = @ - Period]
    /\ admitted' = [admitted EXCEPT ![ip] = Append(@, now)]
    /\ UNCHANGED <<now, refused>>

Refuse(ip) ==
    /\ level[ip] < Period
    /\ refused' = refused \cup {ip}
    /\ UNCHANGED <<now, level, admitted>>

Next == Tick \/ \E ip \in IPs : Admit(ip) \/ Refuse(ip)

Spec == Init /\ [][Next]_vars

-----------------------------------------------------------------------------

\* Between any two admitted requests of an IP, both included, no more than
\* Burst requests and the tokens gained meanwhile were let in.
WindowBound ==
    \A ip \in IPs : \A i, j \in 1..Len(admitted[ip]) : i <= j =>
        (j - i + 1) * Period <= Cap + (admitted[ip][j] - admitted[ip][i])
=============================================================================
