---------------------------- MODULE BucketParameters ----------------------------
(***************************************************************************)
(* What NewRouter gives NewIPRateLimiter (5 attempts a minute, a burst of  *)
(* 5), shared by TokenBucket and RateLimiter.                              *)
(***************************************************************************)
EXTENDS Naturals

CONSTANTS
    IPs,            \* client addresses
    Burst,          \* tokens a full bucket holds (authRateLimit, 5)
    Period          \* ticks in which one token is gained (60 s / 5)

ASSUME BurstAssumption == Burst \in Nat \ {0}
ASSUME PeriodAssumption == Period \in Nat \ {0}

\* A full bucket.  Levels count in ticks: a token is worth Period of them.
Cap == Burst * Period

AtMost(x, y) == IF x < y THEN x ELSE y
=============================================================================
