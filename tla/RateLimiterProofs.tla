--------------------------- MODULE RateLimiterProofs ---------------------------
(***************************************************************************)
(* Proofs about RateLimiter, for any burst, period, sweep interval and any *)
(* staleAfter no shorter than the time a bucket takes to fill: it          *)
(* implements TokenBucket, so that its entries, made on demand, refilled   *)
(* lazily and evicted, cannot be told from buckets that are always there;  *)
(* hence WindowBound; and its map forgets every IP in the end.             *)
(***************************************************************************)
EXTENDS RateLimiter, FiniteSetTheorems, TLAPS

BP == INSTANCE TokenBucketProofs WITH level <- [ip \in IPs |-> Level(ip)]

\* An entry's times are in order: granted, then seen, then now.
EntriesInOrder ==
    \A ip \in IPs : limiters[ip] # NONE =>
        /\ limiters[ip].last <= limiters[ip].lastSeen
        /\ limiters[ip].lastSeen <= now

\* The next sweep is never far off, nor too late for any entry.
SweepInTime ==
    /\ now <= sweepDue + SweepDelay
    /\ sweepDue <= now + SweepInterval
    /\ \A ip \in IPs : limiters[ip] # NONE =>
          sweepDue <= limiters[ip].lastSeen + StaleAfter + SweepInterval

IInv == TypeOK /\ EntriesInOrder /\ SweepInTime

LEMMA CapFacts == Cap \in Nat /\ Period \in Nat \ {0} /\ Period <= Cap
  BY BurstAssumption, PeriodAssumption DEF Cap

LEMMA LevelFacts ==
  ASSUME IInv, NEW ip \in IPs
  PROVE  /\ EntryOf(ip) \in Entry
         /\ EntryOf(ip).last <= now /\ EntryOf(ip).lastSeen <= now
         /\ Available(EntryOf(ip)) \in 0..Cap
<1>1. limiters[ip] \in Entry \cup {NONE} /\ now \in Nat
  BY DEF IInv, TypeOK
<1>2. NewEntry \in Entry /\ NewEntry.last = now /\ NewEntry.lastSeen = now
  BY <1>1, CapFacts DEF NewEntry, Entry
<1>3. EntryOf(ip) \in Entry
  BY <1>1, <1>2 DEF EntryOf
<1>4. EntryOf(ip).last <= now /\ EntryOf(ip).lastSeen <= now
  <2>1. CASE limiters[ip] = NONE
    BY <1>1, <1>2, <2>1 DEF EntryOf
  <2>2. CASE limiters[ip] # NONE
    <3>1. /\ limiters[ip].last \in Nat /\ limiters[ip].lastSeen \in Nat
          /\ limiters[ip].last <= limiters[ip].lastSeen
          /\ limiters[ip].lastSeen <= now
      BY <1>1, <2>2 DEF Entry, IInv, EntriesInOrder
    <3> QED
      BY <1>1, <2>2, <3>1 DEF EntryOf
  <2> QED
    BY <2>1, <2>2
<1>5. Available(EntryOf(ip)) \in 0..Cap
  BY <1>1, <1>3, <1>4, CapFacts DEF Available, AtMost, Entry
<1> QED
  BY <1>3, <1>4, <1>5

LEMMA LimiterInit == Init => IInv
  BY SweepAssumption DEF Init, IInv, TypeOK, EntriesInOrder, SweepInTime

LEMMA AdmitKeeps == ASSUME IInv, NEW p \in IPs, Admit(p) PROVE IInv'
<1> DEFINE e == [tokens |-> Available(EntryOf(p)) - Period, last |-> now, lastSeen |-> now]
<1>1. e \in Entry /\ e # NONE /\ e.last = now /\ e.lastSeen = now
  BY LevelFacts, CapFacts, NoneAssumption DEF Admit, Entry, IInv, TypeOK
<1>2. limiters' = [limiters EXCEPT ![p] = e] /\ now' = now /\ sweepDue' = sweepDue
  BY DEF Admit
<1>3. TypeOK'
  BY <1>1, <1>2 DEF Admit, IInv, TypeOK
<1>4. EntriesInOrder'
  BY <1>1, <1>2 DEF IInv, TypeOK, EntriesInOrder
<1>5. SweepInTime'
  BY <1>1, <1>2, SweepAssumption, StaleAssumption, CapFacts DEF IInv, TypeOK, SweepInTime
<1> QED
  BY <1>3, <1>4, <1>5 DEF IInv

LEMMA RefuseKeeps == ASSUME IInv, NEW p \in IPs, Refuse(p) PROVE IInv'
<1> DEFINE e == [EntryOf(p) EXCEPT !.lastSeen = now]
<1>1. EntryOf(p) \in Entry /\ EntryOf(p).last <= now /\ now \in Nat
  BY LevelFacts DEF IInv, TypeOK
<1>2. e \in Entry /\ e # NONE /\ e.last <= now /\ e.lastSeen = now
  BY <1>1, NoneAssumption DEF Entry
<1>3. limiters' = [limiters EXCEPT ![p] = e] /\ now' = now /\ sweepDue' = sweepDue
  BY DEF Refuse
<1>4. TypeOK'
  BY <1>2, <1>3 DEF Refuse, IInv, TypeOK
<1>5. EntriesInOrder'
  BY <1>2, <1>3 DEF IInv, TypeOK, EntriesInOrder
<1>6. SweepInTime'
  BY <1>2, <1>3, SweepAssumption DEF IInv, TypeOK, SweepInTime
<1> QED
  BY <1>4, <1>5, <1>6 DEF IInv

LEMMA SweepKeeps == ASSUME IInv, Sweep PROVE IInv'
<1>1. /\ now' = now /\ sweepDue' = sweepDue + SweepInterval /\ sweepDue <= now
      /\ now \in Nat /\ sweepDue \in Nat
      /\ SweepInterval \in Nat /\ SweepDelay \in Nat /\ StaleAfter \in Nat
  BY SweepAssumption DEF Sweep, IInv, TypeOK
<1>2. ASSUME NEW ip \in IPs, limiters'[ip] # NONE
      PROVE  /\ limiters'[ip] = limiters[ip]
             /\ limiters[ip] # NONE /\ limiters[ip] \in Entry
             /\ now <= limiters[ip].lastSeen + StaleAfter
  <2>1. limiters'[ip] = limiters[ip] /\ limiters[ip] # NONE /\ ~Stale(limiters[ip])
    BY <1>2 DEF Sweep
  <2>2. limiters[ip] \in Entry /\ limiters[ip].lastSeen \in Nat
    BY <2>1 DEF IInv, TypeOK, Entry
  <2> QED
    BY <1>1, <2>1, <2>2 DEF Stale
<1>3. TypeOK'
  BY <1>1 DEF Sweep, IInv, TypeOK
<1>4. EntriesInOrder'
  BY <1>1, <1>2 DEF IInv, EntriesInOrder
<1>5. ASSUME NEW ip \in IPs, limiters'[ip] # NONE
      PROVE  sweepDue' <= limiters'[ip].lastSeen + StaleAfter + SweepInterval
  <2>1. limiters'[ip].lastSeen \in Nat /\ now <= limiters'[ip].lastSeen + StaleAfter
    BY <1>2, <1>5 DEF Entry
  <2> QED
    BY <1>1, <2>1
<1>6. now' <= sweepDue' + SweepDelay /\ sweepDue' <= now' + SweepInterval
  BY <1>1 DEF IInv, SweepInTime
<1> QED
  BY <1>3, <1>4, <1>5, <1>6 DEF IInv, SweepInTime

LEMMA TickKeeps == ASSUME IInv, Tick PROVE IInv'
<1>1. TypeOK'
  BY DEF Tick, IInv, TypeOK
<1>2. ASSUME NEW ip \in IPs, limiters'[ip] # NONE
      PROVE  /\ limiters'[ip].last <= limiters'[ip].lastSeen
             /\ limiters'[ip].lastSeen <= now'
             /\ sweepDue' <= limiters'[ip].lastSeen + StaleAfter + SweepInterval
  <2>1. limiters[ip] \in Entry /\ limiters[ip].lastSeen \in Nat /\ now \in Nat
    BY <1>2 DEF Tick, IInv, TypeOK, Entry
  <2> QED
    BY <1>2, <2>1 DEF Tick, IInv, EntriesInOrder, SweepInTime
<1>3. now' <= sweepDue' + SweepDelay /\ sweepDue' <= now' + SweepInterval
  BY SweepAssumption DEF Tick, IInv, TypeOK, SweepInTime
<1> QED
  BY <1>1, <1>2, <1>3 DEF IInv, EntriesInOrder, SweepInTime

LEMMA LimiterStep == IInv /\ [Next]_vars => IInv'
<1> SUFFICES ASSUME IInv, [Next]_vars PROVE IInv'
  OBVIOUS
<1>1. ASSUME NEW ip \in IPs, Admit(ip) PROVE IInv'
  BY <1>1, AdmitKeeps
<1>2. ASSUME NEW ip \in IPs, Refuse(ip) PROVE IInv'
  BY <1>2, RefuseKeeps
<1>3. CASE Sweep
  BY <1>3, SweepKeeps
<1>4. CASE Tick
  BY <1>4, TickKeeps
<1>5. CASE UNCHANGED vars
  BY <1>5 DEF vars, IInv, TypeOK, EntriesInOrder, SweepInTime
<1> QED
  BY <1>1, <1>2, <1>3, <1>4, <1>5 DEF Next

LEMMA LimiterInductive == Spec => []IInv
<1>1. Init => IInv
  BY LimiterInit
<1>2. IInv /\ [Next]_vars => IInv'
  BY LimiterStep
<1> QED
  BY <1>1, <1>2, PTL DEF Spec

-----------------------------------------------------------------------------
(* The refinement: level[ip] is what ip's entry, if any, works out to now. *)

\* A level function differs from another in no IP but p.
LEMMA LevelsAgree ==
  ASSUME NEW ip \in IPs, limiters'[ip] = limiters[ip], now' = now
  PROVE  Level(ip)' = Level(ip)
  BY DEF Level, Available, EntryOf, NewEntry

LEMMA InitMaps == Init => Bucket!Init
<1> SUFFICES ASSUME Init PROVE Bucket!Init
  OBVIOUS
<1>1. ASSUME NEW ip \in IPs PROVE Level(ip) = Cap
  <2>1. EntryOf(ip) = NewEntry
    BY DEF Init, EntryOf
  <2>2. Cap \in Nat /\ now = 0
    BY CapFacts DEF Init
  <2>3. Available(NewEntry) = AtMost(Cap, Cap + (0 - 0))
    BY <2>2 DEF Available, NewEntry
  <2> QED
    BY <2>1, <2>2, <2>3 DEF Level, AtMost
<1> QED
  BY <1>1 DEF Init, Bucket!Init, Bucket!Cap, Cap

LEMMA AdmitMaps == ASSUME IInv, NEW p \in IPs, Admit(p) PROVE Bucket!Admit(p)
<1>1. Level(p) >= Period /\ Level(p) \in 0..Cap /\ now \in Nat
  BY LevelFacts DEF Admit, Level, IInv, TypeOK
<1>2. Level(p)' = Level(p) - Period
  <2> DEFINE e == [tokens |-> Level(p) - Period, last |-> now, lastSeen |-> now]
  <2>1. limiters'[p] = e /\ now' = now
    BY DEF Admit, Level, IInv, TypeOK
  <2>2. e \in Entry
    BY <1>1, CapFacts DEF Entry
  <2>3. EntryOf(p)' = e
    BY <2>1, <2>2, NoneAssumption DEF EntryOf
  <2>4. Level(p)' = AtMost(Cap, Level(p) - Period + (now - now))
    BY <2>1, <2>3 DEF Level, Available, AtMost
  <2> QED
    BY <1>1, <2>4, CapFacts DEF AtMost
<1>3. ASSUME NEW ip \in IPs, ip # p PROVE Level(ip)' = Level(ip)
  BY <1>3, LevelsAgree DEF Admit, IInv, TypeOK
<1>4. [ip \in IPs |-> Level(ip)']
        = [[ip \in IPs |-> Level(ip)] EXCEPT ![p] = @ - Period]
  BY <1>2, <1>3
<1> QED
  BY <1>1, <1>4 DEF Admit, Bucket!Admit

LEMMA RefuseMaps == ASSUME IInv, NEW p \in IPs, Refuse(p) PROVE Bucket!Refuse(p)
<1>1. Level(p) < Period /\ EntryOf(p) \in Entry
  BY LevelFacts DEF Refuse, Level
<1>2. Level(p)' = Level(p)
  <2> DEFINE e == [EntryOf(p) EXCEPT !.lastSeen = now]
  <2>1. limiters'[p] = e /\ now' = now
    BY DEF Refuse, IInv, TypeOK
  <2>2. e \in Entry /\ e.tokens = EntryOf(p).tokens /\ e.last = EntryOf(p).last
    BY <1>1 DEF Entry, IInv, TypeOK
  <2>3. EntryOf(p)' = e
    BY <2>1, <2>2, NoneAssumption DEF EntryOf
  <2> QED
    BY <2>1, <2>2, <2>3 DEF Level, Available, AtMost
<1>3. ASSUME NEW ip \in IPs, ip # p PROVE Level(ip)' = Level(ip)
  BY <1>3, LevelsAgree DEF Refuse, IInv, TypeOK
<1>4. [ip \in IPs |-> Level(ip)'] = [ip \in IPs |-> Level(ip)]
  BY <1>2, <1>3
<1> QED
  BY <1>1, <1>4 DEF Refuse, Bucket!Refuse

\* Evicting is a stutter: whatever is evicted had filled up long ago.
LEMMA SweepMaps == ASSUME IInv, Sweep PROVE UNCHANGED Bucket!vars
<1>1. ASSUME NEW ip \in IPs PROVE Level(ip)' = Level(ip)
  <2>1. CASE limiters'[ip] = limiters[ip]
    BY <2>1, LevelsAgree DEF Sweep
  <2>2. CASE limiters'[ip] # limiters[ip]
    <3>1. limiters[ip] # NONE /\ Stale(limiters[ip]) /\ limiters'[ip] = NONE /\ now' = now
      BY <2>2 DEF Sweep
    <3>2. /\ limiters[ip] \in Entry /\ now \in Nat
          /\ limiters[ip].tokens \in Nat /\ limiters[ip].last \in Nat
          /\ limiters[ip].lastSeen \in Nat
          /\ limiters[ip].last <= limiters[ip].lastSeen
      BY <3>1, CapFacts DEF IInv, TypeOK, EntriesInOrder, Entry
    <3>3. limiters[ip].tokens + (now - limiters[ip].last) >= Cap
      BY <3>1, <3>2, CapFacts, StaleAssumption, SweepAssumption DEF Stale
    <3>4. Level(ip) = Cap
      BY <3>1, <3>2, <3>3, CapFacts DEF Level, EntryOf, Available, AtMost
    <3>5. Level(ip)' = Cap
      BY <3>1, <3>2, CapFacts DEF Level, EntryOf, NewEntry, Available, AtMost
    <3> QED
      BY <3>4, <3>5
  <2> QED
    BY <2>1, <2>2
<1>2. [ip \in IPs |-> Level(ip)'] = [ip \in IPs |-> Level(ip)]
  BY <1>1
<1> QED
  BY <1>2 DEF Sweep, Bucket!vars

LEMMA TickMaps == ASSUME IInv, Tick PROVE Bucket!Tick
<1>1. ASSUME NEW ip \in IPs PROVE Level(ip)' = AtMost(Cap, Level(ip) + 1)
  <2>1. now \in Nat /\ now' = now + 1 /\ limiters'[ip] = limiters[ip]
    BY DEF Tick, IInv, TypeOK
  <2>2. CASE limiters[ip] = NONE
    <3>1. Level(ip) = Cap /\ Level(ip)' = Cap
      BY <2>1, <2>2, CapFacts DEF Level, EntryOf, NewEntry, Available, AtMost
    <3> QED
      BY <3>1, CapFacts DEF AtMost
  <2>3. CASE limiters[ip] # NONE
    <3>1. EntryOf(ip) = limiters[ip] /\ EntryOf(ip)' = limiters[ip]
      BY <2>1, <2>3 DEF EntryOf
    <3>2. limiters[ip].tokens \in Nat /\ limiters[ip].last \in Nat
      BY <2>3, CapFacts DEF IInv, TypeOK, Entry
    <3>3. Level(ip) = AtMost(Cap, limiters[ip].tokens + (now - limiters[ip].last))
      BY <3>1 DEF Level, Available
    <3>4. Level(ip)' = AtMost(Cap, limiters[ip].tokens + (now' - limiters[ip].last))
      BY <2>1, <3>1 DEF Level, Available, AtMost
    <3> QED
      BY <2>1, <3>2, <3>3, <3>4, CapFacts DEF AtMost
  <2> QED
    BY <2>2, <2>3
<1>2. [ip \in IPs |-> Level(ip)'] = [ip \in IPs |-> AtMost(Cap, Level(ip) + 1)]
  BY <1>1
<1> QED
  BY <1>2 DEF Tick, Bucket!Tick, Bucket!AtMost, Bucket!Cap, AtMost, Cap

LEMMA StepMaps == IInv /\ [Next]_vars => [Bucket!Next]_(Bucket!vars)
<1> SUFFICES ASSUME IInv, [Next]_vars PROVE [Bucket!Next]_(Bucket!vars)
  OBVIOUS
<1>1. ASSUME NEW ip \in IPs, Admit(ip) PROVE Bucket!Next
  BY <1>1, AdmitMaps DEF Bucket!Next
<1>2. ASSUME NEW ip \in IPs, Refuse(ip) PROVE Bucket!Next
  BY <1>2, RefuseMaps DEF Bucket!Next
<1>3. CASE Sweep
  BY <1>3, SweepMaps
<1>4. CASE Tick
  BY <1>4, TickMaps DEF Bucket!Next
<1>5. CASE UNCHANGED vars
  <2>1. \A ip \in IPs : Level(ip)' = Level(ip)
    BY <1>5 DEF vars, Level, Available, EntryOf, NewEntry
  <2>2. [ip \in IPs |-> Level(ip)'] = [ip \in IPs |-> Level(ip)]
    BY <2>1
  <2> QED
    BY <1>5, <2>2 DEF vars, Bucket!vars
<1> QED
  BY <1>1, <1>2, <1>3, <1>4, <1>5 DEF Next

\* The limiter the code builds implements the eager, never-evicted bucket
\* per IP, whatever the constants, as long as staleAfter covers a refill.
THEOREM LimiterIsBucket == Spec => ImplementsBucket
<1>1. Init => Bucket!Init
  BY InitMaps
<1>2. IInv /\ [Next]_vars => [Bucket!Next]_(Bucket!vars)
  BY StepMaps
<1> QED
  BY <1>1, <1>2, LimiterInductive, PTL DEF Spec, ImplementsBucket, Bucket!Spec

\* Hence no IP gets more through login and sign-up, in any stretch of time,
\* than Burst requests and the tokens gained in it, evictions or not.
THEOREM LimiterWindow == Spec => []WindowBound
<1>1. Bucket!Init => BP!Init
  BY DEF Bucket!Init, BP!Init, Bucket!Cap, BP!Cap
<1>2. [Bucket!Next]_(Bucket!vars) => [BP!Next]_(BP!vars)
  <2>1. Bucket!Tick => BP!Tick
    BY DEF Bucket!Tick, BP!Tick, Bucket!AtMost, BP!AtMost, Bucket!Cap, BP!Cap
  <2>2. \A ip \in IPs : Bucket!Admit(ip) => BP!Admit(ip)
    BY DEF Bucket!Admit, BP!Admit
  <2>3. \A ip \in IPs : Bucket!Refuse(ip) => BP!Refuse(ip)
    BY DEF Bucket!Refuse, BP!Refuse
  <2> QED
    BY <2>1, <2>2, <2>3 DEF Bucket!Next, BP!Next, Bucket!vars, BP!vars
<1>3. BP!Spec => [](BP!TypeOK /\ BP!WindowBound)
  BY BP!BucketWindow, BurstAssumption, PeriodAssumption
     DEF BP!BurstAssumption, BP!PeriodAssumption
<1>4. BP!WindowBound => WindowBound
  BY DEF BP!WindowBound, WindowBound, BP!Cap, Cap
<1> QED
  BY <1>1, <1>2, <1>3, <1>4, LimiterIsBucket, PTL
     DEF ImplementsBucket, Bucket!Spec, BP!Spec

-----------------------------------------------------------------------------

\* Every IP is forgotten at most one staleAfter, one sweep interval and the
\* sweep's delay after its last request, so the map cannot grow for ever.
THEOREM LimiterForgets == Spec => [](TypeOK /\ EntriesExpire)
<1>1. IInv => TypeOK /\ EntriesExpire
  <2> SUFFICES ASSUME IInv, NEW ip \in IPs, limiters[ip] # NONE
               PROVE  now <= limiters[ip].lastSeen + StaleAfter + SweepInterval + SweepDelay
    BY DEF IInv, EntriesExpire
  <2>1. limiters[ip].lastSeen \in Nat /\ now \in Nat /\ sweepDue \in Nat
    BY DEF IInv, TypeOK, Entry
  <2> QED
    BY <2>1, SweepAssumption DEF IInv, SweepInTime
<1> QED
  BY <1>1, LimiterInductive, PTL

\* Entries, clocks and histories are well-formed in every reachable state.
THEOREM LimiterTypes == Spec => []TypeOK
<1>1. IInv => TypeOK
  BY DEF IInv
<1> QED
  BY <1>1, LimiterInductive, PTL

-----------------------------------------------------------------------------
(* RefusalsJustified.  The invariant looks back over every stretch of time *)
(* up to a full bucket's: what has been spent in it and what is left make  *)
(* up for the tokens gained in it.                                         *)

\* The admissions of ip in the last d ticks, and this instant's.
Recent(ip, d) == {i \in 1..Len(admitted[ip]) : now <= admitted[ip][i] + d}

Spent(ip, d) == Period * Cardinality(Recent(ip, d))

NothingLost == \A ip \in IPs : \A d \in 0..Cap : d <= Level(ip) + Spent(ip, d)

RefusedAreEmpty == \A ip \in refused : Level(ip) < Period

RInv == IInv /\ NothingLost /\ RefusedAreEmpty

LEMMA RecentFacts ==
  ASSUME TypeOK, NEW ip \in IPs, NEW d
  PROVE  /\ IsFiniteSet(Recent(ip, d)) /\ Cardinality(Recent(ip, d)) \in Nat
         /\ Spent(ip, d) \in Nat
<1>1. Len(admitted[ip]) \in Nat
  BY DEF TypeOK
<1>2. IsFiniteSet(1..Len(admitted[ip]))
  BY <1>1, FS_Interval
<1>3. Recent(ip, d) \in SUBSET (1..Len(admitted[ip]))
  BY DEF Recent
<1>4. IsFiniteSet(Recent(ip, d))
  BY <1>2, <1>3, FS_Subset
<1>5. Cardinality(Recent(ip, d)) \in Nat
  BY <1>4, FS_CardinalityType
<1> QED
  BY <1>4, <1>5, PeriodAssumption DEF Spent

\* One more admission costs a token in every stretch that ends now.
LEMMA AdmitSpends ==
  ASSUME IInv, NEW p \in IPs, Admit(p), NEW d \in 0..Cap
  PROVE  Spent(p, d)' = Spent(p, d) + Period
<1> DEFINE s == admitted[p]
           n == Len(s) + 1
<1>1. s \in Seq(Nat) /\ Len(s) \in Nat /\ now \in Nat /\ now' = now /\ d \in Nat
  BY CapFacts DEF IInv, TypeOK, Admit
<1>2. admitted'[p] = Append(s, now)
  BY DEF Admit, IInv, TypeOK
<1>3. /\ Len(admitted'[p]) = n /\ admitted'[p][n] = now
      /\ \A i \in 1..Len(s) : admitted'[p][i] = s[i]
  BY <1>1, <1>2
<1>4. Recent(p, d)' = Recent(p, d) \cup {n}
  BY <1>1, <1>3 DEF Recent
<1>5. n \notin Recent(p, d)
  BY <1>1 DEF Recent
<1>6. IsFiniteSet(Recent(p, d)) /\ Cardinality(Recent(p, d)) \in Nat
  BY RecentFacts DEF IInv
<1>7. Cardinality(Recent(p, d)') = Cardinality(Recent(p, d)) + 1
  BY <1>4, <1>5, <1>6, FS_AddElement
<1> QED
  BY <1>6, <1>7, PeriodAssumption DEF Spent

LEMMA SameHistory ==
  ASSUME NEW ip \in IPs, NEW d, admitted'[ip] = admitted[ip], now' = now
  PROVE  Spent(ip, d)' = Spent(ip, d)
  BY DEF Spent, Recent

LEMMA NothingLostInit == Init => NothingLost /\ RefusedAreEmpty
<1> SUFFICES ASSUME Init PROVE NothingLost
  BY DEF Init, RefusedAreEmpty
<1>1. TypeOK
  BY LimiterInit DEF IInv
<1>2. Bucket!Init
  BY InitMaps
<1> QED
  BY <1>1, <1>2, RecentFacts, CapFacts DEF NothingLost, Bucket!Init, Bucket!Cap, Cap

LEMMA AdmitLoses == ASSUME RInv, NEW p \in IPs, Admit(p) PROVE RInv'
<1>1. IInv /\ IInv'
  BY AdmitKeeps DEF RInv
<1>2. Bucket!Admit(p)
  BY <1>1, AdmitMaps
<1>3. /\ Level(p) >= Period /\ Level(p)' = Level(p) - Period
      /\ \A ip \in IPs : ip # p => Level(ip)' = Level(ip)
  BY <1>2 DEF Bucket!Admit
<1>4. ASSUME NEW ip \in IPs, NEW d \in 0..Cap
      PROVE  d <= Level(ip)' + Spent(ip, d)'
  <2>1. Spent(ip, d) \in Nat /\ Level(ip) \in Nat /\ d \in Nat /\ Period \in Nat
    BY <1>1, RecentFacts, LevelFacts, CapFacts DEF IInv, Level
  <2>2. d <= Level(ip) + Spent(ip, d)
    BY DEF RInv, NothingLost
  <2>3. CASE ip = p
    BY <1>1, <1>3, <2>1, <2>2, <2>3, AdmitSpends
  <2>4. CASE ip # p
    <3>1. admitted'[ip] = admitted[ip] /\ now' = now
      BY <1>1, <2>4 DEF Admit, IInv, TypeOK
    <3> QED
      BY <1>3, <2>2, <2>4, <3>1, SameHistory
  <2> QED
    BY <2>3, <2>4
<1>5. p \notin refused
  <2>1. Level(p) \in Nat /\ Period \in Nat
    BY <1>1, LevelFacts, CapFacts DEF Level
  <2> QED
    BY <1>3, <2>1 DEF RInv, RefusedAreEmpty
<1>6. RefusedAreEmpty'
  BY <1>1, <1>3, <1>5 DEF RInv, RefusedAreEmpty, Admit, IInv, TypeOK
<1> QED
  BY <1>1, <1>4, <1>6 DEF RInv, NothingLost

\* A step that changes no level, no history and not the time.
LEMMA StillNothingLost ==
  ASSUME RInv, IInv', UNCHANGED <<now, admitted>>,
         \A ip \in IPs : Level(ip)' = Level(ip),
         \A ip \in refused' : ip \in refused \/ Level(ip) < Period
  PROVE  RInv'
<1>1. NothingLost'
  BY SameHistory DEF RInv, NothingLost
<1>2. refused' \subseteq IPs
  BY DEF IInv, TypeOK
<1>3. RefusedAreEmpty'
  BY <1>2 DEF RInv, RefusedAreEmpty
<1> QED
  BY <1>1, <1>3 DEF RInv

\* A tick gains a tick's worth, unless the bucket is full.
LEMMA TickGains == ASSUME RInv, Tick PROVE RInv'
<1>1. IInv /\ IInv'
  BY TickKeeps DEF RInv
<1>2. Bucket!Tick
  BY <1>1, TickMaps
<1>3. \A ip \in IPs : Level(ip)' = AtMost(Cap, Level(ip) + 1)
  BY <1>2 DEF Bucket!Tick, Bucket!AtMost, AtMost, Bucket!Cap, Cap
<1>4. now \in Nat /\ now' = now + 1 /\ admitted' = admitted /\ refused' = {}
  BY <1>1 DEF Tick, IInv, TypeOK
<1>5. ASSUME NEW ip \in IPs, NEW d \in 0..Cap
      PROVE  d <= Level(ip)' + Spent(ip, d)'
  <2>1. /\ Level(ip) \in Nat /\ Level(ip)' \in Nat /\ Spent(ip, d)' \in Nat
        /\ d \in Nat /\ Cap \in Nat
    <3>1. TypeOK' => Spent(ip, d)' \in Nat
      <4>1. TypeOK => Spent(ip, d) \in Nat
        BY RecentFacts
      <4>2. Len(admitted[ip]) \in Nat
        BY <1>1 DEF IInv, TypeOK
      <4>3. IsFiniteSet(1..Len(admitted[ip]))
        BY <4>2, FS_Interval
      <4>4. Recent(ip, d)' \in SUBSET (1..Len(admitted[ip]))
        BY <1>4 DEF Recent
      <4>5. IsFiniteSet(Recent(ip, d)')
        BY <4>3, <4>4, FS_Subset
      <4>6. Cardinality(Recent(ip, d)') \in Nat
        BY <4>5, FS_CardinalityType
      <4> QED
        BY <4>6, PeriodAssumption DEF Spent
    <3>2. Level(ip) \in Nat
      BY <1>1, LevelFacts DEF Level
    <3> QED
      BY <1>1, <1>3, <3>1, <3>2, CapFacts DEF IInv, AtMost
  <2>2. CASE Level(ip)' = Cap
    BY <2>1, <2>2
  <2>3. CASE d = 0
    BY <2>1, <2>3
  <2>4. CASE Level(ip)' = Level(ip) + 1 /\ d # 0
    <3>1. d - 1 \in 0..Cap /\ d - 1 <= Level(ip) + Spent(ip, d - 1)
      BY <2>1, <2>4 DEF RInv, NothingLost
    <3>2. Recent(ip, d)' = Recent(ip, d - 1)
      <4>1. \A i \in 1..Len(admitted[ip]) : admitted[ip][i] \in Nat
        BY <1>1 DEF IInv, TypeOK
      <4> QED
        BY <1>4, <2>1, <4>1 DEF Recent
    <3>3. Spent(ip, d)' = Spent(ip, d - 1)
      BY <3>2 DEF Spent
    <3>4. Spent(ip, d - 1) \in Nat
      BY <1>1, RecentFacts DEF IInv
    <3> QED
      BY <2>1, <2>4, <3>1, <3>3, <3>4
  <2> QED
    BY <1>3, <2>1, <2>2, <2>3, <2>4 DEF AtMost
<1> QED
  BY <1>1, <1>4, <1>5 DEF RInv, NothingLost, RefusedAreEmpty

LEMMA RefusalsStep == RInv /\ [Next]_vars => RInv'
<1> SUFFICES ASSUME RInv, [Next]_vars PROVE RInv'
  OBVIOUS
<1>1. IInv /\ IInv'
  BY LimiterStep DEF RInv
<1>2. ASSUME NEW p \in IPs, Admit(p) PROVE RInv'
  BY <1>2, AdmitLoses
<1>3. ASSUME NEW p \in IPs, Refuse(p) PROVE RInv'
  <2>1. Bucket!Refuse(p)
    BY <1>1, <1>3, RefuseMaps
  <2>2. Level(p) < Period /\ \A ip \in IPs : Level(ip)' = Level(ip)
    BY <2>1 DEF Bucket!Refuse
  <2> QED
    BY <1>1, <1>3, <2>2, StillNothingLost DEF Refuse
<1>4. CASE Sweep
  <2>1. \A ip \in IPs : Level(ip)' = Level(ip)
    BY <1>1, <1>4, SweepMaps DEF Bucket!vars
  <2> QED
    BY <1>1, <1>4, <2>1, StillNothingLost DEF Sweep
<1>5. CASE Tick
  BY <1>5, TickGains
<1>6. CASE UNCHANGED vars
  <2>1. \A ip \in IPs : Level(ip)' = Level(ip)
    BY <1>6 DEF vars, Level, Available, EntryOf, NewEntry
  <2> QED
    BY <1>1, <1>6, <2>1, StillNothingLost DEF vars
<1> QED
  BY <1>2, <1>3, <1>4, <1>5, <1>6 DEF Next

LEMMA EnoughSpent ==
  ASSUME NEW n \in Nat, Burst * Period < Period + Period * n
  PROVE  n >= Burst
<1> SUFFICES ASSUME n + 1 <= Burst PROVE FALSE
  BY BurstAssumption
<1>1. (n + 1) * Period <= Burst * Period
  BY BurstAssumption, PeriodAssumption
<1>2. (n + 1) * Period = Period + Period * n
  BY PeriodAssumption
<1> QED
  BY <1>1, <1>2, BurstAssumption, PeriodAssumption

\* Whoever is refused has had Burst requests admitted in the time it takes
\* to fill a bucket: sweeps, late or not, cost nobody a token.
THEOREM LimiterIsFair == Spec => []RefusalsJustified
<1>1. Init => RInv
  BY LimiterInit, NothingLostInit DEF RInv
<1>2. RInv /\ [Next]_vars => RInv'
  BY RefusalsStep
<1>3. RInv => RefusalsJustified
  <2> SUFFICES ASSUME RInv, NEW ip \in refused
               PROVE  Cardinality(Recent(ip, Cap)) >= Burst
    BY DEF RefusalsJustified, Recent
  <2>1. ip \in IPs /\ TypeOK /\ IInv
    BY DEF RInv, IInv, TypeOK
  <2>2. Cap <= Level(ip) + Spent(ip, Cap) /\ Level(ip) < Period
    BY <2>1, CapFacts DEF RInv, NothingLost, RefusedAreEmpty
  <2>3. Level(ip) \in Nat /\ Cardinality(Recent(ip, Cap)) \in Nat /\ Spent(ip, Cap) \in Nat
    BY <2>1, LevelFacts, RecentFacts DEF Level
  <2>4. Cap < Period + Spent(ip, Cap)
    BY <2>2, <2>3, CapFacts
  <2> QED
    BY <2>3, <2>4, EnoughSpent DEF Cap, Spent
<1> QED
  BY <1>1, <1>2, <1>3, PTL DEF Spec
=============================================================================
