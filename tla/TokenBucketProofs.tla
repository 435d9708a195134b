--------------------------- MODULE TokenBucketProofs ---------------------------
(***************************************************************************)
(* Proofs about TokenBucket, for any set of IPs, burst and period: the     *)
(* level stays within the bucket, and WindowBound.                         *)
(*                                                                         *)
(* WindowBound speaks of two admissions and is not inductive.  What is:    *)
(* everything admitted since the i-th admission, plus what the bucket      *)
(* still holds, is covered by a full bucket and the time since then.       *)
(***************************************************************************)
EXTENDS TokenBucket, TLAPS

\* What n - i + 1 admissions cost.
Cost(n, i) == (n - i + 1) * Period

Ledger ==
    \A ip \in IPs : \A i \in 1..Len(admitted[ip]) :
        /\ admitted[ip][i] <= now
        /\ Cost(Len(admitted[ip]), i) + level[ip] <= Cap + (now - admitted[ip][i])

Windows ==
    \A ip \in IPs : \A i, j \in 1..Len(admitted[ip]) : i <= j =>
        Cost(j, i) <= Cap + (admitted[ip][j] - admitted[ip][i])

IInv == TypeOK /\ Ledger /\ Windows

LEMMA CapFacts == Cap \in Nat /\ Period <= Cap
  BY BurstAssumption, PeriodAssumption DEF Cap

LEMMA CostFacts ==
  ASSUME NEW n \in Nat, NEW i \in 1..n
  PROVE  Cost(n, i) \in Nat /\ Cost(n + 1, i) = Cost(n, i) + Period
<1> DEFINE m == n - i + 1
<1>1. m \in Nat /\ Cost(n, i) = m * Period /\ Cost(n + 1, i) = (m + 1) * Period
  BY DEF Cost
<1>2. m * Period \in Nat /\ (m + 1) * Period = m * Period + Period
  BY <1>1, PeriodAssumption
<1> QED
  BY <1>1, <1>2

LEMMA CostOfOne == ASSUME NEW n \in Nat PROVE Cost(n, n) = Period
  BY PeriodAssumption DEF Cost

LEMMA BucketInit == Init => IInv
  BY CapFacts DEF Init, IInv, TypeOK, Ledger, Windows

LEMMA TickKeeps == ASSUME IInv, Tick PROVE IInv'
<1>1. TypeOK'
  BY CapFacts DEF IInv, TypeOK, Tick, AtMost
<1>2. Windows'
  BY DEF IInv, Windows, Tick, Cost
<1>3. ASSUME NEW ip \in IPs, NEW i \in 1..Len(admitted[ip])
      PROVE  /\ admitted[ip][i] <= now'
             /\ Cost(Len(admitted[ip]), i) + level'[ip] <= Cap + (now' - admitted[ip][i])
  <2>1. /\ Len(admitted[ip]) \in Nat /\ admitted[ip][i] \in Nat
        /\ level[ip] \in Nat /\ now \in Nat
    BY DEF IInv, TypeOK
  <2>2. level'[ip] \in Nat /\ level'[ip] <= level[ip] + 1
    BY <2>1, CapFacts DEF Tick, AtMost
  <2>3. Cost(Len(admitted[ip]), i) \in Nat
    BY <2>1, CostFacts
  <2>4. /\ admitted[ip][i] <= now
        /\ Cost(Len(admitted[ip]), i) + level[ip] <= Cap + (now - admitted[ip][i])
    BY DEF IInv, Ledger
  <2>5. Cap \in Nat
    BY CapFacts
  <2> DEFINE c == Cost(Len(admitted[ip]), i)  t == admitted[ip][i]
             l == level[ip]                   k == level'[ip]
  <2> HIDE DEF c, t, l, k
  <2>6. /\ c \in Nat /\ t \in Nat /\ l \in Nat /\ k \in Nat /\ now \in Nat
        /\ k <= l + 1 /\ t <= now /\ c + l <= Cap + (now - t)
    BY <2>1, <2>2, <2>3, <2>4 DEF c, t, l, k
  <2>7. now' = now + 1
    BY DEF Tick
  <2>8. t <= now' /\ c + k <= Cap + (now' - t)
    BY <2>5, <2>6, <2>7
  <2> QED
    BY <2>8 DEF c, t, l, k
<1>4. Ledger'
  <2> SUFFICES ASSUME NEW ip \in IPs, NEW i \in 1..Len(admitted'[ip])
               PROVE  /\ admitted'[ip][i] <= now'
                      /\ Cost(Len(admitted'[ip]), i) + level'[ip]
                            <= Cap + (now' - admitted'[ip][i])
    BY DEF Ledger, Cost
  <2>1. admitted' = admitted
    BY DEF Tick
  <2> QED
    BY <1>3, <2>1
<1> QED
  BY <1>1, <1>2, <1>4 DEF IInv

LEMMA AdmitKeeps == ASSUME IInv, NEW p \in IPs, Admit(p) PROVE IInv'
<1> DEFINE n == Len(admitted[p])
<1>1. /\ n \in Nat /\ now \in Nat /\ level[p] \in Nat /\ level[p] <= Cap
      /\ Period \in Nat /\ Cap \in Nat /\ admitted[p] \in Seq(Nat)
  BY PeriodAssumption, CapFacts DEF IInv, TypeOK
<1>2. level'[p] = level[p] - Period /\ level'[p] \in 0..Cap
  BY <1>1, PeriodAssumption DEF Admit, IInv, TypeOK
<1>3. admitted'[p] = Append(admitted[p], now) /\ now' = now
  BY DEF Admit, IInv, TypeOK
<1>4. Len(admitted'[p]) = n + 1 /\ admitted'[p][n + 1] = now
      /\ \A i \in 1..n : admitted'[p][i] = admitted[p][i] /\ admitted[p][i] \in Nat
  BY <1>1, <1>3
<1>5. TypeOK'
  BY <1>1, <1>2, <1>3 DEF Admit, IInv, TypeOK
<1>6. ASSUME NEW i \in 1..(n + 1)
      PROVE  /\ admitted'[p][i] <= now
             /\ Cost(n + 1, i) + level'[p] <= Cap + (now - admitted'[p][i])
  <2>1. CASE i = n + 1
    <3>1. Cost(n + 1, i) = Period
      BY <1>1, <2>1, CostOfOne
    <3> QED
      BY <1>1, <1>2, <1>4, <2>1, <3>1
  <2>2. CASE i \in 1..n
    <3>1. Cost(n, i) \in Nat /\ Cost(n + 1, i) = Cost(n, i) + Period
      BY <1>1, <2>2, CostFacts
    <3>2. admitted[p][i] <= now /\ Cost(n, i) + level[p] <= Cap + (now - admitted[p][i])
      BY <2>2 DEF IInv, Ledger
    <3>3. admitted'[p][i] = admitted[p][i] /\ admitted[p][i] \in Nat
      BY <1>4, <2>2
    <3> QED
      BY <1>1, <1>2, <3>1, <3>2, <3>3
  <2>3. n + 1 \in Nat /\ (i = n + 1 \/ i \in 1..n)
    BY <1>1
  <2> HIDE DEF n
  <2> QED
    BY <2>1, <2>2, <2>3, Zenon
<1>7. ASSUME NEW ip \in IPs, ip # p
      PROVE  admitted'[ip] = admitted[ip] /\ level'[ip] = level[ip]
  BY <1>7 DEF Admit, IInv, TypeOK
<1>8. Ledger'
  <2> SUFFICES ASSUME NEW ip \in IPs, NEW i \in 1..Len(admitted'[ip])
               PROVE  /\ admitted'[ip][i] <= now'
                      /\ Cost(Len(admitted'[ip]), i) + level'[ip]
                            <= Cap + (now' - admitted'[ip][i])
    BY DEF Ledger, Cost
  <2>1. CASE ip = p
    BY <1>3, <1>4, <1>6, <2>1
  <2>2. CASE ip # p
    BY <1>3, <1>7, <2>2 DEF IInv, Ledger
  <2> QED
    BY <2>1, <2>2
<1>9. Windows'
  <2> SUFFICES ASSUME NEW ip \in IPs, NEW i \in 1..Len(admitted'[ip]),
                      NEW j \in 1..Len(admitted'[ip]), i <= j
               PROVE  Cost(j, i) <= Cap + (admitted'[ip][j] - admitted'[ip][i])
    BY DEF Windows, Cost
  <2>1. CASE ip = p /\ j = n + 1
    <3>1. Cost(n + 1, i) + level'[p] <= Cap + (now - admitted'[p][i])
      BY <1>4, <1>6, <2>1
    <3>2. Cost(n + 1, i) \in Nat
      BY <1>1, <1>4, <2>1, CostFacts
    <3>3. admitted'[p][i] \in Nat
      BY <1>1, <1>4, <2>1
    <3> DEFINE c == Cost(n + 1, i)  t == admitted'[p][i]  l == level'[p]
    <3> HIDE DEF c, t, l
    <3>4. c \in Nat /\ t \in Nat /\ l \in Nat /\ c + l <= Cap + (now - t)
      BY <1>1, <1>2, <3>1, <3>2, <3>3 DEF c, t, l
    <3>5. c <= Cap + (now - t)
      BY <1>1, <3>4
    <3>6. admitted'[p][j] = now
      BY <1>4, <2>1
    <3> QED
      BY <2>1, <3>5, <3>6 DEF c, t
  <2>2. CASE ip = p /\ j # n + 1
    <3>1. j \in 1..n /\ i \in 1..n
      BY <1>1, <1>4, <2>2
    <3>2. Cost(j, i) <= Cap + (admitted[p][j] - admitted[p][i])
      BY <3>1, <2>2 DEF IInv, Windows
    <3> QED
      BY <1>4, <2>2, <3>1, <3>2
  <2>3. CASE ip # p
    BY <1>7, <2>3 DEF IInv, Windows
  <2> QED
    BY <2>1, <2>2, <2>3
<1> QED
  BY <1>5, <1>8, <1>9 DEF IInv

LEMMA RefuseKeeps == ASSUME IInv, NEW ip \in IPs, Refuse(ip) PROVE IInv'
  BY DEF Refuse, IInv, TypeOK, Ledger, Windows, Cost

LEMMA BucketStep == IInv /\ [Next]_vars => IInv'
<1> SUFFICES ASSUME IInv, [Next]_vars PROVE IInv'
  OBVIOUS
<1>1. CASE Tick
  BY <1>1, TickKeeps
<1>2. ASSUME NEW ip \in IPs, Admit(ip) PROVE IInv'
  BY <1>2, AdmitKeeps
<1>3. ASSUME NEW ip \in IPs, Refuse(ip) PROVE IInv'
  BY <1>3, RefuseKeeps
<1>4. CASE UNCHANGED vars
  BY <1>4 DEF vars, IInv, TypeOK, Ledger, Windows, Cost
<1> QED
  BY <1>1, <1>2, <1>3, <1>4 DEF Next

\* Whatever the burst, the period and the interleaving of requests, no IP
\* is let in more often in any stretch of time than Burst requests and the
\* tokens gained in it.
THEOREM BucketWindow == Spec => [](TypeOK /\ WindowBound)
<1>1. Init => IInv
  BY BucketInit
<1>2. IInv /\ [Next]_vars => IInv'
  BY BucketStep
<1>3. IInv => TypeOK /\ WindowBound
  BY DEF IInv, Windows, WindowBound, Cost
<1> QED
  BY <1>1, <1>2, <1>3, PTL DEF Spec
=============================================================================
