------------------------------ MODULE ServerProofs ------------------------------
(***************************************************************************)
(* Proofs about Server, for any finite set of requests and a pool of any   *)
(* size: every connection is idle or held by one request, the row lock is  *)
(* held by a transaction on its way to COMMIT, and a shutdown reported as  *)
(* clean left nobody behind.  Hence NeverAllBlocked and CleanExit.         *)
(***************************************************************************)
EXTENDS Server, FiniteSetTheorems, TLAPS

Holders == {r \in Requests : pc[r] \in Holding}

\* No connection is lost, none is given back twice.
ConnectionsAccounted == idle + Cardinality(Holders) = MaxConns

\* The lock belongs to the one transaction that is past its UPDATE.
LockOfTransaction ==
    \A r \in Requests : pc[r] = "commit" <=> rowLock = r

\* Whoever asks for a connection has a use for one.
UsesLeft == \A r \in Requests : pc[r] = "acquire" => uses[r] > 0

\* Nobody is turned away while the pool is open, and a clean return means
\* that Shutdown found no handler running.
ShutdownInOrder ==
    /\ ~PoolClosed => status = "none" /\ \A r \in Requests : pc[r] \notin Failed
    /\ status = "clean" =>
          PoolClosed /\ \A r \in Requests : pc[r] \notin Running \cup Failed

IInv ==
    /\ TypeOK /\ ConnectionsAccounted /\ LockOfTransaction
    /\ UsesLeft /\ ShutdownInOrder

-----------------------------------------------------------------------------
(* Counting connections. *)

LEMMA HoldersFinite == IsFiniteSet(Holders) /\ Cardinality(Holders) \in Nat
<1>1. Holders \in SUBSET Requests
  BY DEF Holders
<1>2. IsFiniteSet(Holders)
  BY <1>1, RequestsAssumption, FS_Subset
<1> QED
  BY <1>2, FS_CardinalityType

\* A request that takes a connection makes one more holder.
LEMMA OneMoreHolder ==
  ASSUME TypeOK, ConnectionsAccounted, NEW r \in Requests, NEW l \in Holding,
         pc[r] \notin Holding, GoTo(r, l), idle' = idle - 1
  PROVE  ConnectionsAccounted'
<1>1. Holders' = Holders \cup {r}
  BY DEF Holders, GoTo, TypeOK
<1>2. r \notin Holders
  BY DEF Holders
<1>3. Cardinality(Holders \cup {r}) = Cardinality(Holders) + 1
  BY <1>2, HoldersFinite, FS_AddElement
<1> QED
  BY <1>1, <1>3, HoldersFinite, MaxConnsAssumption DEF ConnectionsAccounted, TypeOK

\* A request that gives its connection back leaves one holder fewer.
LEMMA OneHolderLess ==
  ASSUME TypeOK, ConnectionsAccounted, NEW r \in Requests, NEW l,
         pc[r] \in Holding, l \notin Holding, GoTo(r, l), idle' = idle + 1
  PROVE  ConnectionsAccounted' /\ idle' \in 0..MaxConns
<1>1. Holders' = Holders \ {r}
  BY DEF Holders, GoTo, TypeOK
<1>2. r \in Holders
  BY DEF Holders
<1>3. Cardinality(Holders \ {r}) = Cardinality(Holders) - 1
  BY <1>2, HoldersFinite, FS_RemoveElement
<1>4. Cardinality(Holders) # 0
  BY <1>2, HoldersFinite, FS_EmptySet
<1> QED
  BY <1>1, <1>3, <1>4, HoldersFinite, MaxConnsAssumption DEF ConnectionsAccounted, TypeOK

\* A step between two places that both hold a connection, or both do not.
LEMMA SameHolders ==
  ASSUME TypeOK, ConnectionsAccounted, NEW r \in Requests, NEW l,
         pc[r] \in Holding <=> l \in Holding, GoTo(r, l), idle' = idle
  PROVE  ConnectionsAccounted'
<1>1. Holders' = Holders
  BY DEF Holders, GoTo, TypeOK
<1> QED
  BY <1>1 DEF ConnectionsAccounted

-----------------------------------------------------------------------------

LEMMA ServerInit == Init => IInv
<1> SUFFICES ASSUME Init PROVE IInv
  OBVIOUS
<1>1. TypeOK
  BY MaxConnsAssumption DEF Init, TypeOK, Kinds
<1>2. Holders = {}
  BY DEF Init, Holders, Holding
<1>3. ConnectionsAccounted
  BY <1>2, FS_EmptySet, MaxConnsAssumption DEF Init, ConnectionsAccounted
<1>4. LockOfTransaction /\ UsesLeft /\ ShutdownInOrder
  BY RequestsAssumption
     DEF Init, LockOfTransaction, UsesLeft, ShutdownInOrder, PoolClosed, Failed, Running, Holding
<1> QED
  BY <1>1, <1>3, <1>4 DEF IInv

LEMMA ArriveStep ==
  ASSUME IInv, NEW r \in Requests, NEW k \in Kinds, Arrive(r, k)
  PROVE  IInv'
<1> USE DEF Arrive, main, IInv
<1>1. TypeOK'
  BY DEF TypeOK, GoTo, Running, UsesOf
<1>2. ConnectionsAccounted'
  BY SameHolders DEF Holding
<1>3. LockOfTransaction' /\ UsesLeft'
  BY DEF TypeOK, LockOfTransaction, UsesLeft, GoTo, UsesOf
<1>4. ShutdownInOrder'
  BY DEF TypeOK, ShutdownInOrder, PoolClosed, GoTo, Failed
<1> QED
  BY <1>1, <1>2, <1>3, <1>4

LEMMA AcquireStep ==
  ASSUME IInv, NEW r \in Requests, Acquire(r)
  PROVE  IInv'
<1> USE DEF Acquire, main, IInv
<1>1. StatementOf(r) \in {"update", "query"}
  BY DEF StatementOf
<1>2. uses[r] \in 1..2
  BY DEF TypeOK, UsesLeft
<1>3. TypeOK'
  <2>1. uses' \in [Requests -> 0..2]
    BY <1>2 DEF TypeOK
  <2>2. idle' \in 0..MaxConns
    BY MaxConnsAssumption DEF TypeOK
  <2>3. pc' \in [Requests -> {"idle"} \cup Running \cup Handled \cup Failed]
    BY <1>1 DEF TypeOK, GoTo, Running, Holding
  <2> QED
    BY <2>1, <2>2, <2>3 DEF TypeOK
<1>4. ConnectionsAccounted'
  BY <1>1, OneMoreHolder DEF Holding
<1>5. LockOfTransaction' /\ UsesLeft'
  BY <1>1, <1>2 DEF TypeOK, LockOfTransaction, UsesLeft, GoTo
<1>6. ShutdownInOrder'
  BY <1>1 DEF TypeOK, ShutdownInOrder, PoolClosed, GoTo, Failed
<1> QED
  BY <1>3, <1>4, <1>5, <1>6

LEMMA RefusedStep ==
  ASSUME IInv, NEW r \in Requests, AcquireRefused(r)
  PROVE  IInv'
<1> USE DEF AcquireRefused, main, IInv
<1>1. TypeOK'
  BY DEF TypeOK, GoTo, Failed
<1>2. ConnectionsAccounted'
  BY SameHolders DEF Holding
<1>3. LockOfTransaction' /\ UsesLeft'
  BY DEF TypeOK, LockOfTransaction, UsesLeft, GoTo
<1>4. ShutdownInOrder'
  BY DEF TypeOK, ShutdownInOrder, PoolClosed, GoTo, Failed, Running
<1> QED
  BY <1>1, <1>2, <1>3, <1>4

\* Any step that ends r's use of its connection without any failure.
LEMMA ReleaseStep ==
  ASSUME IInv, NEW r \in Requests,
         Query(r) \/ UpdateNoRows(r) \/ Commit(r)
  PROVE  IInv'
<1> USE DEF Query, UpdateNoRows, Commit, main, IInv
<1>1. PICK l \in {"acquire", "ok"} : GoTo(r, l) /\ (l = "acquire" => uses[r] > 0)
  BY DEF AfterRelease
<1>2. pc[r] \in Holding /\ idle' = idle + 1
  BY DEF Release, Holding
<1>3. ConnectionsAccounted' /\ idle' \in 0..MaxConns
  <2>1. l \notin Holding
    BY DEF Holding
  <2> QED
    BY <1>1, <1>2, <2>1, OneHolderLess
<1>4. UNCHANGED <<phase, status, kind, uses>>
  OBVIOUS
<1>5. TypeOK'
  BY <1>1, <1>3, <1>4 DEF TypeOK, GoTo, Running, Handled
<1>6. LockOfTransaction'
  <2>1. CASE pc[r] = "commit"
    <3>1. rowLock = r /\ rowLock' = NONE
      BY <2>1 DEF LockOfTransaction
    <3> QED
      BY <1>1, <3>1, RequestsAssumption DEF TypeOK, LockOfTransaction, GoTo
  <2>2. CASE pc[r] # "commit"
    <3>1. rowLock' = rowLock /\ rowLock # r
      BY <2>2 DEF LockOfTransaction
    <3> QED
      BY <1>1, <3>1 DEF TypeOK, LockOfTransaction, GoTo
  <2> QED
    BY <2>1, <2>2
<1>7. UsesLeft'
  BY <1>1, <1>4 DEF TypeOK, UsesLeft, GoTo
<1>8. ShutdownInOrder'
  BY <1>1, <1>2, <1>4 DEF TypeOK, ShutdownInOrder, PoolClosed, GoTo, Failed, Running
<1> QED
  BY <1>3, <1>5, <1>6, <1>7, <1>8

LEMMA LockStep ==
  ASSUME IInv, NEW r \in Requests, LockRow(r)
  PROVE  IInv'
<1> USE DEF LockRow, main, IInv
<1>1. TypeOK'
  BY DEF TypeOK, GoTo, Running, Holding
<1>2. ConnectionsAccounted'
  BY SameHolders DEF Holding
<1>3. LockOfTransaction' /\ UsesLeft'
  BY RequestsAssumption DEF TypeOK, LockOfTransaction, UsesLeft, GoTo
<1>4. ShutdownInOrder'
  BY DEF TypeOK, ShutdownInOrder, PoolClosed, GoTo, Failed, Running, Holding
<1> QED
  BY <1>1, <1>2, <1>3, <1>4

LEMMA FailStep ==
  ASSUME IInv, NEW r \in Requests, Fail(r)
  PROVE  IInv'
<1> USE DEF Fail, CleanUp, main, IInv
<1>1. ConnectionsAccounted' /\ idle' \in 0..MaxConns
  <2>1. CASE pc[r] \in Holding
    BY <2>1, OneHolderLess DEF Holding
  <2>2. CASE pc[r] \notin Holding
    <3>1. idle' = idle
      BY <2>2
    <3>2. ConnectionsAccounted'
      BY <2>2, <3>1, SameHolders DEF Holding
    <3> QED
      BY <3>1, <3>2 DEF TypeOK
  <2> QED
    BY <2>1, <2>2
<1>2. TypeOK'
  BY <1>1 DEF TypeOK, GoTo, Handled
<1>3. LockOfTransaction'
  BY RequestsAssumption DEF TypeOK, LockOfTransaction, GoTo
<1>4. UsesLeft' /\ ShutdownInOrder'
  BY DEF TypeOK, UsesLeft, ShutdownInOrder, PoolClosed, GoTo, Failed, Running
<1> QED
  BY <1>1, <1>2, <1>3, <1>4

\* The steps of run() that leave the requests alone.
LEMMA PhaseStep ==
  ASSUME IInv, Start \/ StartFails \/ Signal \/ ListenFails \/ Drained \/ GraceExpires
  PROVE  IInv'
<1> USE DEF IInv, Start, StartFails, Signal, ListenFails, Drained, GraceExpires
<1>1. UNCHANGED <<kind, uses, pc, idle, rowLock>>
  OBVIOUS
<1>2. Holders' = Holders
  BY <1>1 DEF Holders
<1>3. TypeOK' /\ LockOfTransaction' /\ UsesLeft'
  BY <1>1 DEF TypeOK, LockOfTransaction, UsesLeft
<1>4. ConnectionsAccounted'
  BY <1>1, <1>2 DEF ConnectionsAccounted
<1>5. ShutdownInOrder'
  BY DEF ShutdownInOrder, PoolClosed, ShutdownDone, NoneRunning
<1> QED
  BY <1>3, <1>4, <1>5

\* The process ends: nobody holds anything any more.
LEMMA EndStep ==
  ASSUME IInv, Exit \/ Crash
  PROVE  IInv'
<1> USE DEF IInv, Exit, Crash
<1>1. pc' = Losses /\ idle' = MaxConns /\ phase' = "exited"
      /\ UNCHANGED <<kind, uses>> /\ status' \in {status, "killed"}
  OBVIOUS
<1>2. \A r \in Requests : pc'[r] = IF pc[r] \in Running THEN "lost" ELSE pc[r]
  BY <1>1 DEF Losses
<1>3. Holders' = {}
  BY <1>2 DEF Holders, Running, Holding
<1>4. ConnectionsAccounted'
  BY <1>1, <1>3, FS_EmptySet, MaxConnsAssumption DEF ConnectionsAccounted
<1>5. rowLock' = NONE
  <2>1. CASE Exit
    <3>1. Cardinality(Holders) = 0
      BY <2>1, HoldersFinite, MaxConnsAssumption DEF ConnectionsAccounted
    <3>2. Holders = {}
      BY <3>1, HoldersFinite, FS_EmptySet
    <3>3. \A r \in Requests : rowLock # r
      BY <3>2 DEF Holders, Holding, LockOfTransaction
    <3> QED
      BY <2>1, <3>3 DEF TypeOK
  <2>2. CASE Crash
    BY <2>2
  <2> QED
    BY <2>1, <2>2
<1>6. TypeOK'
  BY <1>1, <1>2, <1>5, MaxConnsAssumption DEF TypeOK, Losses, Failed
<1>7. LockOfTransaction' /\ UsesLeft'
  BY <1>2, <1>5, RequestsAssumption DEF LockOfTransaction, UsesLeft, Running, Holding
<1>8. ShutdownInOrder'
  <2>1. ASSUME status' = "clean", NEW r \in Requests
        PROVE  pc'[r] \notin Running \cup Failed
    <3>1. status = "clean"
      BY <1>1, <2>1
    <3>2. pc[r] \notin Running \cup Failed
      BY <3>1 DEF ShutdownInOrder
    <3> QED
      BY <1>2, <3>2
  <2> QED
    BY <1>1, <2>1 DEF ShutdownInOrder, PoolClosed
<1> QED
  BY <1>4, <1>6, <1>7, <1>8

LEMMA ServerStep == IInv /\ [Next]_vars => IInv'
<1> SUFFICES ASSUME IInv, [Next]_vars PROVE IInv'
  OBVIOUS
<1>1. CASE Start \/ StartFails \/ Signal \/ ListenFails \/ ShutdownStep \/ Crash
  BY <1>1, PhaseStep, EndStep DEF ShutdownStep
<1>2. ASSUME NEW r \in Requests, NEW k \in Kinds, Arrive(r, k) PROVE IInv'
  BY <1>2, ArriveStep
<1>3. ASSUME NEW r \in Requests, RequestStep(r) \/ Fail(r) PROVE IInv'
  BY <1>3, AcquireStep, RefusedStep, ReleaseStep, LockStep, FailStep DEF RequestStep
<1>4. CASE UNCHANGED vars
  <2>1. Holders' = Holders
    BY <1>4 DEF vars, Holders
  <2> QED
    BY <1>4, <2>1 DEF vars, IInv, TypeOK, ConnectionsAccounted, LockOfTransaction,
       UsesLeft, ShutdownInOrder, PoolClosed
<1> QED
  BY <1>1, <1>2, <1>3, <1>4 DEF Next, Gone

THEOREM ServerInvariant == Spec => []IInv
  BY ServerInit, ServerStep, PTL DEF Spec

-----------------------------------------------------------------------------
(* What the runs check, for any number of requests and connections. *)

\* Every reachable state of the server is well-formed; in particular no
\* connection is given back that nobody had.
THEOREM ServerTypes == Spec => []TypeOK
<1>1. IInv => TypeOK
  BY DEF IInv
<1> QED
  BY <1>1, ServerInvariant, PTL

\* However many requests and however few connections, one of the requests
\* under way can always go on: if nobody has the row lock, then either a
\* holder of a connection can use it or no connection is held at all.
THEOREM PoolNeverDeadlocks == Spec => []NeverAllBlocked
<1>1. ASSUME IInv PROVE NeverAllBlocked
  <2>1. SUFFICES ASSUME \A r \in Requests : pc[r] \in Running => Blocked(r)
                 PROVE  NoneRunning
    BY DEF NeverAllBlocked
  <2>2. rowLock = NONE
    <3>1. SUFFICES ASSUME rowLock \in Requests PROVE FALSE
      BY <1>1 DEF IInv, TypeOK
    <3>2. pc[rowLock] = "commit"
      BY <1>1, <3>1 DEF IInv, LockOfTransaction
    <3> QED
      BY <2>1, <3>1, <3>2 DEF Blocked, Running, Holding
  <2>3. Holders = {}
    BY <2>1, <2>2 DEF Holders, Blocked, Running, Holding
  <2>4. idle = MaxConns
    BY <1>1, <2>3, FS_EmptySet, MaxConnsAssumption DEF IInv, TypeOK, ConnectionsAccounted
  <2> QED
    BY <2>1, <2>2, <2>4, MaxConnsAssumption DEF NoneRunning, Blocked
<1> QED
  BY <1>1, ServerInvariant, PTL

\* A shutdown that is reported as clean failed no request it had accepted.
THEOREM CleanExitFailsNobody == Spec => []CleanExit
<1>1. IInv => CleanExit
  BY DEF IInv, ShutdownInOrder, CleanExit
<1> QED
  BY <1>1, ServerInvariant, PTL
=============================================================================
