--------------------------------- MODULE Server ---------------------------------
(***************************************************************************)
(* The life of the server process (cmd/api/main.go: start, serve, graceful *)
(* shutdown) and the connection pool its requests share: who holds one of  *)
(* the DB_MAX_CONNS connections, and waits for what meanwhile.             *)
(*                                                                         *)
(* A request takes a connection for each of its statements and gives it    *)
(* back after it, a transaction keeps one from BEGIN to COMMIT.  The only  *)
(* row lock two requests contend for is the one DecideCustomOrder takes on *)
(* its order; all deciding requests here want the same order.  What ends a *)
(* request's context (its timeout, a client that left) may happen at any   *)
(* time, so the clock of 30 s, 10 s and 2 s timeouts is left out.          *)
(***************************************************************************)
EXTENDS Naturals, FiniteSets

CONSTANTS
    Requests,       \* requests; one goroutine each
    MaxConns,       \* DB_MAX_CONNS
    NONE            \* nobody holds the row lock

ASSUME RequestsAssumption == IsFiniteSet(Requests) /\ NONE \notin Requests
ASSUME MaxConnsAssumption == MaxConns \in Nat \ {0}

VARIABLES
    phase,          \* where run() is
    status,         \* what run() returned, "none" before
    kind,           \* kind[r]: the route of request r
    uses,           \* uses[r]: the connections r has still to ask for
    pc,             \* pc[r]: what r does, or how it ended
    idle,           \* connections nobody holds
    rowLock         \* the request whose transaction locks the order

main == <<phase, status>>
vars == <<phase, status, kind, uses, pc, idle, rowLock>>

Kinds    == {"health", "read", "decide"}
Holding  == {"query", "update", "commit"}
Running  == {"acquire"} \cup Holding
Handled  == {"ok", "error"}                 \* the handler gave its own answer
Failed   == {"refused", "lost"}             \* the shutdown got in the way

TypeOK ==
    /\ phase \in {"starting", "serving", "draining", "closing", "exited"}
    /\ status \in {"none", "clean", "failed", "killed"}
    /\ kind \in [Requests -> Kinds]
    /\ uses \in [Requests -> 0..2]
    /\ pc \in [Requests -> {"idle"} \cup Running \cup Handled \cup Failed]
    /\ idle \in 0..MaxConns
    /\ rowLock \in Requests \cup {NONE}

Init ==
    /\ phase = "starting"
    /\ status = "none"
    /\ kind = [r \in Requests |-> "health"]
    /\ uses = [r \in Requests |-> 0]
    /\ pc = [r \in Requests |-> "idle"]
    /\ idle = MaxConns
    /\ rowLock = NONE

-----------------------------------------------------------------------------
(* Helpers. *)

GoTo(r, l) == pc' = [pc EXCEPT ![r] = l]

NoneRunning == \A r \in Requests : pc[r] \notin Running

\* pool.Close has been called.
PoolClosed == phase \in {"closing", "exited"}

\* A request runs one query through the pool, or two, one after the other
\* (ListMine, Refresh and the like); the second use of a decision reads the
\* order's items after the commit.
UsesOf(k) == IF k = "health" THEN 1 ELSE 2

\* What a request does with the connection it is given.
StatementOf(r) == IF kind[r] = "decide" /\ uses[r] = 2 THEN "update" ELSE "query"

-----------------------------------------------------------------------------
(* run(): start. *)

\* config.Load, database.Connect with its ping, ListenAndServe.
Start ==
    /\ phase = "starting"
    /\ phase' = "serving"
    /\ UNCHANGED <<status, kind, uses, pc, idle, rowLock>>

\* The configuration is refused, or no connection can be made: the pool, if
\* it is there already, is closed.
StartFails ==
    /\ phase = "starting"
    /\ phase' = "exited"
    /\ status' = "failed"
    /\ UNCHANGED <<kind, uses, pc, idle, rowLock>>

-----------------------------------------------------------------------------
(* Requests. *)

Arrive(r, k) ==
    /\ phase = "serving"
    /\ pc[r] = "idle"
    /\ kind' = [kind EXCEPT ![r] = k]
    /\ uses' = [uses EXCEPT ![r] = UsesOf(k)]
    /\ GoTo(r, "acquire")
    /\ UNCHANGED <<main, idle, rowLock>>

Acquire(r) ==
    /\ pc[r] = "acquire"
    /\ ~PoolClosed
    /\ idle > 0
    /\ idle' = idle - 1
    /\ uses' = [uses EXCEPT ![r] = @ - 1]
    /\ GoTo(r, StatementOf(r))
    /\ UNCHANGED <<main, kind, rowLock>>

\* ErrClosedPool: 500.
AcquireRefused(r) ==
    /\ pc[r] = "acquire"
    /\ PoolClosed
    /\ GoTo(r, "refused")
    /\ UNCHANGED <<main, kind, uses, idle, rowLock>>

\* r's statement or transaction is over: its connection goes back.
Release(r) == idle' = idle + 1

\* What a request does after it gave back a connection.
AfterRelease(r) == IF uses[r] > 0 THEN "acquire" ELSE "ok"

Query(r) ==
    /\ pc[r] = "query"
    /\ Release(r)
    /\ GoTo(r, AfterRelease(r))
    /\ UNCHANGED <<main, kind, uses, rowLock>>

\* UPDATE ... RETURNING waits for the row's lock, holding a connection.
LockRow(r) ==
    /\ pc[r] = "update"
    /\ rowLock = NONE
    /\ rowLock' = r
    /\ GoTo(r, "commit")
    /\ UNCHANGED <<main, kind, uses, idle>>

\* ... and finds the order decided already: 409.
UpdateNoRows(r) ==
    /\ pc[r] = "update"
    /\ rowLock = NONE
    /\ Release(r)
    /\ GoTo(r, "ok")
    /\ UNCHANGED <<main, kind, uses, rowLock>>

\* mutant: the items are read through the pool inside the transaction, which
\* then needs a second connection before it can commit.
ItemsInTransaction(r) ==
    /\ pc[r] = "commit"
    /\ idle > 0
    /\ rowLock' = NONE
    /\ Release(r)
    /\ GoTo(r, "ok")
    /\ UNCHANGED <<main, kind, uses>>

\* The rest of the transaction, up to COMMIT.
Commit(r) ==
    /\ pc[r] = "commit"
    /\ rowLock' = NONE
    /\ Release(r)
    /\ GoTo(r, AfterRelease(r))
    /\ UNCHANGED <<main, kind, uses>>

\* mutant: a failing request returns without closing its rows or its
\* transaction.
LeaveOpen(r) == UNCHANGED <<idle, rowLock>>

\* mutant: the deferred call gives back a connection the request never got.
ReleaseAnyway(r) ==
    /\ idle' = idle + 1
    /\ rowLock' = IF rowLock = r THEN NONE ELSE rowLock

\* The deferred Rollback, rows.Close or Scan gives everything back.
CleanUp(r) ==
    /\ idle' = IF pc[r] \in Holding THEN idle + 1 ELSE idle
    /\ rowLock' = IF rowLock = r THEN NONE ELSE rowLock

\* A statement fails, or the request's context ends, wherever r is: 500, 503
\* or nobody there to answer.
Fail(r) ==
    /\ pc[r] \in Running
    /\ CleanUp(r)
    /\ GoTo(r, "error")
    /\ UNCHANGED <<main, kind, uses>>

-----------------------------------------------------------------------------
(* run(): the select, Shutdown with its 10 s, the deferred pool.Close. *)

\* SIGINT or SIGTERM; a second one stays in the channel.  Shutdown closes
\* the listener.
Signal ==
    /\ phase = "serving"
    /\ phase' = "draining"
    /\ UNCHANGED <<status, kind, uses, pc, idle, rowLock>>

\* ListenAndServe returns an error: run returns it, the handlers go on.
ListenFails ==
    /\ phase = "serving"
    /\ phase' = "closing"
    /\ status' = "failed"
    /\ UNCHANGED <<kind, uses, pc, idle, rowLock>>

\* mutant: srv.Close, which waits for nobody.
NoWait == TRUE

\* Shutdown returns nil: no handler is running.
ShutdownDone == NoneRunning

Drained ==
    /\ phase = "draining"
    /\ ShutdownDone
    /\ phase' = "closing"
    /\ status' = "clean"
    /\ UNCHANGED <<kind, uses, pc, idle, rowLock>>

\* Shutdown's context ends first.
GraceExpires ==
    /\ phase = "draining"
    /\ ~NoneRunning
    /\ phase' = "closing"
    /\ status' = "failed"
    /\ UNCHANGED <<kind, uses, pc, idle, rowLock>>

\* What is left of the requests when the process is gone.
Losses == [r \in Requests |-> IF pc[r] \in Running THEN "lost" ELSE pc[r]]

\* pool.Close returns once every connection is back; main returns.
Exit ==
    /\ phase = "closing"
    /\ idle = MaxConns
    /\ phase' = "exited"
    /\ pc' = Losses
    /\ UNCHANGED <<status, kind, uses, idle, rowLock>>

\* The process is killed, or a signal comes before signal.Notify: the
\* database rolls back and drops the connections.
Crash ==
    /\ phase # "exited"
    /\ phase' = "exited"
    /\ status' = "killed"
    /\ pc' = Losses
    /\ idle' = MaxConns
    /\ rowLock' = NONE
    /\ UNCHANGED <<kind, uses>>

Gone == phase = "exited" /\ UNCHANGED vars

-----------------------------------------------------------------------------

RequestStep(r) ==
    \/ Acquire(r) \/ AcquireRefused(r)
    \/ Query(r) \/ LockRow(r) \/ UpdateNoRows(r) \/ Commit(r)

ShutdownStep == Drained \/ GraceExpires \/ Exit

Next ==
    \/ Start \/ StartFails
    \/ \E r \in Requests :
          \/ \E k \in Kinds : Arrive(r, k)
          \/ RequestStep(r)
          \/ Fail(r)
    \/ Signal \/ ListenFails \/ ShutdownStep \/ Crash
    \/ Gone

Spec == Init /\ [][Next]_vars

\* Statements come back and the main goroutine gets its turn.  No request
\* has to arrive or fail, no signal has to come.
FairSpec == Spec /\ WF_vars(ShutdownStep) /\ \A r \in Requests : WF_vars(RequestStep(r))

-----------------------------------------------------------------------------
(* What the pool and the shutdown guarantee. *)

\* r waits for something another request has.
Blocked(r) ==
    \/ pc[r] = "acquire" /\ idle = 0 /\ ~PoolClosed
    \/ pc[r] = "update" /\ rowLock # NONE

\* However many requests wait for the row with a connection each, and
\* however many for a connection: one of those under way can always go on,
\* even with a pool of a single connection (a transaction asks the pool for
\* nothing until it is over, approval.go reads the items after COMMIT).
NeverAllBlocked == NoneRunning \/ \E r \in Requests : pc[r] \in Running /\ ~Blocked(r)

\* A process that reports a clean shutdown failed no request: each one it
\* had accepted was answered by its handler, with the pool still open (the
\* pool is closed after Shutdown returned).
CleanExit ==
    status = "clean" => \A r \in Requests : pc[r] \notin Running \cup Failed

\* Every request under way ends, although no timeout needs ever fire.
EveryRequestEnds ==
    \A r \in Requests : pc[r] \in Running ~> pc[r] \notin Running

\* Once told to stop the process does stop: the pool's Close, which waits
\* for every connection, is never waiting for one that nobody will return.
ProcessExits == phase \in {"draining", "closing"} ~> phase = "exited"
=============================================================================
