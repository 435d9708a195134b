------------------------------- MODULE Approvals -------------------------------
(***************************************************************************)
(* The custom-order approval workflow: AdminHandler.decide ->              *)
(* ApprovalService.decide -> ApprovalRepository.DecideCustomOrder, and the *)
(* detached goroutine that tells the customer.                             *)
(*                                                                         *)
(* Requests run concurrently, one statement of the database transaction    *)
(* per step.  A statement may fail (a lost connection, or the request's    *)
(* context cancelled because the client left or the 30 s timeout fired),   *)
(* COMMIT may take effect and still be reported as failed, and the server  *)
(* process may crash, taking its goroutines with it.  PostgreSQL is        *)
(* modelled from what the code relies on: an UPDATE takes the row's lock   *)
(* until the transaction ends, a blocked UPDATE re-evaluates its WHERE     *)
(* when it gets the lock, and uncommitted writes are invisible.            *)
(***************************************************************************)
EXTENDS Naturals, FiniteSets

CONSTANTS
    Orders,         \* order identifiers
    Admins,         \* users whose access token says "admin"
    Requests,       \* approve/decline requests; one goroutine each
    PhoneOrders,    \* orders whose customer has a non-blank phone number
    MaxCrashes,     \* bound on server crashes
    NONE            \* no request, no command

ASSUME NoneAssumption == NONE \notin Requests
ASSUME PhoneOrdersAssumption == PhoneOrders \subseteq Orders
ASSUME MaxCrashesAssumption == MaxCrashes \in Nat

VARIABLES
    status,         \* status[o]: the committed orders.status of o
    audit,          \* the committed rows of order_approvals
    rowLock,        \* rowLock[o]: the request whose transaction locks o's row
    pc,             \* pc[r]: the statement r runs next, or how r was answered
    cmd,            \* cmd[r]: what r was asked to do, NONE before it arrives
    writes,         \* writes[r]: the uncommitted writes of r's transaction
    notify,         \* notify[r]: the stage of the goroutine r started
    emails,         \* requests whose email reached the customer
    texts,          \* requests whose SMS reached the customer
    crashes         \* crashes so far

store  == <<status, audit>>
txn    == <<rowLock, writes>>
mail   == <<notify, emails, texts>>
vars   == <<status, audit, rowLock, pc, cmd, writes, notify, emails, texts, crashes>>

Lifecycle == INSTANCE OrderLifecycle

Decisions == Lifecycle!Decisions
Notes     == Lifecycle!Notes

Command == [order: Orders, admin: Admins, decision: Decisions, notes: Notes]

InTransaction == {"update", "audit", "contact", "commit"}
Running       == {"begin", "items"} \cup InTransaction
Answered      == {"ok", "conflict", "error", "rejected", "lost"}
Notifying     == {"render", "email", "sms"}

TypeOK ==
    /\ status \in [Orders -> Lifecycle!OrderStatus]
    /\ audit \subseteq Lifecycle!ApprovalRow
    /\ rowLock \in [Orders -> Requests \cup {NONE}]
    /\ pc \in [Requests -> {"idle"} \cup Running \cup Answered]
    /\ cmd \in [Requests -> Command \cup {NONE}]
    /\ writes \in [Requests -> SUBSET {"status", "audit"}]
    /\ notify \in [Requests -> {"none", "finished", "aborted", "killed"} \cup Notifying]
    /\ emails \subseteq Requests
    /\ texts \subseteq Requests
    /\ crashes \in Nat

Init ==
    /\ status = [o \in Orders |-> "absent"]
    /\ audit = {}
    /\ rowLock = [o \in Orders |-> NONE]
    /\ pc = [r \in Requests |-> "idle"]
    /\ cmd = [r \in Requests |-> NONE]
    /\ writes = [r \in Requests |-> {}]
    /\ notify = [r \in Requests |-> "none"]
    /\ emails = {}
    /\ texts = {}
    /\ crashes = 0

-----------------------------------------------------------------------------
(* Helpers: the row lock, the transaction, the audit row. *)

GoTo(r, l) == pc' = [pc EXCEPT ![r] = l]

\* The row a committed decision of r leaves in order_approvals.
RowOf(r) ==
    [req |-> r, order |-> cmd[r].order, admin |-> cmd[r].admin,
     decision |-> cmd[r].decision, notes |-> cmd[r].notes]

\* The UPDATE can look at o's row: no other transaction has it locked.
LockFree(o) == rowLock[o] = NONE

\* mutant: no deferred Rollback, the transaction stays open.
LocksKept(R) == rowLock

\* The locks left once the transactions of R have ended.
LocksWithout(R) ==
    [o \in Orders |-> IF rowLock[o] \in R THEN NONE ELSE rowLock[o]]

\* WHERE id = $2 AND order_type = 'custom' AND status = 'pending_review'.
AnyOrder(o)     == status[o] # "absent"     \* mutant: no status guard
StillPending(o) == status[o] = "pending_review"

\* mutant: a status that is not in the order_status enum.
NewStatusApproved(d) == IF d = "confirmed" THEN "approved" ELSE "declined"
NewStatus(d) == IF d = "confirmed" THEN "confirmed" ELSE "declined"

\* COMMIT makes the transaction's writes visible and releases its lock.
ApplyWrites(r) ==
    /\ status' = IF "status" \in writes[r]
                 THEN [status EXCEPT ![cmd[r].order] = NewStatus(cmd[r].decision)]
                 ELSE status
    /\ audit'  = IF "audit" \in writes[r] THEN audit \cup {RowOf(r)} ELSE audit

EndTransaction(r) ==
    /\ rowLock' = LocksWithout({r})
    /\ writes' = [writes EXCEPT ![r] = {}]

-----------------------------------------------------------------------------
(* The customer's side: OrderRepository.CreateCustomOrder, one transaction. *)

SubmitCustomOrder(o) ==
    /\ status[o] = "absent"
    /\ status' = [status EXCEPT ![o] = "pending_review"]
    /\ UNCHANGED <<audit, txn, pc, cmd, mail, crashes>>

-----------------------------------------------------------------------------
(* The admin's side. *)

\* Declining needs a reason: the handler refuses an empty one, the service
\* one that is only white space.  Approving does not.
NonEmptyReason(d, n) == d = "declined" => n # "none"  \* mutant: service check gone
ReasonGiven(d, n)    == d = "declined" => n = "reason"

Receive(r) ==
    /\ pc[r] = "idle"
    /\ \E c \in Command :
          /\ cmd' = [cmd EXCEPT ![r] = c]
          /\ GoTo(r, IF ReasonGiven(c.decision, c.notes) THEN "begin" ELSE "rejected")
    /\ UNCHANGED <<store, txn, mail, crashes>>

BeginTx(r) ==
    /\ pc[r] = "begin"
    /\ GoTo(r, "update")
    /\ UNCHANGED <<store, txn, cmd, mail, crashes>>

\* UPDATE ... RETURNING finds the row and locks it until the transaction ends.
UpdateOrder(r) ==
    /\ pc[r] = "update"
    /\ LockFree(cmd[r].order)
    /\ StillPending(cmd[r].order)
    /\ rowLock' = [rowLock EXCEPT ![cmd[r].order] = r]
    /\ writes' = [writes EXCEPT ![r] = {"status"}]
    /\ GoTo(r, "audit")
    /\ UNCHANGED <<store, cmd, mail, crashes>>

\* UPDATE ... RETURNING finds no row: ErrOrderNotPending, 409.
UpdateNoRows(r) ==
    /\ pc[r] = "update"
    /\ LockFree(cmd[r].order)
    /\ ~StillPending(cmd[r].order)
    /\ GoTo(r, "conflict")
    /\ UNCHANGED <<store, txn, cmd, mail, crashes>>

\* mutant: the row is written through the pool, outside the transaction.
InsertApprovalOnPool(r) ==
    /\ pc[r] = "audit"
    /\ audit' = audit \cup {RowOf(r)}
    /\ GoTo(r, "contact")
    /\ UNCHANGED <<status, txn, cmd, mail, crashes>>

InsertApproval(r) ==
    /\ pc[r] = "audit"
    /\ writes' = [writes EXCEPT ![r] = @ \cup {"audit"}]
    /\ GoTo(r, "contact")
    /\ UNCHANGED <<store, rowLock, cmd, mail, crashes>>

FetchContact(r) ==
    /\ pc[r] = "contact"
    /\ GoTo(r, "commit")
    /\ UNCHANGED <<store, txn, cmd, mail, crashes>>

\* A statement before COMMIT fails: the deferred Rollback undoes everything.
StatementFails(r) ==
    /\ pc[r] \in {"begin", "update", "audit", "contact"}
    /\ EndTransaction(r)
    /\ GoTo(r, "error")
    /\ UNCHANGED <<store, cmd, mail, crashes>>

Commit(r) ==
    /\ pc[r] = "commit"
    /\ ApplyWrites(r)
    /\ EndTransaction(r)
    /\ GoTo(r, "items")
    /\ UNCHANGED <<cmd, mail, crashes>>

\* mutant: the error of Commit is dropped and the request goes on.
CommitErrorIgnored(r) ==
    /\ pc[r] = "commit"
    /\ ApplyWrites(r) \/ UNCHANGED store
    /\ EndTransaction(r)
    /\ GoTo(r, "items")
    /\ UNCHANGED <<cmd, mail, crashes>>

\* Commit returns an error: the server rolled back, or it committed and
\* only the acknowledgement was lost.
CommitFails(r) ==
    /\ pc[r] = "commit"
    /\ ApplyWrites(r) \/ UNCHANGED store
    /\ EndTransaction(r)
    /\ GoTo(r, "error")
    /\ UNCHANGED <<cmd, mail, crashes>>

\* mutant: the request is answered and no goroutine is started.
FetchItemsOnly(r) ==
    /\ pc[r] = "items"
    /\ GoTo(r, "ok")
    /\ UNCHANGED <<store, txn, cmd, mail, crashes>>

\* The order's items are read from the pool after the commit; only then is
\* the notification goroutine started and the request answered 200.
FetchItems(r) ==
    /\ pc[r] = "items"
    /\ notify' = [notify EXCEPT ![r] = "render"]
    /\ GoTo(r, "ok")
    /\ UNCHANGED <<store, txn, cmd, emails, texts, crashes>>

\* The read fails (or the client has gone and the context is cancelled):
\* 500, and decide returns before dispatchNotification.
FetchItemsFails(r) ==
    /\ pc[r] = "items"
    /\ GoTo(r, "error")
    /\ UNCHANGED <<store, txn, cmd, mail, crashes>>

-----------------------------------------------------------------------------
(* dispatchNotification: the goroutine of request r. *)

RenderEmail(r) ==
    /\ notify[r] = "render"
    /\ notify' = [notify EXCEPT ![r] = "email"]
    /\ UNCHANGED <<store, txn, pc, cmd, emails, texts, crashes>>

\* mutant: an error from SendEmail ends the goroutine.
SendEmailOrGiveUp(r) ==
    /\ notify[r] = "email"
    /\ emails' \in {emails, emails \cup {r}}
    /\ notify' = [notify EXCEPT ![r] = "finished"]
    /\ UNCHANGED <<store, txn, pc, cmd, texts, crashes>>

\* SendEmail succeeds or returns an error, which is logged; either way the
\* provider may have delivered the message.
SendEmail(r) ==
    /\ notify[r] = "email"
    /\ emails' \in {emails, emails \cup {r}}
    /\ notify' = [notify EXCEPT ![r] =
                     IF cmd[r].order \in PhoneOrders THEN "sms" ELSE "finished"]
    /\ UNCHANGED <<store, txn, pc, cmd, texts, crashes>>

SendSMS(r) ==
    /\ notify[r] = "sms"
    /\ texts' \in {texts, texts \cup {r}}
    /\ notify' = [notify EXCEPT ![r] = "finished"]
    /\ UNCHANGED <<store, txn, pc, cmd, emails, crashes>>

\* The email cannot be rendered, or the notifier panics and is recovered.
NotifyAborts(r) ==
    /\ notify[r] \in Notifying
    /\ notify' = [notify EXCEPT ![r] = "aborted"]
    /\ UNCHANGED <<store, txn, pc, cmd, emails, texts, crashes>>

-----------------------------------------------------------------------------
(* The process dies: PostgreSQL rolls back what was open, running requests *)
(* get no answer and running notifications are gone.  Shutdown after its   *)
(* 10 s grace period does the same to whatever is left.                    *)

Crash ==
    /\ crashes < MaxCrashes
    /\ crashes' = crashes + 1
    /\ pc' = [r \in Requests |-> IF pc[r] \in Running THEN "lost" ELSE pc[r]]
    /\ notify' = [r \in Requests |-> IF notify[r] \in Notifying THEN "killed" ELSE notify[r]]
    /\ rowLock' = [o \in Orders |-> NONE]
    /\ writes' = [r \in Requests |-> {}]
    /\ UNCHANGED <<store, cmd, emails, texts>>

\* Nothing is left to do.
Quiet ==
    /\ \A o \in Orders : status[o] # "absent"
    /\ \A r \in Requests : pc[r] \in Answered /\ notify[r] \notin Notifying
    /\ UNCHANGED vars

RequestStep(r) ==
    \/ BeginTx(r)
    \/ UpdateOrder(r) \/ UpdateNoRows(r)
    \/ InsertApproval(r)
    \/ FetchContact(r)
    \/ Commit(r)
    \/ FetchItems(r)

NotifyStep(r) == RenderEmail(r) \/ SendEmail(r) \/ SendSMS(r)

Next ==
    \/ \E o \in Orders : SubmitCustomOrder(o)
    \/ \E r \in Requests :
          \/ Receive(r) \/ RequestStep(r)
          \/ StatementFails(r) \/ CommitFails(r) \/ FetchItemsFails(r)
          \/ NotifyStep(r) \/ NotifyAborts(r)
    \/ Crash
    \/ Quiet

Spec == Init /\ [][Next]_vars

\* Every statement and every provider call comes back, so a request and a
\* goroutine keep moving.  Nothing makes a failure or a new request happen.
Fairness ==
    \A r \in Requests : WF_vars(RequestStep(r)) /\ WF_vars(NotifyStep(r))

FairSpec == Spec /\ Fairness
-----------------------------------------------------------------------------
(* What the workflow guarantees. *)

RowsOf(o) == {row \in audit : row.order = o}

\* However many admins decide the same order at once, and whatever fails
\* on the way, an order is decided exactly when the audit trail holds one
\* row for it, with the same decision (the guarded UPDATE and the
\* transaction of DecideCustomOrder).
AuditMatchesStatus ==
    \A o \in Orders :
        IF status[o] \in Decisions
        THEN \E row \in audit : RowsOf(o) = {row} /\ row.decision = status[o]
        ELSE RowsOf(o) = {}

\* A customer never hears of a decision that was not committed, was
\* overruled, or is not the order's status (dispatchNotification runs only
\* after DecideCustomOrder returned without an error).
CustomerHearsTheDecision ==
    \A r \in emails \cup texts :
        /\ RowOf(r) \in audit
        /\ status[cmd[r].order] = cmd[r].decision

\* What the admin is told is true: 200 only when the request's own
\* decision is in the audit trail, 409 and 400 only when it is not and
\* never will be (a 500 says nothing either way).
AnswerIsTrue ==
    \A r \in Requests :
        /\ pc[r] = "ok" => RowOf(r) \in audit
        /\ pc[r] \in {"conflict", "rejected"} => \A row \in audit : row.req # r

\* A declined order always has a reason on record, it is the only
\* explanation the customer gets (DeclineCustomOrder).
DeclinesAreExplained ==
    \A o \in Orders : status[o] = "declined" =>
        \E row \in RowsOf(o) : row.notes = "reason"

\* Every behaviour of the workflow is one of OrderLifecycle: status and
\* audit row change together, once per order, and are then final.
ImplementsLifecycle == Lifecycle!Spec

\* No request waits for a row lock for ever: once received, a request is
\* answered even if no timeout ever fires.
EveryRequestAnswered ==
    \A r \in Requests : pc[r] \in Running ~> pc[r] \in Answered

\* "owner confirms; customer is notified automatically" (handler/admin.go):
\* each decided order has a notification goroutine started for it.
EveryDecisionDispatched ==
    \A o \in Orders : status[o] \in Decisions ~>
        \E r \in Requests : cmd[r] # NONE /\ cmd[r].order = o /\ notify[r] # "none"
=============================================================================
