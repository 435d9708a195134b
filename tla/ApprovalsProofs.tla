---------------------------- MODULE ApprovalsProofs ----------------------------
(***************************************************************************)
(* Proofs about Approvals and Delivery, for any sets of orders, admins and *)
(* requests, any number of crashes, any budget and any shorter client      *)
(* timeout: type correctness, the refinement of OrderLifecycle, and with   *)
(* it the safety invariants the runs check.                                *)
(*                                                                         *)
(* None of those invariants is inductive.  What carries them is the row    *)
(* lock: a transaction past its UPDATE holds the lock of its order, and as *)
(* long as it does the order stays 'pending_review', so the commit that    *)
(* makes its writes visible finds the order as the UPDATE found it.        *)
(***************************************************************************)
EXTENDS Delivery, TLAPS

LP == INSTANCE OrderLifecycleProofs

Holding == {"audit", "contact", "commit"}

\* Who holds a row's lock is in the middle of deciding that order.
LockInv ==
    \A o \in Orders : rowLock[o] # NONE =>
        /\ pc[rowLock[o]] \in Holding
        /\ cmd[rowLock[o]].order = o

\* A transaction past its UPDATE holds the lock, the order is undecided,
\* and its writes are those of the statements it has run.
TxnInv ==
    \A r \in Requests :
        /\ pc[r] # "idle" => cmd[r] \in Command
        /\ pc[r] \in Holding =>
              /\ rowLock[cmd[r].order] = r
              /\ status[cmd[r].order] = "pending_review"
        /\ pc[r] = "audit" => writes[r] = {"status"}
        /\ pc[r] \in {"contact", "commit"} => writes[r] = {"status", "audit"}

\* What a request may say, and its goroutine tell, once it has committed.
AnswerInv ==
    \A r \in Requests :
        /\ pc[r] \in {"items", "ok"} =>
              /\ RowOf(r) \in audit
              /\ status[cmd[r].order] = cmd[r].decision
        /\ pc[r] \notin {"idle", "rejected"} => ReasonGiven(cmd[r].decision, cmd[r].notes)
        /\ notify[r] # "none" => pc[r] = "ok"
        /\ r \in emails \cup texts => notify[r] # "none"

\* A row of the audit trail was left by a request that got past COMMIT.
AuditInv ==
    \A row \in audit :
        /\ pc[row.req] \in {"items", "ok", "error", "lost"}
        /\ ReasonGiven(row.decision, row.notes)

IInv == TypeOK /\ LockInv /\ TxnInv /\ AnswerInv /\ AuditInv

LEMMA TypeFacts ==
  /\ Lifecycle!OrderStatus = {"absent", "pending_review", "confirmed", "declined"}
  /\ Decisions = {"confirmed", "declined"}
  /\ Running = {"begin", "items", "update", "audit", "contact", "commit"}
  /\ Answered = {"ok", "conflict", "error", "rejected", "lost"}
  /\ Notifying = {"render", "email", "sms"}
  /\ \A d \in Decisions : NewStatus(d) = d
  BY DEF Lifecycle!OrderStatus, Lifecycle!Decisions, Decisions, Running, InTransaction,
         Answered, Notifying, NewStatus

LEMMA RowFacts ==
  ASSUME NEW r \in Requests, cmd[r] \in Command
  PROVE  /\ RowOf(r) \in Lifecycle!ApprovalRow
         /\ RowOf(r).req = r /\ RowOf(r).order = cmd[r].order
         /\ RowOf(r).decision = cmd[r].decision /\ RowOf(r).notes = cmd[r].notes
         /\ cmd[r].order \in Orders /\ cmd[r].decision \in Decisions
  BY DEF RowOf, Command, Lifecycle!ApprovalRow, Decisions, Notes

LEMMA WorkflowInit == Init => IInv
  BY TypeFacts DEF Init, IInv, TypeOK, LockInv, TxnInv, AnswerInv, AuditInv, Holding

\* A commit that takes effect writes both, on an order still undecided.
LEMMA CommitWrites ==
  ASSUME IInv, NEW r \in Requests, pc[r] = "commit", ApplyWrites(r)
  PROVE  /\ cmd[r] \in Command /\ status[cmd[r].order] = "pending_review"
         /\ rowLock[cmd[r].order] = r
         /\ status' = [status EXCEPT ![cmd[r].order] = cmd[r].decision]
         /\ audit' = audit \cup {RowOf(r)}
<1>1. /\ cmd[r] \in Command /\ status[cmd[r].order] = "pending_review"
      /\ rowLock[cmd[r].order] = r /\ writes[r] = {"status", "audit"}
  BY DEF IInv, TxnInv, Holding
<1>2. NewStatus(cmd[r].decision) = cmd[r].decision
  BY <1>1, RowFacts, TypeFacts
<1> QED
  BY <1>1, <1>2 DEF ApplyWrites

LEMMA SubmitKeeps == ASSUME IInv, NEW o \in Orders, SubmitCustomOrder(o) PROVE IInv'
<1>1. TypeOK'
  BY TypeFacts DEF SubmitCustomOrder, IInv, TypeOK, txn, mail
<1>2. LockInv'
  BY TypeFacts DEF SubmitCustomOrder, IInv, TypeOK, LockInv, TxnInv, Holding,
                   txn, mail
<1>3. TxnInv'
  BY TypeFacts DEF SubmitCustomOrder, IInv, TypeOK, LockInv, TxnInv, Holding,
                   txn, mail
<1>4. ASSUME NEW r \in Requests, pc[r] \in {"items", "ok"}
      PROVE  status'[cmd[r].order] = cmd[r].decision
  <2>1. cmd[r] \in Command /\ status[cmd[r].order] = cmd[r].decision
    BY <1>4 DEF IInv, TxnInv, AnswerInv
  <2>2. cmd[r].order # o
    BY <2>1, RowFacts, TypeFacts DEF SubmitCustomOrder
  <2> QED
    BY <2>1, <2>2, RowFacts DEF SubmitCustomOrder, IInv, TypeOK
<1>6. AnswerInv'
  BY <1>4 DEF SubmitCustomOrder, IInv, AnswerInv, RowOf, mail
<1>5. AuditInv'
  BY TypeFacts DEF SubmitCustomOrder, IInv, TypeOK, AuditInv,
                   Lifecycle!ApprovalRow, txn, mail
<1> QED
  BY <1>1, <1>2, <1>3, <1>5, <1>6 DEF IInv

\* A step that only moves on, from a statement that leaves the transaction
\* as it is to where no more is promised of it.
LEMMA GoKeeps ==
  ASSUME IInv, NEW r \in Requests,
         BeginTx(r) \/ UpdateNoRows(r) \/ FetchContact(r) \/ FetchItemsFails(r)
  PROVE  IInv'
<1>1. UNCHANGED <<status, audit, rowLock, writes, cmd, notify, emails, texts, crashes>>
  BY DEF BeginTx, UpdateNoRows, FetchContact, FetchItemsFails, store, txn, mail
<1>2. PICK l \in {"update", "conflict", "commit", "error"} :
         /\ pc' = [pc EXCEPT ![r] = l]
         /\ <<pc[r], l>> \in {<<"begin", "update">>, <<"update", "conflict">>,
                             <<"contact", "commit">>, <<"items", "error">>}
  BY DEF BeginTx, UpdateNoRows, FetchContact, FetchItemsFails, GoTo
<1>3. TypeOK'
  BY <1>1, <1>2, TypeFacts DEF IInv, TypeOK
<1>4. LockInv'
  BY <1>1, <1>2 DEF IInv, TypeOK, LockInv, Holding
<1>5. TxnInv'
  BY <1>1, <1>2 DEF IInv, TypeOK, TxnInv, Holding
<1>6. AnswerInv'
  BY <1>1, <1>2 DEF IInv, TypeOK, AnswerInv, RowOf
<1>7. AuditInv'
  BY <1>1, <1>2 DEF IInv, TypeOK, AuditInv, Lifecycle!ApprovalRow
<1> QED
  BY <1>3, <1>4, <1>5, <1>6, <1>7 DEF IInv

\* The goroutine touches nothing but its own stage and the messages sent.
LEMMA NotifierKeeps ==
  ASSUME IInv, NEW r \in Requests, NotifyStep(r) \/ NotifyAborts(r)
  PROVE  IInv'
<1>1. UNCHANGED <<status, audit, rowLock, writes, cmd, pc, crashes>> /\ notify[r] # "none"
  BY TypeFacts DEF NotifyStep, RenderEmail, SendEmail, SendSMS, NotifyAborts, store, txn
<1>2. PICK l \in {"email", "sms", "finished", "aborted"} : notify' = [notify EXCEPT ![r] = l]
  BY DEF NotifyStep, RenderEmail, SendEmail, SendSMS, NotifyAborts
<1>3. emails' \subseteq emails \cup {r} /\ texts' \subseteq texts \cup {r}
  BY DEF NotifyStep, RenderEmail, SendEmail, SendSMS, NotifyAborts
<1>4. TypeOK'
  BY <1>1, <1>2, <1>3, TypeFacts DEF IInv, TypeOK
<1>5. AnswerInv'
  BY <1>1, <1>2, <1>3 DEF IInv, TypeOK, AnswerInv, RowOf
<1>6. LockInv' /\ TxnInv' /\ AuditInv'
  BY <1>1 DEF IInv, LockInv, TxnInv, AuditInv
<1> QED
  BY <1>4, <1>5, <1>6 DEF IInv

LEMMA UpdateKeeps == ASSUME IInv, NEW r \in Requests, UpdateOrder(r) PROVE IInv'
<1>1. TypeOK'
  BY TypeFacts DEF UpdateOrder, LockFree, StillPending, IInv, TypeOK, store,
                   mail, GoTo
<1>2. LockInv'
  BY TypeFacts DEF UpdateOrder, LockFree, StillPending, IInv, TypeOK, LockInv,
                   TxnInv, Holding, store, mail, GoTo
<1>3. ASSUME NEW q \in Requests
      PROVE  /\ pc'[q] # "idle" => cmd'[q] \in Command
             /\ pc'[q] \in Holding =>
                   /\ rowLock'[cmd'[q].order] = q
                   /\ status'[cmd'[q].order] = "pending_review"
             /\ pc'[q] = "audit" => writes'[q] = {"status"}
             /\ pc'[q] \in {"contact", "commit"} => writes'[q] = {"status", "audit"}
  <2>1. /\ cmd[r] \in Command /\ cmd[r].order \in Orders
        /\ rowLock[cmd[r].order] = NONE /\ status[cmd[r].order] = "pending_review"
    BY RowFacts DEF UpdateOrder, LockFree, StillPending, IInv, TxnInv
  <2>2. CASE q = r
    BY <2>1, <2>2 DEF UpdateOrder, GoTo, store, IInv, TypeOK
  <2>3. CASE q # r
    <3>1. pc'[q] = pc[q] /\ writes'[q] = writes[q] /\ cmd' = cmd /\ status' = status
      BY <2>3 DEF UpdateOrder, GoTo, store, IInv, TypeOK
    <3>2. pc[q] \in Holding => rowLock'[cmd[q].order] = q
      BY <2>1, NoneAssumption DEF UpdateOrder, IInv, TypeOK, TxnInv
    <3> QED
      BY <3>1, <3>2 DEF IInv, TxnInv
  <2> QED
    BY <2>2, <2>3
<1>6. TxnInv'
  BY <1>3 DEF TxnInv
<1>4. AnswerInv'
  BY TypeFacts DEF UpdateOrder, LockFree, StillPending, IInv, TypeOK, TxnInv,
                   AnswerInv, RowOf, Holding, store, mail, GoTo
<1>5. AuditInv'
  BY TypeFacts DEF UpdateOrder, LockFree, StillPending, IInv, TypeOK,
                   AuditInv, Lifecycle!ApprovalRow, store, mail, GoTo
<1> QED
  BY <1>1, <1>2, <1>4, <1>5, <1>6 DEF IInv

LEMMA InsertKeeps == ASSUME IInv, NEW r \in Requests, InsertApproval(r) PROVE IInv'
<1>1. TypeOK'
  BY TypeFacts DEF InsertApproval, IInv, TypeOK, store, mail, GoTo
<1>2. LockInv'
  BY TypeFacts DEF InsertApproval, IInv, TypeOK, LockInv, TxnInv, Holding,
                   store, mail, GoTo
<1>3. TxnInv'
  BY TypeFacts DEF InsertApproval, IInv, TypeOK, LockInv, TxnInv, Holding,
                   store, mail, GoTo
<1>4. AnswerInv'
  BY TypeFacts DEF InsertApproval, IInv, TypeOK, TxnInv, AnswerInv, RowOf,
                   Holding, store, mail, GoTo
<1>5. AuditInv'
  BY TypeFacts DEF InsertApproval, IInv, TypeOK, AuditInv,
                   Lifecycle!ApprovalRow, store, mail, GoTo
<1> QED
  BY <1>1, <1>2, <1>3, <1>4, <1>5 DEF IInv

LEMMA ItemsKeeps == ASSUME IInv, NEW r \in Requests, FetchItems(r) PROVE IInv'
<1>1. TypeOK'
  BY TypeFacts DEF FetchItems, IInv, TypeOK, store, txn, GoTo
<1>2. LockInv'
  BY TypeFacts DEF FetchItems, IInv, TypeOK, LockInv, TxnInv, Holding, store,
                   txn, GoTo
<1>3. TxnInv'
  BY TypeFacts DEF FetchItems, IInv, TypeOK, LockInv, TxnInv, Holding, store,
                   txn, GoTo
<1>4. AnswerInv'
  BY TypeFacts DEF FetchItems, IInv, TypeOK, TxnInv, AnswerInv, RowOf,
                   Holding, store, txn, GoTo
<1>5. AuditInv'
  BY TypeFacts DEF FetchItems, IInv, TypeOK, AuditInv, Lifecycle!ApprovalRow,
                   store, txn, GoTo
<1> QED
  BY <1>1, <1>2, <1>3, <1>4, <1>5 DEF IInv

LEMMA ReceiveKeeps == ASSUME IInv, NEW r \in Requests, Receive(r) PROVE IInv'
<1>1. TypeOK'
  BY TypeFacts DEF Receive, ReasonGiven, IInv, TypeOK, store, txn, mail, GoTo
<1>2. LockInv'
  BY TypeFacts DEF Receive, ReasonGiven, IInv, TypeOK, LockInv, TxnInv,
                   Holding, store, txn, mail, GoTo
<1>3. TxnInv'
  BY TypeFacts DEF Receive, ReasonGiven, IInv, TypeOK, LockInv, TxnInv,
                   Holding, store, txn, mail, GoTo
<1>4. AnswerInv'
  BY TypeFacts DEF Receive, ReasonGiven, IInv, TypeOK, TxnInv, AnswerInv,
                   RowOf, Holding, store, txn, mail, GoTo
<1>5. AuditInv'
  BY TypeFacts DEF Receive, ReasonGiven, IInv, TypeOK, AuditInv,
                   Lifecycle!ApprovalRow, store, txn, mail, GoTo
<1> QED
  BY <1>1, <1>2, <1>3, <1>4, <1>5 DEF IInv

LEMMA StmtFailsKeeps == ASSUME IInv, NEW r \in Requests, StatementFails(r) PROVE IInv'
<1>1. TypeOK'
  BY TypeFacts DEF StatementFails, EndTransaction, LocksWithout, IInv, TypeOK,
                   store, mail, GoTo
<1>2. LockInv'
  BY TypeFacts DEF StatementFails, EndTransaction, LocksWithout, IInv, TypeOK,
                   LockInv, TxnInv, Holding, store, mail, GoTo
<1>3. ASSUME NEW q \in Requests
      PROVE  /\ pc'[q] # "idle" => cmd'[q] \in Command
             /\ pc'[q] \in Holding =>
                   /\ rowLock'[cmd'[q].order] = q
                   /\ status'[cmd'[q].order] = "pending_review"
             /\ pc'[q] = "audit" => writes'[q] = {"status"}
             /\ pc'[q] \in {"contact", "commit"} => writes'[q] = {"status", "audit"}
  <2>1. CASE q = r
    BY <2>1 DEF StatementFails, GoTo, Holding, IInv, TypeOK, TxnInv
  <2>2. CASE q # r
    <3>1. pc'[q] = pc[q] /\ writes'[q] = writes[q] /\ cmd' = cmd /\ status' = status
      BY <2>2 DEF StatementFails, EndTransaction, GoTo, store, IInv, TypeOK
    <3>2. ASSUME pc[q] \in Holding
          PROVE  rowLock'[cmd[q].order] = q
      <4>1. cmd[q].order \in Orders /\ rowLock[cmd[q].order] = q
        BY <3>2, RowFacts DEF IInv, TxnInv, Holding
      <4> QED
        BY <2>2, <4>1 DEF StatementFails, EndTransaction, LocksWithout
    <3> QED
      BY <3>1, <3>2 DEF IInv, TxnInv
  <2> QED
    BY <2>1, <2>2
<1>6. TxnInv'
  BY <1>3 DEF TxnInv
<1>4. AnswerInv'
  BY TypeFacts DEF StatementFails, EndTransaction, LocksWithout, IInv, TypeOK,
                   TxnInv, AnswerInv, RowOf, Holding, store, mail, GoTo
<1>5. AuditInv'
  BY TypeFacts DEF StatementFails, EndTransaction, LocksWithout, IInv, TypeOK,
                   AuditInv, Lifecycle!ApprovalRow, store, mail, GoTo
<1> QED
  BY <1>1, <1>2, <1>4, <1>5, <1>6 DEF IInv

LEMMA CrashKeeps == ASSUME IInv, Crash PROVE IInv'
<1>1. TypeOK'
  BY TypeFacts DEF Crash, IInv, TypeOK, store
<1>2. LockInv'
  BY TypeFacts DEF Crash, IInv, TypeOK, LockInv, TxnInv, Holding, store
<1>3. TxnInv'
  BY TypeFacts DEF Crash, IInv, TypeOK, LockInv, TxnInv, Holding, store
<1>4. AnswerInv'
  BY TypeFacts DEF Crash, IInv, TypeOK, TxnInv, AnswerInv, RowOf, Holding,
                   store
<1>5. AuditInv'
  BY TypeFacts DEF Crash, IInv, TypeOK, AuditInv, Lifecycle!ApprovalRow, store
<1> QED
  BY <1>1, <1>2, <1>3, <1>4, <1>5 DEF IInv

\* The transaction of r ends: nobody else's lock or writes change.
LEMMA EndKeepsOthers ==
  ASSUME IInv, NEW r \in Requests, NEW q \in Requests, q # r,
         EndTransaction(r), pc[q] \in Holding
  PROVE  rowLock'[cmd[q].order] = q /\ writes'[q] = writes[q]
<1>1. cmd[q] \in Command /\ cmd[q].order \in Orders /\ rowLock[cmd[q].order] = q
  BY RowFacts DEF IInv, TxnInv, Holding
<1> QED
  BY <1>1 DEF EndTransaction, LocksWithout, IInv, TypeOK

\* Commit and the two outcomes of a failed commit, with l what r does next.
LEMMA CommitKeeps ==
  ASSUME IInv, NEW r \in Requests, NEW l \in {"items", "error"}, pc[r] = "commit",
         ApplyWrites(r) \/ (l = "error" /\ UNCHANGED store),
         EndTransaction(r), GoTo(r, l), UNCHANGED <<cmd, mail, crashes>>
  PROVE  IInv'
<1> DEFINE o == cmd[r].order
<1>1. /\ cmd[r] \in Command /\ o \in Orders /\ status[o] = "pending_review"
      /\ rowLock[o] = r
  BY RowFacts DEF IInv, TxnInv, Holding
<1>2. /\ pc' = [pc EXCEPT ![r] = l] /\ cmd' = cmd /\ notify' = notify
      /\ emails' = emails /\ texts' = texts /\ crashes' = crashes
  BY DEF GoTo, mail
<1>3. \/ status' = [status EXCEPT ![o] = cmd[r].decision] /\ audit' = audit \cup {RowOf(r)}
      \/ l = "error" /\ status' = status /\ audit' = audit
  BY CommitWrites DEF store
<1>4. TypeOK'
  <2>1. status' \in [Orders -> Lifecycle!OrderStatus] /\ audit' \subseteq Lifecycle!ApprovalRow
    BY <1>1, <1>3, RowFacts, TypeFacts DEF IInv, TypeOK
  <2> QED
    BY <1>2, <2>1, TypeFacts DEF EndTransaction, LocksWithout, IInv, TypeOK
<1>5. LockInv'
  BY <1>2 DEF EndTransaction, LocksWithout, IInv, TypeOK, LockInv
<1>6. ASSUME NEW q \in Requests
      PROVE  /\ pc'[q] # "idle" => cmd'[q] \in Command
             /\ pc'[q] \in Holding =>
                   /\ rowLock'[cmd'[q].order] = q
                   /\ status'[cmd'[q].order] = "pending_review"
             /\ pc'[q] = "audit" => writes'[q] = {"status"}
             /\ pc'[q] \in {"contact", "commit"} => writes'[q] = {"status", "audit"}
  <2>1. CASE q = r
    BY <1>1, <1>2, <2>1 DEF Holding, IInv, TypeOK
  <2>2. CASE q # r
    <3>1. pc'[q] = pc[q]
      BY <1>2, <2>2 DEF IInv, TypeOK
    <3>2. ASSUME pc[q] \in Holding
          PROVE  status'[cmd[q].order] = "pending_review"
      <4>1. /\ cmd[q].order \in Orders /\ rowLock[cmd[q].order] = q
            /\ status[cmd[q].order] = "pending_review"
        BY <3>2, RowFacts DEF IInv, TxnInv, Holding
      <4>2. cmd[q].order # o
        BY <1>1, <2>2, <4>1
      <4>3. CASE status' = status
        BY <4>1, <4>3
      <4>4. CASE status' = [status EXCEPT ![o] = cmd[r].decision]
        <5>1. \A p \in Orders : p # o => status'[p] = status[p]
          BY <4>4 DEF IInv, TypeOK
        <5> QED
          BY <4>1, <4>2, <5>1
      <4> QED
        BY <1>3, <4>3, <4>4
    <3> QED
      BY <1>2, <2>2, <3>1, <3>2, EndKeepsOthers DEF IInv, TxnInv, Holding
  <2> QED
    BY <2>1, <2>2
<1>7. TxnInv'
  BY <1>6 DEF TxnInv
<1>8. ASSUME NEW q \in Requests
      PROVE  /\ pc'[q] \in {"items", "ok"} =>
                   /\ RowOf(q)' \in audit'
                   /\ status'[cmd'[q].order] = cmd'[q].decision
             /\ pc'[q] \notin {"idle", "rejected"} =>
                   ReasonGiven(cmd'[q].decision, cmd'[q].notes)
             /\ notify'[q] # "none" => pc'[q] = "ok"
             /\ q \in emails' \cup texts' => notify'[q] # "none"
  <2>1. RowOf(q)' = RowOf(q)
    BY <1>2 DEF RowOf
  <2>2. CASE q = r
    BY <1>1, <1>2, <1>3, <2>1, <2>2 DEF IInv, TypeOK, AnswerInv
  <2>3. CASE q # r
    <3>1. pc'[q] = pc[q]
      BY <1>2, <2>3 DEF IInv, TypeOK
    <3>2. ASSUME pc[q] \in {"items", "ok"}
          PROVE  status'[cmd[q].order] = cmd[q].decision /\ RowOf(q) \in audit'
      <4>1. /\ cmd[q] \in Command /\ cmd[q].order \in Orders /\ RowOf(q) \in audit
            /\ status[cmd[q].order] = cmd[q].decision
        BY <3>2, RowFacts DEF IInv, TxnInv, AnswerInv
      <4>2. cmd[q].order # o
        BY <1>1, <4>1, RowFacts, TypeFacts
      <4>3. CASE status' = status /\ audit' = audit
        BY <4>1, <4>3
      <4>4. CASE /\ status' = [status EXCEPT ![o] = cmd[r].decision]
                 /\ audit' = audit \cup {RowOf(r)}
        <5>1. \A p \in Orders : p # o => status'[p] = status[p]
          BY <4>4 DEF IInv, TypeOK
        <5> QED
          BY <4>1, <4>2, <4>4, <5>1
      <4> QED
        BY <1>3, <4>3, <4>4
    <3> QED
      BY <1>2, <2>1, <3>1, <3>2 DEF IInv, AnswerInv
  <2> QED
    BY <2>2, <2>3
<1>9. AnswerInv'
  BY <1>8 DEF AnswerInv
<1>10. AuditInv'
  <2> SUFFICES ASSUME NEW row \in audit'
               PROVE  /\ pc'[row.req] \in {"items", "ok", "error", "lost"}
                      /\ ReasonGiven(row.decision, row.notes)
    BY DEF AuditInv
  <2>1. CASE row \in audit
    BY <1>2, <2>1 DEF IInv, TypeOK, AuditInv, Lifecycle!ApprovalRow
  <2>2. CASE row = RowOf(r)
    <3>1. ReasonGiven(cmd[r].decision, cmd[r].notes)
      BY DEF IInv, AnswerInv
    <3> QED
      BY <1>1, <1>2, <2>2, <3>1, RowFacts DEF IInv, TypeOK
  <2> QED
    BY <1>3, <2>1, <2>2
<1> QED
  BY <1>4, <1>5, <1>7, <1>9, <1>10 DEF IInv

LEMMA WorkflowStep == IInv /\ [Next]_vars => IInv'
<1> SUFFICES ASSUME IInv, [Next]_vars PROVE IInv'
  OBVIOUS
<1>1. ASSUME NEW o \in Orders, SubmitCustomOrder(o) PROVE IInv'
  BY <1>1, SubmitKeeps
<1>2. ASSUME NEW r \in Requests, Receive(r) \/ RequestStep(r) PROVE IInv'
  <2>1. CASE Commit(r)
    BY <2>1, CommitKeeps DEF Commit
  <2>2. CASE BeginTx(r) \/ UpdateNoRows(r) \/ FetchContact(r)
    BY <2>2, GoKeeps
  <2>3. CASE UpdateOrder(r) \/ InsertApproval(r) \/ FetchItems(r) \/ Receive(r)
    BY <2>3, UpdateKeeps, InsertKeeps, ItemsKeeps, ReceiveKeeps
  <2> QED
    BY <1>2, <2>1, <2>2, <2>3 DEF RequestStep
<1>3. ASSUME NEW r \in Requests,
             StatementFails(r) \/ CommitFails(r) \/ FetchItemsFails(r)
      PROVE  IInv'
  <2>1. CASE CommitFails(r)
    BY <2>1, CommitKeeps DEF CommitFails
  <2> QED
    BY <1>3, <2>1, StmtFailsKeeps, GoKeeps
<1>4. ASSUME NEW r \in Requests, NotifyStep(r) \/ NotifyAborts(r) PROVE IInv'
  BY <1>4, NotifierKeeps
<1>5. CASE Crash
  BY <1>5, CrashKeeps
<1>6. CASE UNCHANGED vars
  BY <1>6 DEF vars, IInv, TypeOK, LockInv, TxnInv, AnswerInv, AuditInv, RowOf
<1> QED
  BY <1>1, <1>2, <1>3, <1>4, <1>5, <1>6 DEF Next, Quiet

LEMMA WorkflowInductive == Spec => []IInv
<1>1. Init => IInv
  BY WorkflowInit
<1>2. IInv /\ [Next]_vars => IInv'
  BY WorkflowStep
<1> QED
  BY <1>1, <1>2, PTL DEF Spec

\* Every state of the workflow is well-formed.
THEOREM WorkflowTypes == Spec => []TypeOK
<1>1. IInv => TypeOK
  BY DEF IInv
<1> QED
  BY <1>1, WorkflowInductive, PTL

-----------------------------------------------------------------------------
(* The refinement: status and audit, as they are committed.  A commit that *)
(* takes effect is the abstract decision, everything else a stutter.       *)

LEMMA CommitMaps ==
  ASSUME IInv, NEW r \in Requests, pc[r] = "commit", ApplyWrites(r)
  PROVE  Lifecycle!Decide(RowOf(r)) /\ RowOf(r) \in Lifecycle!ApprovalRow
  BY CommitWrites, RowFacts DEF Lifecycle!Decide

LEMMA StepMaps == IInv /\ [Next]_vars => [Lifecycle!Next]_(Lifecycle!vars)
<1> SUFFICES ASSUME IInv, [Next]_vars PROVE Lifecycle!Next \/ UNCHANGED <<status, audit>>
  BY DEF Lifecycle!vars
<1>1. ASSUME NEW o \in Orders, SubmitCustomOrder(o) PROVE Lifecycle!Next
  BY <1>1 DEF SubmitCustomOrder, Lifecycle!Next, Lifecycle!Submit
<1>2. ASSUME NEW r \in Requests, Commit(r) \/ CommitFails(r)
      PROVE  Lifecycle!Next \/ UNCHANGED <<status, audit>>
  BY <1>2, CommitMaps DEF Commit, CommitFails, Lifecycle!Next, store
<1>3. ASSUME NEW r \in Requests,
             \/ Receive(r) \/ BeginTx(r) \/ UpdateOrder(r) \/ UpdateNoRows(r)
             \/ InsertApproval(r) \/ FetchContact(r) \/ FetchItems(r)
             \/ StatementFails(r) \/ FetchItemsFails(r)
      PROVE  UNCHANGED <<status, audit>>
  BY <1>3 DEF Receive, BeginTx, UpdateOrder, UpdateNoRows, InsertApproval, FetchContact,
              FetchItems, StatementFails, FetchItemsFails, store
<1>4. ASSUME NEW r \in Requests, NotifyStep(r) \/ NotifyAborts(r)
      PROVE  UNCHANGED <<status, audit>>
  BY <1>4 DEF NotifyStep, RenderEmail, SendEmail, SendSMS, NotifyAborts, store
<1>5. Crash \/ Quiet \/ UNCHANGED vars => UNCHANGED <<status, audit>>
  BY DEF Crash, Quiet, vars, store
<1> QED
  BY <1>1, <1>2, <1>3, <1>4, <1>5 DEF Next, RequestStep

\* With transactions interleaved, failing, committing unnoticed and cut
\* short by crashes, the workflow still behaves like OrderLifecycle: an
\* order is decided once, status and audit row in one step, for good.
THEOREM WorkflowImplementsLifecycle == Spec => ImplementsLifecycle
<1>1. Init => Lifecycle!Init
  BY DEF Init, Lifecycle!Init
<1>2. IInv /\ [Next]_vars => [Lifecycle!Next]_(Lifecycle!vars)
  BY StepMaps
<1> QED
  BY <1>1, <1>2, WorkflowInductive, PTL DEF Spec, ImplementsLifecycle, Lifecycle!Spec

\* However many admins decide the same order at once, an order is decided
\* exactly when the audit trail has one row for it, with that decision:
\* what OrderLifecycle guarantees, in the terms of this module.
THEOREM WorkflowAudit == Spec => []AuditMatchesStatus
<1>1. Lifecycle!Init => LP!Init
  BY DEF Lifecycle!Init, LP!Init
<1>2. [Lifecycle!Next]_(Lifecycle!vars) => [LP!Next]_(LP!vars)
  BY DEF Lifecycle!Next, LP!Next, Lifecycle!vars, LP!vars, Lifecycle!Submit, LP!Submit,
         Lifecycle!Decide, LP!Decide, Lifecycle!ApprovalRow, LP!ApprovalRow,
         Lifecycle!Decisions, LP!Decisions, Lifecycle!Notes, LP!Notes
<1>3. LP!Spec => [](LP!TypeOK /\ LP!AuditMatchesStatus)
  BY LP!LifecycleAudit
<1>4. LP!AuditMatchesStatus => AuditMatchesStatus
  BY DEF LP!AuditMatchesStatus, AuditMatchesStatus, LP!RowsOf, RowsOf, LP!Decisions,
         Decisions, Lifecycle!Decisions
<1> QED
  BY <1>1, <1>2, <1>3, <1>4, WorkflowImplementsLifecycle, PTL
     DEF ImplementsLifecycle, Lifecycle!Spec, LP!Spec

\* No customer hears of a decision that is not the order's committed one.
THEOREM WorkflowTellsCustomers == Spec => []CustomerHearsTheDecision
<1>1. IInv => CustomerHearsTheDecision
  BY DEF IInv, AnswerInv, CustomerHearsTheDecision, TypeOK
<1> QED
  BY <1>1, WorkflowInductive, PTL

\* No admin is told 200, 400 or 409 wrongly.
THEOREM WorkflowTellsTheTruth == Spec => []AnswerIsTrue
<1>1. IInv => AnswerIsTrue
  BY DEF IInv, AnswerInv, AuditInv, AnswerIsTrue
<1> QED
  BY <1>1, WorkflowInductive, PTL

\* No order is ever declined without a reason on record.
THEOREM WorkflowExplainsDeclines == Spec => []DeclinesAreExplained
<1>1. IInv /\ AuditMatchesStatus => DeclinesAreExplained
  <2> SUFFICES ASSUME IInv, AuditMatchesStatus, NEW o \in Orders, status[o] = "declined"
               PROVE  \E row \in RowsOf(o) : row.notes = "reason"
    BY DEF DeclinesAreExplained
  <2>1. PICK row \in audit : RowsOf(o) = {row} /\ row.decision = "declined"
    BY TypeFacts DEF AuditMatchesStatus
  <2>2. row.notes = "reason"
    BY <2>1 DEF IInv, AuditInv, ReasonGiven
  <2> QED
    BY <2>1, <2>2
<1> QED
  BY <1>1, WorkflowInductive, WorkflowAudit, PTL

-----------------------------------------------------------------------------
(* Delivery.  The clocks change nothing in what Approvals guarantees, and  *)
(* an email, however slow, leaves the SMS what the client's timeout keeps  *)
(* of the budget they share.                                               *)

\* While the email is under way its own clock accounts for all that is gone
\* of the budget.
InTime ==
    \A r \in Requests :
        /\ spent[r] <= ClientTimeout
        /\ notify[r] = "render" => left[r] = Budget /\ spent[r] = 0
        /\ notify[r] = "email" => left[r] + spent[r] = Budget
        /\ notify[r] = "sms" => left[r] + spent[r] >= Budget - ClientTimeout

\* A goroutine past the email has tried it, one at its end has tried every
\* channel.
TriedInv ==
    \A r \in Requests :
        /\ notify[r] = "sms" => "email" \in tried[r]
        /\ notify[r] = "finished" => Channels(r) \subseteq tried[r]

DInv == IInv /\ TimersOK /\ InTime /\ TriedInv

\* A step of the workflow with the clocks, or the clocks alone: to Approvals
\* the second is a stutter.
LEMMA TimeIsStutter == [TimedNext]_timedVars => [Next]_vars
BY DEF TimedNext, Timed, Pass, timedVars

\* A goroutine renders, then sends the email, then the SMS.
LEMMA Stages ==
  ASSUME IInv, [Next]_vars, NEW r \in Requests, notify'[r] # notify[r]
  PROVE  /\ notify'[r] = "render" => notify[r] = "none"
         /\ notify'[r] = "email" => notify[r] = "render"
         /\ notify'[r] = "sms" => notify[r] = "email"
<1>1. notify \in [Requests -> {"none", "finished", "aborted", "killed"} \cup Notifying]
  BY DEF IInv, TypeOK
<1>2. ASSUME NEW z \in Requests, FetchItems(z) \/ NotifyStep(z) \/ NotifyAborts(z)
      PROVE  z = r
  BY <1>1, <1>2 DEF FetchItems, NotifyStep, RenderEmail, SendEmail, SendSMS, NotifyAborts
<1>3. CASE FetchItems(r)
  <2>1. notify[r] = "none"
    BY <1>3 DEF FetchItems, IInv, AnswerInv
  <2> QED
    BY <1>1, <1>3, <2>1 DEF FetchItems
<1>4. CASE NotifyStep(r) \/ NotifyAborts(r)
  BY <1>1, <1>4 DEF NotifyStep, RenderEmail, SendEmail, SendSMS, NotifyAborts
<1>5. CASE Crash
  BY <1>1, <1>5 DEF Crash
<1>6. \/ \E z \in Requests : FetchItems(z) \/ NotifyStep(z) \/ NotifyAborts(z)
      \/ Crash
  BY DEF Next, vars, mail, SubmitCustomOrder, Receive, RequestStep, BeginTx, UpdateOrder,
     UpdateNoRows, InsertApproval, FetchContact, Commit, StatementFails, CommitFails,
     FetchItemsFails, Quiet
<1> QED
  BY <1>2, <1>3, <1>4, <1>5, <1>6

\* The request of a goroutine stays the one it was started for.
LEMMA CommandKept ==
  ASSUME IInv, [Next]_vars, NEW r \in Requests, notify[r] # "none"
  PROVE  cmd'[r] = cmd[r]
<1>1. pc[r] = "ok" /\ cmd \in [Requests -> Command \cup {NONE}]
  BY DEF IInv, AnswerInv, TypeOK
<1>2. ASSUME NEW z \in Requests, Receive(z)
      PROVE  cmd'[r] = cmd[r]
  BY <1>1, <1>2 DEF Receive
<1>3. \/ UNCHANGED cmd
      \/ \E z \in Requests : Receive(z)
  BY DEF Next, vars, SubmitCustomOrder, RequestStep, BeginTx, UpdateOrder, UpdateNoRows,
     InsertApproval, FetchContact, Commit, FetchItems, StatementFails, CommitFails,
     FetchItemsFails, NotifyStep, RenderEmail, SendEmail, SendSMS, NotifyAborts, Crash, Quiet
<1> QED
  BY <1>2, <1>3

\* A goroutine ends after the SMS, or after the email of a customer without
\* a phone number.
LEMMA EndsAfterLastSend ==
  ASSUME IInv, [Next]_vars, NEW r \in Requests,
         notify'[r] = "finished", notify[r] # "finished"
  PROVE  \/ notify[r] = "sms"
         \/ notify[r] = "email" /\ Channels(r) = {"email"}
<1>1. notify \in [Requests -> {"none", "finished", "aborted", "killed"} \cup Notifying]
  BY DEF IInv, TypeOK
<1>2. ASSUME NEW z \in Requests, SendEmail(z) \/ SendSMS(z)
      PROVE  z = r
  BY <1>1, <1>2 DEF SendEmail, SendSMS
<1>3. \E z \in Requests : SendEmail(z) \/ SendSMS(z)
  <2>1. ASSUME NEW z \in Requests, FetchItems(z) \/ RenderEmail(z) \/ NotifyAborts(z)
        PROVE  FALSE
    BY <1>1, <2>1 DEF FetchItems, RenderEmail, NotifyAborts
  <2>2. ~Crash
    BY <1>1 DEF Crash
  <2> QED
    BY <2>1, <2>2 DEF Next, vars, mail, SubmitCustomOrder, Receive, RequestStep, BeginTx,
       UpdateOrder, UpdateNoRows, InsertApproval, FetchContact, Commit, StatementFails,
       CommitFails, FetchItemsFails, NotifyStep, Quiet
<1>4. SendEmail(r) \/ SendSMS(r)
  BY <1>2, <1>3
<1>5. CASE SendEmail(r)
  BY <1>1, <1>5 DEF SendEmail, Channels
<1>6. CASE SendSMS(r)
  BY <1>6 DEF SendSMS
<1> QED
  BY <1>4, <1>5, <1>6

LEMMA TriedStep ==
  ASSUME DInv, [Next]_vars, Timers
  PROVE  TriedInv'
<1> SUFFICES ASSUME NEW r \in Requests
             PROVE  /\ notify'[r] = "sms" => "email" \in tried'[r]
                    /\ notify'[r] = "finished" => Channels(r)' \subseteq tried'[r]
  BY DEF TriedInv
<1>1. /\ left[r] \in 0..Budget /\ spent[r] \in 0..Budget
      /\ tried'[r] = tried[r] \cup {c \in {"email", "sms"} : Tried(r, c)}
  BY DEF DInv, TimersOK, Timers
<1>2. notify[r] = "sms" \/ notify[r] = "email" => left[r] + spent[r] > 0
  BY <1>1, DeliveryAssumption DEF DInv, InTime
<1>3. notify'[r] = "sms" => "email" \in tried'[r]
  <2>1. CASE notify[r] = "sms"
    BY <1>1, <2>1 DEF DInv, TriedInv
  <2>2. CASE notify[r] # "sms" /\ notify'[r] = "sms"
    <3>1. notify[r] = "email"
      BY <2>2, Stages DEF DInv
    <3> QED
      BY <1>1, <1>2, <2>2, <3>1 DEF Tried
  <2> QED
    BY <2>1, <2>2
<1>4. ASSUME notify'[r] = "finished"
      PROVE  Channels(r)' \subseteq tried'[r]
  <2>1. notify[r] # "none"
    BY <1>4, EndsAfterLastSend DEF DInv
  <2>2. Channels(r)' = Channels(r)
    BY <2>1, CommandKept DEF DInv, Channels
  <2>3. CASE notify[r] = "finished"
    BY <1>1, <2>2, <2>3 DEF DInv, TriedInv
  <2>4. CASE notify[r] = "sms"
    <3>1. "email" \in tried[r] /\ Tried(r, "sms")
      BY <1>2, <1>4, <2>4 DEF DInv, TriedInv, Tried
    <3> QED
      BY <1>1, <2>2, <3>1 DEF Channels
  <2>5. CASE notify[r] = "email" /\ Channels(r) = {"email"}
    <3>1. Tried(r, "email")
      BY <1>2, <1>4, <2>5 DEF Tried
    <3> QED
      BY <1>1, <2>2, <2>5, <3>1
  <2> QED
    BY <1>4, <2>3, <2>4, <2>5, EndsAfterLastSend DEF DInv
<1> QED
  BY <1>3, <1>4

LEMMA TimedInitially == TimedInit => DInv
<1> SUFFICES ASSUME TimedInit PROVE DInv
  OBVIOUS
<1>1. IInv /\ \A r \in Requests : notify[r] = "none"
  BY WorkflowInit DEF TimedInit, Init
<1>2. TimersOK /\ InTime /\ TriedInv
  BY <1>1, DeliveryAssumption DEF TimedInit, TimersOK, InTime, TriedInv
<1> QED
  BY <1>1, <1>2 DEF DInv

LEMMA TimersStep ==
  ASSUME DInv, [Next]_vars, Timers
  PROVE  TimersOK' /\ InTime'
<1>1. ASSUME NEW r \in Requests
      PROVE  /\ left[r] \in 0..Budget /\ spent[r] \in 0..Budget
             /\ left'[r] = IF notify[r] = "none" /\ notify'[r] = "render" THEN Budget ELSE left[r]
             /\ spent'[r] = IF notify'[r] = notify[r] THEN spent[r] ELSE 0
  BY DEF DInv, TimersOK, Timers
<1>2. TimersOK'
  <2>1. tried' \in [Requests -> SUBSET {"email", "sms"}]
    BY DEF DInv, TimersOK, Timers
  <2> QED
    BY <1>1, <2>1, DeliveryAssumption DEF TimersOK, Timers
<1>3. ASSUME NEW r \in Requests
      PROVE  /\ spent'[r] <= ClientTimeout
             /\ notify'[r] = "render" => left'[r] = Budget /\ spent'[r] = 0
             /\ notify'[r] = "email" => left'[r] + spent'[r] = Budget
             /\ notify'[r] = "sms" => left'[r] + spent'[r] >= Budget - ClientTimeout
  <2>1. CASE notify'[r] = notify[r]
    <3>1. left'[r] = left[r] /\ spent'[r] = spent[r]
      BY <1>1, <2>1
    <3> QED
      BY <2>1, <3>1 DEF DInv, InTime
  <2>2. CASE notify'[r] # notify[r]
    <3>1. spent'[r] = 0
      BY <1>1, <2>2
    <3>2. CASE notify'[r] = "render"
      BY <1>1, <2>2, <3>1, <3>2, Stages, DeliveryAssumption DEF DInv
    <3>3. CASE notify'[r] = "email"
      <4>1. notify[r] = "render"
        BY <2>2, <3>3, Stages DEF DInv
      <4>2. left'[r] = Budget
        BY <1>1, <4>1 DEF DInv, InTime
      <4> QED
        BY <3>1, <3>3, <4>2, DeliveryAssumption
    <3>4. CASE notify'[r] = "sms"
      <4>1. notify[r] = "email"
        BY <2>2, <3>4, Stages DEF DInv
      <4>2. left'[r] = left[r] /\ left[r] + spent[r] = Budget /\ spent[r] <= ClientTimeout
        BY <1>1, <4>1 DEF DInv, InTime
      <4> QED
        BY <1>1, <3>1, <3>4, <4>2, DeliveryAssumption
    <3> QED
      BY <3>1, <3>2, <3>3, <3>4, DeliveryAssumption
  <2> QED
    BY <2>1, <2>2
<1> QED
  BY <1>2, <1>3 DEF InTime

LEMMA PassStep ==
  ASSUME DInv, Pass
  PROVE  TimersOK' /\ InTime' /\ TriedInv'
<1>1. ASSUME NEW r \in Requests
      PROVE  /\ left'[r] \in 0..Budget /\ spent'[r] \in 0..Budget /\ notify'[r] = notify[r]
             /\ spent'[r] <= ClientTimeout
             /\ notify[r] # "render"
             /\ left'[r] + spent'[r] = left[r] + spent[r]
  <2>1. /\ left[r] \in 0..Budget /\ spent[r] \in 0..Budget /\ spent[r] <= ClientTimeout
    BY DEF DInv, TimersOK, InTime
  <2>2. notify'[r] = notify[r]
    BY DEF Pass, vars
  <2>3. CASE notify[r] \in Notifying
    <3>1. notify[r] # "render" /\ left[r] # 0 /\ spent[r] # ClientTimeout
      BY <2>3 DEF Pass, Over
    <3>2. left'[r] = left[r] - 1 /\ spent'[r] = spent[r] + 1
      BY <2>3 DEF Pass
    <3> QED
      BY <2>1, <2>2, <3>1, <3>2, DeliveryAssumption
  <2>4. CASE notify[r] \notin Notifying
    <3>1. left'[r] = left[r] /\ spent'[r] = spent[r]
      BY <2>4 DEF Pass
    <3> QED
      BY <2>1, <2>2, <2>4, <3>1 DEF Notifying
  <2> QED
    BY <2>3, <2>4
<1>2. TimersOK'
  BY <1>1 DEF TimersOK, Pass, DInv
<1>3. InTime'
  BY <1>1 DEF InTime, DInv
<1>4. TriedInv'
  BY DEF Pass, vars, DInv, TriedInv, Channels
<1> QED
  BY <1>2, <1>3, <1>4

LEMMA TimedStep == DInv /\ [TimedNext]_timedVars => DInv'
<1> SUFFICES ASSUME DInv, [TimedNext]_timedVars PROVE DInv'
  OBVIOUS
<1>1. IInv' /\ [Next]_vars
  BY TimeIsStutter, WorkflowStep DEF DInv
<1>2. CASE Timed(Next)
  BY <1>1, <1>2, TimersStep, TriedStep DEF Timed, DInv
<1>3. CASE Pass
  BY <1>1, <1>3, PassStep DEF DInv
<1>4. CASE UNCHANGED timedVars
  BY <1>1, <1>4 DEF timedVars, vars, DInv, TimersOK, InTime, TriedInv, Channels
<1> QED
  BY <1>2, <1>3, <1>4 DEF TimedNext

-----------------------------------------------------------------------------

\* With the clocks of dispatchNotification the workflow does nothing it
\* would not do without: every guarantee of Approvals is one of Delivery.
THEOREM ClocksChangeNothing == TimedSpec => Spec
<1>1. TimedInit => Init
  BY DEF TimedInit
<1> QED
  BY <1>1, TimeIsStutter, PTL DEF TimedSpec, Spec

\* However slow the email provider is, the SMS gets its share of the
\* 15 s context: the context less the HTTP client's timeout.
THEOREM SmsHasTime == TimedSpec => []SmsGetsItsTurn
<1>1. DInv => SmsGetsItsTurn
  BY DEF DInv, InTime, SmsGetsItsTurn
<1> QED
  BY <1>1, TimedInitially, TimedStep, PTL DEF TimedSpec

\* A notification that ran to its end gave the email and, where there is a
\* phone number, the SMS their chance, each with time left in the context,
\* whatever the providers did (dispatchNotification logs an error and goes on).
THEOREM ChannelsTried == TimedSpec => []EveryChannelTried
<1>1. DInv => EveryChannelTried
  BY DEF DInv, TriedInv, EveryChannelTried
<1> QED
  BY <1>1, TimedInitially, TimedStep, PTL DEF TimedSpec
=============================================================================
