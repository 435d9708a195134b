-------------------------- MODULE OrderLifecycleProofs --------------------------
(***************************************************************************)
(* Proofs about OrderLifecycle, for any sets of orders, admins and         *)
(* requests: the audit trail matches the order table, and a decision is    *)
(* final.  Both carry over to whatever implements OrderLifecycle.          *)
(***************************************************************************)
EXTENDS OrderLifecycle, TLAPS

IInv == TypeOK /\ AuditMatchesStatus

LEMMA LifecycleInit == Init => IInv
  BY DEF Init, IInv, TypeOK, AuditMatchesStatus, RowsOf, OrderStatus, Decisions

LEMMA SubmitKeeps ==
  ASSUME IInv, NEW o \in Orders, Submit(o)
  PROVE  IInv'
<1>1. TypeOK'
  BY DEF IInv, TypeOK, Submit, OrderStatus, Decisions
<1>2. ASSUME NEW p \in Orders
      PROVE  IF status'[p] \in Decisions
             THEN \E row \in audit' : RowsOf(p)' = {row} /\ row.decision = status'[p]
             ELSE RowsOf(p)' = {}
  <2>1. RowsOf(p)' = RowsOf(p)
    BY DEF Submit, RowsOf
  <2>2. CASE p = o
    <3>1. status[p] \notin Decisions /\ status'[p] \notin Decisions
      BY <2>2 DEF Submit, Decisions, IInv, TypeOK
    <3> QED
      BY <2>1, <3>1 DEF IInv, AuditMatchesStatus
  <2>3. CASE p # o
    BY <2>1, <2>3 DEF Submit, IInv, TypeOK, AuditMatchesStatus
  <2> QED
    BY <2>2, <2>3
<1> QED
  BY <1>1, <1>2 DEF IInv, AuditMatchesStatus

LEMMA DecideKeeps ==
  ASSUME IInv, NEW row \in ApprovalRow, Decide(row)
  PROVE  IInv'
<1> DEFINE o == row.order
<1>1. o \in Orders /\ row.decision \in Decisions
  BY DEF ApprovalRow
<1>2. TypeOK'
  BY <1>1 DEF IInv, TypeOK, Decide, OrderStatus, Decisions
<1>3. ASSUME NEW p \in Orders
      PROVE  IF status'[p] \in Decisions
             THEN \E r \in audit' : RowsOf(p)' = {r} /\ r.decision = status'[p]
             ELSE RowsOf(p)' = {}
  <2>1. CASE p = o
    <3>1. status[o] \notin Decisions
      BY DEF Decide, Decisions
    <3>2. RowsOf(o) = {}
      BY <1>1, <3>1 DEF IInv, AuditMatchesStatus
    <3>3. RowsOf(o)' = {row}
      BY <3>2 DEF Decide, RowsOf
    <3>4. status'[o] = row.decision
      BY <1>1 DEF Decide, IInv, TypeOK
    <3>5. row \in audit'
      BY DEF Decide
    <3> QED
      BY <1>1, <2>1, <3>3, <3>4, <3>5
  <2>2. CASE p # o
    <3>1. RowsOf(p)' = RowsOf(p) /\ status'[p] = status[p]
      BY <2>2 DEF Decide, RowsOf, IInv, TypeOK
    <3>2. audit \subseteq audit'
      BY DEF Decide
    <3> QED
      BY <3>1, <3>2 DEF IInv, AuditMatchesStatus
  <2> QED
    BY <2>1, <2>2
<1> QED
  BY <1>2, <1>3 DEF IInv, AuditMatchesStatus

LEMMA LifecycleStep == IInv /\ [Next]_vars => IInv'
<1> SUFFICES ASSUME IInv, [Next]_vars PROVE IInv'
  OBVIOUS
<1>1. CASE \E o \in Orders : Submit(o)
  BY <1>1, SubmitKeeps
<1>2. CASE \E row \in ApprovalRow : Decide(row)
  BY <1>2, DecideKeeps
<1>3. CASE UNCHANGED vars
  BY <1>3 DEF vars, IInv, TypeOK, AuditMatchesStatus, RowsOf
<1> QED
  BY <1>1, <1>2, <1>3 DEF Next

LEMMA LifecycleInductive == Spec => []IInv
<1>1. Init => IInv
  BY LifecycleInit
<1>2. IInv /\ [Next]_vars => IInv'
  BY LifecycleStep
<1> QED
  BY <1>1, <1>2, PTL DEF Spec

\* In every behaviour an order is decided exactly when the audit trail has
\* one row for it, and that row names the decision.
THEOREM LifecycleAudit == Spec => [](TypeOK /\ AuditMatchesStatus)
<1>1. IInv => TypeOK /\ AuditMatchesStatus
  BY DEF IInv
<1> QED
  BY <1>1, LifecycleInductive, PTL

\* Once an order is decided, neither its status nor its audit row changes.
THEOREM LifecycleFinal == Spec => DecisionFinal
<1> DEFINE Final == \A o \in Orders : status[o] \in Decisions =>
                      /\ status'[o] = status[o]
                      /\ RowsOf(o)' = RowsOf(o)
<1>1. IInv /\ [Next]_vars => [Final]_vars
  <2> SUFFICES ASSUME IInv, Next, NEW o \in Orders, status[o] \in Decisions
               PROVE  status'[o] = status[o] /\ RowsOf(o)' = RowsOf(o)
    OBVIOUS
  <2>1. ASSUME NEW p \in Orders, Submit(p)
        PROVE  status'[o] = status[o] /\ RowsOf(o)' = RowsOf(o)
    BY <2>1 DEF Submit, RowsOf, Decisions, IInv, TypeOK
  <2>2. ASSUME NEW row \in ApprovalRow, Decide(row)
        PROVE  status'[o] = status[o] /\ RowsOf(o)' = RowsOf(o)
    <3>1. row.order # o
      BY <2>2 DEF Decide, Decisions
    <3> QED
      BY <2>2, <3>1 DEF Decide, RowsOf, IInv, TypeOK
  <2> QED
    BY <2>1, <2>2 DEF Next
<1> QED
  BY <1>1, LifecycleInductive, PTL DEF Spec, DecisionFinal
=============================================================================
