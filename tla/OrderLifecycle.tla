---------------------------- MODULE OrderLifecycle ----------------------------
(***************************************************************************)
(* What the approval workflow promises, with no transactions, locks,       *)
(* failures or notifications in it: a custom order is submitted once, is   *)
(* then decided at most once, and the decision appears in orders.status    *)
(* and in the order_approvals audit trail at the same instant.             *)
(* Approvals is shown to implement this specification.                     *)
(***************************************************************************)
CONSTANTS
    Orders,         \* order identifiers
    Admins,         \* users allowed on the admin routes
    Requests        \* decision requests; each leaves at most one audit row

Decisions == {"confirmed", "declined"}      \* models.ApprovalDecision

Notes == {"none", "blank", "reason"}        \* absent or empty, white space, text

OrderStatus == {"absent", "pending_review"} \cup Decisions

ApprovalRow ==
    [req: Requests, order: Orders, admin: Admins, decision: Decisions, notes: Notes]

VARIABLES
    status,         \* status[o]: the committed orders.status of o
    audit           \* the committed rows of order_approvals

vars == <<status, audit>>

TypeOK ==
    /\ status \in [Orders -> OrderStatus]
    /\ audit \subseteq ApprovalRow

Init ==
    /\ status = [o \in Orders |-> "absent"]
    /\ audit = {}

\* A customer's order becomes visible, awaiting review.
Submit(o) ==
    /\ status[o] = "absent"
    /\ status' = [status EXCEPT ![o] = "pending_review"]
    /\ UNCHANGED audit

\* The one decision an order ever gets: status and audit row together.
Decide(row) ==
    /\ status[row.order] = "pending_review"
    /\ status' = [status EXCEPT ![row.order] = row.decision]
    /\ audit' = audit \cup {row}

Next ==
    \/ \E o \in Orders : Submit(o)
    \/ \E row \in ApprovalRow : Decide(row)

Spec == Init /\ [][Next]_vars

-----------------------------------------------------------------------------

RowsOf(o) == {row \in audit : row.order = o}

\* The audit trail and the order table agree: an undecided order has no
\* row, a decided one has exactly one row and it names the order's status.
AuditMatchesStatus ==
    \A o \in Orders :
        IF status[o] \in Decisions
        THEN \E row \in audit : RowsOf(o) = {row} /\ row.decision = status[o]
        ELSE RowsOf(o) = {}

\* A decision is final: no later step changes the status of a decided
\* order or touches its audit trail.
DecisionFinal ==
    [][\A o \in Orders : status[o] \in Decisions =>
          /\ status'[o] = status[o]
          /\ RowsOf(o)' = RowsOf(o)]_vars
=============================================================================
