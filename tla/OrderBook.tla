------------------------------- MODULE OrderBook -------------------------------
(***************************************************************************)
(* What submitting and reading custom orders promises, with no statements, *)
(* transactions, columns or pages in it.  An order enters the book in one  *)
(* step, or never; whoever sends it is told so, or told that it was        *)
(* rejected, which is final, or gets an error, which says nothing.  A      *)
(* reader is answered with what he may see of the book at one instant      *)
(* since he asked.  CustomOrders is shown to implement this specification. *)
(***************************************************************************)
CONSTANTS
    Users,          \* users with an account
    Admins,         \* those who may see all orders
    Requests,       \* requests; an order has the name of the one that placed it
    NONE            \* no target, no query

Decided == {"confirmed", "declined"}
Row     == [order: Requests, status: {"pending_review"} \cup Decided]

\* Place an order, see one, see one's own, see those that wait for a decision.
Query ==
    [kind: {"submit", "list", "pending"}, caller: Users, target: {NONE}]
    \cup [kind: {"get"}, caller: Users, target: Requests]

VARIABLES
    book,           \* book[o]: the status of order o, "absent" if there is none
    query,          \* query[r]: what r asks for
    outcome,        \* outcome[r]: how far r is
    rows            \* rows[r]: what r has seen of the book and is told

vars == <<book, query, outcome, rows>>

TypeOK ==
    /\ book \in [Requests -> {"absent", "pending_review"} \cup Decided]
    /\ query \in [Requests -> Query \cup {NONE}]
    /\ outcome \in [Requests -> {"idle", "open", "looked", "told", "rejected", "error"}]
    /\ rows \in [Requests -> SUBSET Row]

Init ==
    /\ book = [o \in Requests |-> "absent"]
    /\ query = [r \in Requests |-> NONE]
    /\ outcome = [r \in Requests |-> "idle"]
    /\ rows = [r \in Requests |-> {}]

Owner(o) == query[o].caller
MayView(u, o) == u \in Admins \/ Owner(o) = u

\* What q may see of the book as it is now.
Visible(q) ==
    {[order |-> o, status |-> book[o]] :
        o \in {x \in Requests :
                  /\ book[x] # "absent"
                  /\ \/ q.kind = "get" /\ x = q.target /\ MayView(q.caller, x)
                     \/ q.kind = "list" /\ Owner(x) = q.caller
                     \/ q.kind = "pending" /\ book[x] = "pending_review"}}

\* Not everything that is sent is an order; the admin's list is his alone.
Forbidden(q) == q.kind = "pending" /\ q.caller \notin Admins

Ask(r) ==
    /\ outcome[r] = "idle"
    /\ \E q \in Query :
          /\ query' = [query EXCEPT ![r] = q]
          /\ \/ outcome' = [outcome EXCEPT ![r] = "open"] /\ ~ Forbidden(q)
             \/ outcome' = [outcome EXCEPT ![r] = "rejected"] /\ (Forbidden(q) \/ q.kind = "submit")
    /\ UNCHANGED <<book, rows>>

\* The order is there, whole, and its customer is told, or gets an error.
Place(r) ==
    /\ outcome[r] = "open" /\ query[r].kind = "submit" /\ book[r] = "absent"
    /\ book' = [book EXCEPT ![r] = "pending_review"]
    /\ \/ /\ outcome' = [outcome EXCEPT ![r] = "told"]
          /\ rows' = [rows EXCEPT ![r] = {[order |-> r, status |-> "pending_review"]}]
       \/ outcome' = [outcome EXCEPT ![r] = "error"] /\ UNCHANGED rows
    /\ UNCHANGED query

Reject(r) ==
    /\ outcome[r] = "open" /\ query[r].kind = "submit"
    /\ outcome' = [outcome EXCEPT ![r] = "rejected"]
    /\ UNCHANGED <<book, query, rows>>

\* The instant r's answer is about.
Look(r) ==
    /\ outcome[r] = "open" /\ query[r].kind # "submit"
    /\ rows' = [rows EXCEPT ![r] = Visible(query[r])]
    /\ \E next \in {"looked", "told"} : outcome' = [outcome EXCEPT ![r] = next]
    /\ UNCHANGED <<book, query>>

Tell(r) ==
    /\ outcome[r] = "looked"
    /\ outcome' = [outcome EXCEPT ![r] = "told"]
    /\ UNCHANGED <<book, query, rows>>

\* Requests end without an answer, one or, in a crash, all of them.
Fail(S) ==
    /\ \A r \in S : outcome[r] \in {"open", "looked"}
    /\ outcome' = [r \in Requests |-> IF r \in S THEN "error" ELSE outcome[r]]
    /\ rows' = [r \in Requests |-> IF r \in S THEN {} ELSE rows[r]]
    /\ UNCHANGED <<book, query>>

Decide(o) ==
    /\ book[o] = "pending_review"
    /\ \E d \in Decided : book' = [book EXCEPT ![o] = d]
    /\ UNCHANGED <<query, outcome, rows>>

Next ==
    \/ \E r \in Requests :
          \/ Decide(r) \/ Place(r) \/ Reject(r) \/ Look(r) \/ Tell(r) \/ Ask(r)
    \/ \E S \in SUBSET Requests : Fail(S)

Spec == Init /\ [][Next]_vars
=============================================================================
