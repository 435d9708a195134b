--------------------------- MODULE CustomOrdersProofs ---------------------------
(***************************************************************************)
(* Theorems about CustomOrders, for any users, requests and bodies and any *)
(* column widths that satisfy ColumnAssumption.                            *)
(***************************************************************************)
EXTENDS CustomOrders, TLAPS

-----------------------------------------------------------------------------
(* Prices. *)

\* Whatever is ordered, its price is a number between two bounds.  It is what
\* a client adds up from the catalogue, and the fee for every byte of the
\* text that is not a character of its own: the tables have no entry for
\* which Calculate would round (pricing.go).
LEMMA PriceFacts ==
  ASSUME NEW s, Recognized(s), s.engraving \in 0..MaxEngraving,
         s.characters \in 0..s.engraving, s.engraving <= 4 * s.characters
  PROVE  /\ Total(s) \in Nat /\ MinPrice <= Total(s) /\ Total(s) <= MaxPrice
         /\ ClientEstimate(s) \in Nat
         /\ 10 * Total(s) = ClientEstimate(s)
                            + 10 * engravingPerCharFee * (s.engraving - s.characters)
<1> DEFINE b == categoryBasePrice[s.category]
           m == metalMultiplier[s.metal]
           g == GemFee(s)
           n == s.engraving
           c == s.characters
           f == IF c = 0 THEN 0 ELSE 20000 + c * 1500
           e == EngravingFee(s)
           a == AfterMetal(s)
<1>1. b \in {150000, 220000, 280000}
  BY DEF Recognized, categoryBasePrice
<1>2. m \in {10, 24, 25, 32}
  BY DEF Recognized, metalMultiplier
<1>3. g \in {0, 15000, 35000, 45000, 180000, 220000, 260000, 450000}
  BY DEF Recognized, GemFee, gemstoneFee
<1>4. a \in Nat /\ 10 * a = b * m /\ a >= 150000 /\ a <= 896000 /\ a % 10 = 0
  BY <1>1, <1>2 DEF AfterMetal, round2
<1>5. n \in 0..100 /\ c \in 0..n /\ (c = 0 <=> n = 0)
  BY DEF MaxEngraving
<1>6. e = IF n = 0 THEN 0 ELSE 20000 + n * 1500
  BY <1>5 DEF EngravingFee, round2, engravingBaseFee, engravingPerCharFee
<1>7. e \in Nat /\ e <= 170000 /\ e % 10 = 0
  BY <1>5, <1>6
<1>8. Total(s) = a + g + e
  <2> DEFINE t == a + g + e
  <2>1. PICK i \in Nat, j \in Nat, k \in Nat : a = 10 * i /\ g = 10 * j /\ e = 10 * k
    <3> HIDE DEF a, e
    <3>1. \E i \in Nat : a = 10 * i
      BY <1>4
    <3>2. \E k \in Nat : e = 10 * k
      BY <1>7
    <3>3. \E j \in Nat : g = 10 * j
      BY <1>3
    <3> QED
      BY <3>1, <3>2, <3>3
  <2>2. t = 10 * (i + j + k)
    BY <2>1
  <2>3. Total(s) = round2(t)
    BY DEF Total
  <2> HIDE DEF t
  <2> QED
    BY <2>2, <2>3 DEF round2, t
<1>9. ClientEstimate(s) = b * m + 10 * g + 10 * f
  BY DEF ClientEstimate, GemFee, engravingBaseFee, engravingPerCharFee
<1>10. b * m \in Nat /\ g \in Nat /\ g <= 450000
  BY <1>1, <1>2, <1>3
<1>f. f \in Nat /\ e = f + 1500 * (n - c)
  BY <1>5, <1>6
<1> HIDE DEF a, b, m, g, n, c, e, f
<1>11. 10 * Total(s) = 10 * a + 10 * g + 10 * e
  BY <1>4, <1>7, <1>8, <1>10
<1>12. /\ ClientEstimate(s) \in Nat
       /\ 10 * Total(s) = ClientEstimate(s) + 10 * engravingPerCharFee * (n - c)
  <2>1. n - c \in Int
    BY <1>5
  <2> QED
    BY <1>4, <1>9, <1>10, <1>11, <1>f, <2>1 DEF engravingPerCharFee
<1>13. Total(s) \in Nat /\ MinPrice <= Total(s) /\ Total(s) <= MaxPrice
  <2>1. a \in Nat /\ a >= 150000 /\ a <= 896000
    BY <1>4
  <2>2. e \in Nat /\ e <= 170000
    BY <1>7
  <2> QED
    BY <1>8, <1>10, <2>1, <2>2 DEF MinPrice, MaxPrice
<1> QED
  BY <1>12, <1>13 DEF n, c

-----------------------------------------------------------------------------
(* Types. *)

LEMMA OrderRowFacts ==
  ASSUME TypeOK, NEW o \in Orders
  PROVE  RowOf(o) \in OrderRow
BY DEF TypeOK, Orders, RowOf, OrderRow

LEMMA LearnKeeps ==
  ASSUME TypeOK, NEW r \in Requests, NEW rows \in SUBSET OrderRow, Learn(r, rows)
  PROVE  known' \in [Users -> SUBSET OrderRow]
BY DEF TypeOK, Learn

LEMMA TypesInit == Init => TypeOK
BY MaxCrashesAssumption
   DEF Init, TypeOK, Inserting, Reading, Answered, Decided

LEMMA TypesStep == TypeOK /\ [Next]_vars => TypeOK'
<1> SUFFICES ASSUME TypeOK, [Next]_vars PROVE TypeOK'
  OBVIOUS
<1> USE DEF TypeOK, GoTo, Inserting, Reading, Answered, Decided
<1>1. ASSUME NEW r \in Requests, Submit(r) PROVE TypeOK'
  <2> PICK u \in Users, b \in Bodies :
        /\ job' = [job EXCEPT ![r] = [kind |-> "submit", caller |-> u, body |-> b]]
        /\ GoTo(r, IF Valid(b) /\ Recognized(b) THEN "begin" ELSE "invalid")
        /\ floor' = [floor EXCEPT ![r] = known[u]]
    BY <1>1 DEF Submit
  <2>1. [kind |-> "submit", caller |-> u, body |-> b] \in Job
    BY DEF Job
  <2> QED
    BY <1>1, <2>1 DEF Submit, tables, reading
<1>2. ASSUME NEW r \in Requests, AskList(r) PROVE TypeOK'
  BY <1>2 DEF AskList, Job, tables, reading
<1>3. ASSUME NEW r \in Requests, AskOne(r) PROVE TypeOK'
  BY <1>3 DEF AskOne, Job, tables, reading
<1>4. ASSUME NEW r \in Requests, AskPending(r) PROVE TypeOK'
  <2> PICK u \in Users :
        /\ job' = [job EXCEPT ![r] = [kind |-> "pending", caller |-> u]]
        /\ floor' = [floor EXCEPT ![r] = known[u]]
        /\ GoTo(r, IF u \in Admins THEN "orders" ELSE "forbidden")
    BY <1>4 DEF AskPending
  <2>1. [kind |-> "pending", caller |-> u] \in Job
    BY DEF Job
  <2> QED
    BY <1>4, <2>1 DEF AskPending, tables, reading
<1>5. ASSUME NEW r \in Requests,
             \/ BeginTx(r) \/ InsertCustomization(r) \/ InsertOrder(r)
             \/ InsertOrderItem(r) \/ RowRefused(r) \/ StatementFails(r) \/ ReadFails(r)
      PROVE  TypeOK'
  BY <1>5 DEF BeginTx, InsertCustomization, InsertOrder, InsertOrderItem, RowRefused,
              StatementFails, ReadFails, Rollback, tables, reading, history
<1>6. ASSUME NEW r \in Requests, Commit(r) PROVE TypeOK'
  <2>1. known' \in [Users -> SUBSET OrderRow]
    BY <1>6, LearnKeeps DEF Commit, OrderRow, InitialStatus
  <2> QED
    BY <1>6, <2>1 DEF Commit, ApplyWrites, Rollback, InitialStatus, reading
<1>7. ASSUME NEW r \in Requests, CommitFails(r) PROVE TypeOK'
  BY <1>7 DEF CommitFails, ApplyWrites, Rollback, InitialStatus, tables, reading, history
<1>8. ASSUME NEW r \in Requests, NEW rows \in SUBSET OrderRow, Finish(r, rows)
      PROVE  /\ pc' \in [Requests -> {"idle"} \cup Inserting \cup Reading \cup Answered]
             /\ known' \in [Users -> SUBSET OrderRow]
  BY <1>8, LearnKeeps DEF Finish
<1>9. ASSUME NEW r \in Requests, SelectOrder(r) PROVE TypeOK'
  BY <1>9, OrderRowFacts DEF SelectOrder, tables, history
<1>10. ASSUME NEW r \in Requests, SelectOrders(r) PROVE TypeOK'
  BY <1>10, OrderRowFacts DEF SelectOrders, OrdersOf, tables, history
<1>11. ASSUME NEW r \in Requests, SelectItems(r) PROVE TypeOK'
  <2>1. IdsOf(seen[r]) \subseteq Requests /\ seen[r] \in SUBSET OrderRow
    BY DEF IdsOf, OrderRow
  <2> QED
    BY <1>8, <1>11, <2>1 DEF SelectItems, tables
<1>12. ASSUME NEW r \in Requests, SelectCustomizations(r) PROVE TypeOK'
  BY <1>8, <1>12 DEF SelectCustomizations, tables
<1>13. ASSUME NEW r \in Requests, ListPending(r) PROVE TypeOK'
  <2>1. PendingReview \subseteq Requests /\ {RowOf(o) : o \in PendingReview} \in SUBSET OrderRow
    BY OrderRowFacts DEF PendingReview, Orders
  <2>2. known' \in [Users -> SUBSET OrderRow]
    BY <1>13, <2>1, LearnKeeps DEF ListPending
  <2> QED
    BY <1>13, <2>1, <2>2 DEF ListPending, tables
<1>14. ASSUME NEW o \in Requests, Decide(o) PROVE TypeOK'
  BY <1>14 DEF Decide, reading, history
<1>15. CASE Crash
  BY <1>15 DEF Crash, tables, reading, history
<1>16. CASE UNCHANGED vars
  BY <1>16 DEF vars
<1> QED
  BY <1>1, <1>2, <1>3, <1>4, <1>5, <1>6, <1>7, <1>9, <1>10, <1>11, <1>12, <1>13, <1>14,
     <1>15, <1>16 DEF Next, Quiet

\* Every reachable state is well-formed.
THEOREM OrdersTypes == Spec => []TypeOK
BY TypesInit, TypesStep, PTL DEF Spec

-----------------------------------------------------------------------------
(* Submissions.  What carries OrdersComplete: a transaction has written    *)
(* what its statements say and no more, and a request whose rows are in    *)
(* the tables has been through COMMIT.                                     *)

\* The tables a transaction has inserted into when it is about to run l.
WritesAt(l) ==
  CASE l = "order"  -> {"customization"}
    [] l = "item"   -> {"customization", "order"}
    [] l = "commit" -> {"customization", "order", "item"}
    [] OTHER        -> {}

\* j is a submission that validation and pricing let through.
Accepted(j) == j \in Job /\ j.kind = "submit" /\ Valid(j.body) /\ Recognized(j.body)

TxnInv(r) ==
  /\ writes[r] = WritesAt(pc[r])
  /\ r \in Orders \cup items \cup customizations => pc[r] \in {"created", "error"}
  /\ pc[r] = "created" => r \in Orders
  /\ pc[r] \in Inserting \/ r \in Orders => Accepted(job[r])
  /\ pc[r] = "item" => OrderFits(job[r].body)

SubmitInv == TypeOK /\ OrdersComplete /\ \A r \in Requests : TxnInv(r)

\* A request that does not move keeps its part.
LEMMA TxnFrame ==
  ASSUME NEW x \in Requests, TxnInv(x),
         pc'[x] = pc[x], job'[x] = job[x], writes'[x] = writes[x],
         (x \in Orders)' <=> x \in Orders,
         x \in items' <=> x \in items,
         x \in customizations' <=> x \in customizations
  PROVE  TxnInv(x)'
BY DEF TxnInv

\* Neither does one that moves without touching the tables.
LEMMA MoveKeeps ==
  ASSUME SubmitInv, TypeOK', NEW r \in Requests, NEW l, NEW j,
         pc' = [pc EXCEPT ![r] = l], job' = [job EXCEPT ![r] = j],
         writes' = [writes EXCEPT ![r] = WritesAt(l)],
         UNCHANGED tables,
         pc[r] \notin {"created", "error"}, l # "created",
         l \in Inserting => Accepted(j),
         l = "item" => OrderFits(j.body)
  PROVE  SubmitInv'
<1> USE DEF SubmitInv
<1>1. Orders' = Orders /\ items' = items /\ customizations' = customizations
  BY DEF tables, Orders
<1>2. OrdersComplete'
  BY <1>1 DEF OrdersComplete
<1>3. ASSUME NEW x \in Requests, x # r PROVE TxnInv(x)'
  <2>1. pc'[x] = pc[x] /\ job'[x] = job[x] /\ writes'[x] = writes[x]
    BY <1>3 DEF TypeOK
  <2> QED
    BY <1>1, <2>1, TxnFrame
<1>4. TxnInv(r)'
  <2>1. pc'[r] = l /\ job'[r] = j /\ writes'[r] = WritesAt(l)
    BY DEF TypeOK
  <2>2. r \notin Orders \cup items \cup customizations
    BY DEF TxnInv
  <2> QED
    BY <1>1, <2>1, <2>2 DEF TxnInv
<1> QED
  BY <1>2, <1>3, <1>4

\* The case of a request that goes on to its next statement or to an answer.
LEMMA GoKeeps ==
  ASSUME SubmitInv, TypeOK', NEW r \in Requests, NEW l, GoTo(r, l),
         writes' = [writes EXCEPT ![r] = WritesAt(l)],
         UNCHANGED <<tables, job>>,
         pc[r] \in Inserting \cup Reading, l # "created",
         l \in Inserting => Accepted(job[r]),
         l = "item" => OrderFits(job[r].body)
  PROVE  SubmitInv'
<1>1. job' = [job EXCEPT ![r] = job[r]]
  BY DEF SubmitInv, TypeOK
<1>2. pc[r] \notin {"created", "error"}
  BY DEF Inserting, Reading
<1> QED
  BY <1>1, <1>2, MoveKeeps DEF GoTo

\* A commit that takes effect, answered or not.
LEMMA CommitKeeps ==
  ASSUME SubmitInv, TypeOK', NEW r \in Requests, pc[r] = "commit",
         ApplyWrites(r), Rollback(r), UNCHANGED job,
         NEW l \in {"created", "error"}, GoTo(r, l)
  PROVE  SubmitInv'
<1> USE DEF SubmitInv
<1>1. writes[r] = {"customization", "order", "item"} /\ Accepted(job[r])
  BY DEF TxnInv, WritesAt, Inserting
<1>2. /\ customizations' = customizations \cup {r} /\ items' = items \cup {r}
      /\ status' = [status EXCEPT ![r] = "pending_review"]
  BY <1>1 DEF ApplyWrites, InitialStatus
<1>3. Orders' = Orders \cup {r}
  BY <1>2 DEF Orders, TypeOK
<1>4. OrdersComplete'
  BY <1>2, <1>3 DEF OrdersComplete
<1>5. ASSUME NEW x \in Requests, x # r PROVE TxnInv(x)'
  <2>1. pc'[x] = pc[x] /\ job'[x] = job[x] /\ writes'[x] = writes[x]
    BY <1>5 DEF TypeOK, GoTo, Rollback
  <2> QED
    BY <1>2, <1>3, <1>5, <2>1, TxnFrame
<1>6. TxnInv(r)'
  <2>1. pc'[r] = l /\ job'[r] = job[r] /\ writes'[r] = {}
    BY DEF TypeOK, GoTo, Rollback
  <2>2. r \in Orders'
    BY <1>3
  <2> QED
    BY <1>1, <2>1, <2>2 DEF TxnInv, WritesAt, Inserting
<1> QED
  BY <1>4, <1>5, <1>6

LEMMA SubmitInit == Init => SubmitInv
<1> SUFFICES ASSUME Init PROVE SubmitInv
  OBVIOUS
<1>1. Orders = {} /\ OrdersComplete
  BY DEF Init, Orders, OrdersComplete
<1>2. \A r \in Requests : TxnInv(r)
  BY <1>1 DEF Init, TxnInv, WritesAt, Inserting
<1> QED
  BY <1>1, <1>2, TypesInit DEF SubmitInv

LEMMA SubmitStep == SubmitInv /\ [Next]_vars => SubmitInv'
<1> SUFFICES ASSUME SubmitInv, [Next]_vars PROVE SubmitInv'
  OBVIOUS
<1>t. TypeOK /\ TypeOK'
  BY TypesStep DEF SubmitInv
<1>w. \A r \in Requests : writes[r] = WritesAt(pc[r]) /\ writes \in [Requests -> SUBSET {"customization", "order", "item"}]
  BY DEF SubmitInv, TxnInv, TypeOK
<1>s. ASSUME NEW r \in Requests, pc[r] \in Inserting PROVE Accepted(job[r])
  BY <1>s DEF SubmitInv, TxnInv
<1>1. ASSUME NEW r \in Requests, Submit(r) PROVE SubmitInv'
  <2> PICK u \in Users, b \in Bodies :
        /\ job' = [job EXCEPT ![r] = [kind |-> "submit", caller |-> u, body |-> b]]
        /\ GoTo(r, IF Valid(b) /\ Recognized(b) THEN "begin" ELSE "invalid")
    BY <1>1 DEF Submit
  <2> DEFINE j == [kind |-> "submit", caller |-> u, body |-> b]
             l == IF Valid(b) /\ Recognized(b) THEN "begin" ELSE "invalid"
  <2>1. l \in Inserting => Accepted(j)
    BY DEF Accepted, Job, Inserting
  <2>2. pc[r] = "idle" /\ UNCHANGED tables /\ writes' = [writes EXCEPT ![r] = WritesAt(l)]
    BY <1>1, <1>w DEF Submit, WritesAt
  <2>3. l \notin {"created", "item"}
    OBVIOUS
  <2>4. pc' = [pc EXCEPT ![r] = l] /\ job' = [job EXCEPT ![r] = j]
    BY DEF GoTo
  <2> HIDE DEF l, j
  <2> QED
    BY <1>t, <2>1, <2>2, <2>3, <2>4, MoveKeeps
<1>2. ASSUME NEW r \in Requests, AskList(r) \/ AskOne(r) \/ AskPending(r) PROVE SubmitInv'
  <2>0. job' = [job EXCEPT ![r] = job'[r]]
    <3>1. CASE AskList(r)
      BY <1>t, <3>1 DEF AskList, TypeOK
    <3>2. CASE AskOne(r)
      BY <1>t, <3>2 DEF AskOne, TypeOK
    <3>3. CASE AskPending(r)
      BY <1>t, <3>3 DEF AskPending, TypeOK
    <3> QED
      BY <1>2, <3>1, <3>2, <3>3
  <2>1. PICK l \in {"orders", "forbidden"} : pc' = [pc EXCEPT ![r] = l]
    BY <1>2 DEF AskList, AskOne, AskPending, GoTo
  <2>2. pc[r] = "idle" /\ UNCHANGED tables /\ writes' = [writes EXCEPT ![r] = WritesAt(l)]
    BY <1>2, <1>w, <2>1 DEF AskList, AskOne, AskPending, WritesAt
  <2> QED
    BY <1>t, <2>0, <2>1, <2>2, MoveKeeps DEF Inserting
<1>3. ASSUME NEW r \in Requests,
             BeginTx(r) \/ InsertCustomization(r) \/ InsertOrder(r) \/ InsertOrderItem(r)
      PROVE  SubmitInv'
  <2>1. PICK l \in {"customization", "order", "item", "commit"} :
          /\ GoTo(r, l) /\ writes' = [writes EXCEPT ![r] = WritesAt(l)]
          /\ l = "item" => OrderFits(job[r].body)
    BY <1>3, <1>w DEF BeginTx, InsertCustomization, InsertOrder, InsertOrderItem, WritesAt, Fits
  <2>2. pc[r] \in Inserting /\ UNCHANGED <<tables, job>>
    BY <1>3 DEF BeginTx, InsertCustomization, InsertOrder, InsertOrderItem, Inserting
  <2> QED
    BY <1>s, <1>t, <2>1, <2>2, GoKeeps DEF Inserting
<1>4. ASSUME NEW r \in Requests, RowRefused(r) \/ StatementFails(r) PROVE SubmitInv'
  <2>1. PICK l \in {"refused", "error"} : GoTo(r, l) /\ writes' = [writes EXCEPT ![r] = WritesAt(l)]
    BY <1>4 DEF RowRefused, StatementFails, Rollback, WritesAt
  <2>2. pc[r] \in Inserting /\ UNCHANGED <<tables, job>>
    BY <1>4 DEF RowRefused, StatementFails, Inserting
  <2> QED
    BY <1>t, <2>1, <2>2, GoKeeps DEF Inserting
<1>5. ASSUME NEW r \in Requests, Commit(r) PROVE SubmitInv'
  BY <1>5, <1>t, CommitKeeps DEF Commit
<1>6. ASSUME NEW r \in Requests, CommitFails(r) PROVE SubmitInv'
  <2>1. CASE ApplyWrites(r)
    BY <1>6, <1>t, <2>1, CommitKeeps DEF CommitFails
  <2>2. CASE UNCHANGED tables
    <3>1. pc[r] \in Inserting /\ writes' = [writes EXCEPT ![r] = WritesAt("error")]
      BY <1>6 DEF CommitFails, Rollback, WritesAt, Inserting
    <3> QED
      BY <1>6, <1>t, <2>2, <3>1, GoKeeps DEF CommitFails, Inserting
  <2> QED
    BY <1>6, <2>1, <2>2 DEF CommitFails
<1>7. ASSUME NEW r \in Requests,
             \/ SelectOrder(r) \/ SelectOrders(r) \/ SelectItems(r)
             \/ SelectCustomizations(r) \/ ReadFails(r) \/ ListPending(r)
      PROVE  SubmitInv'
  <2>1. PICK l \in {"items", "details", "ok", "notfound", "error"} : GoTo(r, l)
    BY <1>7 DEF SelectOrder, SelectOrders, SelectItems, SelectCustomizations, ReadFails,
                ListPending, Finish
  <2>2. pc[r] \in Reading /\ UNCHANGED <<tables, job, writes>>
    BY <1>7 DEF SelectOrder, SelectOrders, SelectItems, SelectCustomizations, ReadFails,
                ListPending, Reading
  <2>3. writes' = [writes EXCEPT ![r] = WritesAt(l)]
    BY <1>w, <2>1, <2>2 DEF WritesAt, Reading
  <2> QED
    BY <1>t, <2>1, <2>2, <2>3, GoKeeps DEF Inserting
<1>8. ASSUME NEW o \in Requests, Decide(o) PROVE SubmitInv'
  <2>1. Orders' = Orders /\ UNCHANGED <<customizations, items, pc, job, writes>>
    BY <1>8, <1>t DEF Decide, Orders, TypeOK, Decided
  <2> QED
    BY <1>t, <2>1, TxnFrame DEF SubmitInv, OrdersComplete
<1>9. CASE Crash
  <2>1. Orders' = Orders /\ UNCHANGED <<customizations, items, job>>
    BY <1>9 DEF Crash, tables, Orders
  <2>2. ASSUME NEW r \in Requests PROVE TxnInv(r)'
    <3>1. pc'[r] = (IF pc[r] \in Inserting \cup Reading THEN "lost" ELSE pc[r]) /\ writes'[r] = {}
      BY <1>9 DEF Crash
    <3>2. TxnInv(r)
      BY DEF SubmitInv
    <3> QED
      BY <2>1, <3>1, <3>2 DEF TxnInv, WritesAt, Inserting, Reading
  <2> QED
    BY <1>t, <2>1, <2>2 DEF SubmitInv, OrdersComplete
<1>10. CASE UNCHANGED vars
  <2>1. Orders' = Orders /\ UNCHANGED <<customizations, items, pc, job, writes>>
    BY <1>10 DEF vars, Orders
  <2> QED
    BY <1>t, <2>1, TxnFrame DEF SubmitInv, OrdersComplete
<1> QED
  BY <1>1, <1>2, <1>3, <1>4, <1>5, <1>6, <1>7, <1>8, <1>9, <1>10 DEF Next, Quiet

LEMMA SubmitInductive == Spec => []SubmitInv
BY SubmitInit, SubmitStep, PTL DEF Spec

\* However a submission ends, no order is there without its customization
\* and its item, and none of these without the order (CreateCustomOrder).
THEOREM OrdersAreWhole == Spec => []OrdersComplete
<1>1. SubmitInv => OrdersComplete
  BY DEF SubmitInv
<1> QED
  BY <1>1, SubmitInductive, PTL

\* A 201 stands for an order that is there, a 400 and a refused row for
\* nothing at all.
THEOREM AnswersTrue == Spec => []AnswersAreTrue
<1>1. SubmitInv => AnswersAreTrue
  BY DEF SubmitInv, TxnInv, AnswersAreTrue
<1> QED
  BY <1>1, SubmitInductive, PTL

\* The admin's joins lose no order (ListPending).
THEOREM PendingListWhole == Spec => []PendingMissesNothing
<1>1. SubmitInv => PendingMissesNothing
  BY DEF SubmitInv, OrdersComplete, PendingMissesNothing, PendingReview, Orders
<1> QED
  BY <1>1, SubmitInductive, PTL

\* An accepted body has a price to which PriceFacts applies.
LEMMA AcceptedPrice ==
  ASSUME NEW j, Accepted(j)
  PROVE  /\ Total(j.body) \in Nat /\ MinPrice <= Total(j.body) /\ Total(j.body) <= MaxPrice
         /\ ClientEstimate(j.body) \in Nat
         /\ 10 * Total(j.body) = ClientEstimate(j.body)
                + 10 * engravingPerCharFee * (j.body.engraving - j.body.characters)
         /\ j.body.engraving \in Nat /\ j.body.characters \in Nat
         /\ j.body.characters <= j.body.engraving
         /\ j.body.quantity \in Int /\ j.body.quantity > 0
<1>1. j.body \in Bodies
  BY DEF Accepted, Job
<1>2. /\ j.body \in Body /\ j.body.engraving <= j.body.bytes
      /\ j.body.characters <= j.body.engraving /\ j.body.engraving <= 4 * j.body.characters
  BY <1>1, BodiesAssumption
<1>3. j.body.engraving \in 0..MaxEngraving /\ j.body.characters \in 0..j.body.engraving
  <2>1. j.body.engraving \in Nat /\ j.body.bytes \in Nat /\ j.body.characters \in Nat
    BY <1>2 DEF Body
  <2>2. j.body.bytes <= 100
    BY DEF Accepted, Valid, MaxEngraving
  <2> QED
    BY <1>2, <2>1, <2>2 DEF MaxEngraving
<1>4. j.body.quantity \in Int /\ j.body.quantity > 0
  BY <1>2 DEF Accepted, Valid, Body
<1> QED
  BY <1>2, <1>3, <1>4, PriceFacts DEF Accepted, MaxEngraving

\* An order costs what its client was shown and, a fee per byte where the
\* catalogue names one per character, exactly that fee more for every further
\* byte; SubmitCustomOrder warns of the difference in those cases only.
THEOREM EstimatesMissBytes == Spec => []EstimateOffByExtraBytes
<1>1. ASSUME SubmitInv, NEW o \in Orders
      PROVE  LET b == job[o].body
                 extra == b.engraving - b.characters
             IN  /\ 10 * Total(b) = ClientEstimate(b) + 10 * engravingPerCharFee * extra
                 /\ EstimateDiffers(b) <=> extra > 0
  <2> DEFINE b == job[o].body
             extra == b.engraving - b.characters
  <2>1. Accepted(job[o])
    BY <1>1 DEF SubmitInv, TxnInv, Orders
  <2>2. /\ Total(b) \in Nat /\ ClientEstimate(b) \in Nat /\ extra \in Nat
        /\ 10 * Total(b) = ClientEstimate(b) + 10 * engravingPerCharFee * extra
    BY <2>1, AcceptedPrice
  <2> HIDE DEF b, extra
  <2>3. Distance(ClientEstimate(b), 10 * Total(b)) = 15000 * extra
    BY <2>2 DEF Distance, engravingPerCharFee
  <2>4. EstimateDiffers(b) <=> extra > 0
    BY <2>2, <2>3 DEF EstimateDiffers
  <2> QED
    BY <2>2, <2>4 DEF b, extra
<1>2. SubmitInv => EstimateOffByExtraBytes
  BY <1>1 DEF EstimateOffByExtraBytes
<1> QED
  BY <1>2, SubmitInductive, PTL

\* Whatever the quantity, only total_amount can overflow: the customization
\* comes before it and is undone, the item after it and then fits.
THEOREM TotalsOverflowFirst == Spec => []OnlyTotalsOverflow
<1>1. ASSUME SubmitInv, NEW r \in Requests, pc[r] \in {"customization", "item"}
      PROVE  Fits(r)
  <2> DEFINE b == job[r].body
             t == Total(b)
             q == b.quantity
  <2>1. Accepted(job[r]) /\ (pc[r] = "item" => t * q <= MaxAmount)
    BY <1>1 DEF SubmitInv, TxnInv, Inserting, OrderFits
  <2>2. /\ t \in Nat /\ MinPrice <= t /\ t <= MaxPrice
        /\ q \in Int /\ q > 0
    BY <2>1, AcceptedPrice
  <2>3. MaxAmount \in Nat /\ MaxQuantity \in Nat /\ MinPrice \in Nat /\ MaxPrice \in Nat
    BY ColumnAssumption DEF MinPrice, MaxPrice
  <2> HIDE DEF t, q
  <2>4. t <= MaxAmount
    BY <2>2, <2>3, ColumnAssumption
  <2>5. CASE pc[r] = "customization"
    BY <2>4, <2>5 DEF Fits, CustomizationFits, t
  <2>6. CASE pc[r] = "item"
    <3>1. SUFFICES ASSUME q >= MaxQuantity + 1 PROVE FALSE
      BY <2>2, <2>3, <2>4, <2>6 DEF Fits, ItemFits, t, q
    <3>2. \A x, y, u, v \in Nat : x <= y /\ u <= v => x * u <= y * v
      OBVIOUS
    <3>3. MinPrice * (MaxQuantity + 1) <= t * q
      BY <2>2, <2>3, <3>1, <3>2
    <3>4. t * q \in Nat /\ MinPrice * (MaxQuantity + 1) \in Nat
      BY <2>2, <2>3
    <3> QED
      BY <2>1, <2>3, <2>6, <3>3, <3>4, ColumnAssumption
  <2> QED
    BY <1>1, <2>5, <2>6
<1>2. SubmitInv => OnlyTotalsOverflow
  BY <1>1 DEF OnlyTotalsOverflow
<1> QED
  BY <1>2, SubmitInductive, PTL

-----------------------------------------------------------------------------
(* Reading.  What carries the rest: whatever was read or told is on record *)
(* and only moves on from "pending_review", and a page's first SELECT      *)
(* found every row its user had been told of.                              *)

\* The row is what its order is or was.
Recorded(row) ==
  /\ row.order \in Orders
  /\ row.status = "pending_review" \/ row.status = status[row.order]

\* u was only told of recorded orders, and of his own unless he is an admin.
Told(u, rows) ==
  \A row \in rows : Recorded(row) /\ (u \notin Admins => Owner(row.order) = u)

KnownInv == \A u \in Users : Told(u, known[u])

\* What the first SELECT of r found.
Page(r) ==
  /\ \A row \in seen[r] : Recorded(row)
  /\ job[r].kind = "list" =>
        /\ \A row \in seen[r] : Owner(row.order) = job[r].caller
        /\ \A row \in floor[r] :
              Owner(row.order) = job[r].caller => StillIn(row, seen[r])
  /\ job[r].kind = "get" =>
        /\ IdsOf(seen[r]) = {job[r].target}
        /\ \A row \in floor[r] :
              row.order = job[r].target => StillIn(row, seen[r])

PageInv(r) ==
  /\ pc[r] # "idle" => job[r] \in Job /\ floor[r] \subseteq known[job[r].caller]
  /\ pc[r] \in {"idle", "orders"} => seen[r] = {} /\ lines[r] = {} /\ details[r] = {}
  /\ pc[r] = "orders" =>
        /\ job[r].kind \in {"list", "get", "pending"}
        /\ job[r].kind = "pending" => job[r].caller \in Admins
  /\ pc[r] \in {"items", "details"} => job[r].kind \in {"list", "get"} /\ details[r] = {}
  /\ pc[r] = "details" => lines[r] = IdsOf(seen[r])
  /\ pc[r] \in {"items", "details", "ok"} => Page(r)
  /\ pc[r] = "ok" => lines[r] = IdsOf(seen[r]) /\ details[r] = lines[r]
  /\ pc[r] = "notfound" => \A row \in floor[r] : row.order # job[r].target

ReadInv == KnownInv /\ \A r \in Requests : PageInv(r)

IInv == SubmitInv /\ ReadInv

\* No step deletes an order, gives it to somebody else, or takes its
\* decision back.
LEMMA OrdersStay ==
  ASSUME SubmitInv, TypeOK', [Next]_vars, NEW o \in Orders
  PROVE  o \in Orders' /\ job'[o] = job[o] /\ (status[o] \in {"pending_review", status'[o]})
<1>1. o \in Requests /\ pc[o] \in {"created", "error"} /\ status[o] # "absent"
  BY DEF SubmitInv, TxnInv, Orders
<1>2. TypeOK
  BY DEF SubmitInv
<1>3. job'[o] = job[o]
  <2>1. ASSUME NEW r \in Requests,
               Submit(r) \/ AskList(r) \/ AskOne(r) \/ AskPending(r)
        PROVE  job'[o] = job[o]
    <3>1. pc[r] = "idle" /\ \E j : job' = [job EXCEPT ![r] = j]
      <4>1. CASE Submit(r)
        BY <4>1, Zenon DEF Submit
      <4>2. CASE AskList(r)
        BY <4>2, Zenon DEF AskList
      <4>3. CASE AskOne(r)
        BY <4>3, Zenon DEF AskOne
      <4>4. CASE AskPending(r)
        BY <4>4, Zenon DEF AskPending
      <4> QED
        BY <2>1, <4>1, <4>2, <4>3, <4>4
    <3> QED
      BY <1>1, <1>2, <3>1 DEF TypeOK
  <2> QED
    BY <2>1 DEF Next, BeginTx, InsertCustomization, InsertOrder, InsertOrderItem, RowRefused,
                StatementFails, Commit, CommitFails, SelectOrder, SelectOrders, SelectItems,
                SelectCustomizations, ReadFails, ListPending, Decide, Crash, Quiet, vars
<1>4. o \in Orders' /\ status[o] \in {"pending_review", status'[o]}
  <2>1. ASSUME NEW r \in Requests, pc[r] = "commit", ApplyWrites(r)
        PROVE  status'[o] = status[o]
    BY <1>1, <1>2, <2>1 DEF ApplyWrites, TypeOK
  <2>2. ASSUME NEW r \in Requests, Decide(r)
        PROVE  status'[o] # "absent" /\ status[o] \in {"pending_review", status'[o]}
    BY <1>1, <1>2, <2>2 DEF Decide, Decided, TypeOK
  <2>3. CASE status' = status
    BY <1>1, <2>3 DEF Orders
  <2> QED
    BY <1>1, <2>1, <2>2, <2>3
       DEF Next, Submit, AskList, AskOne, AskPending, BeginTx, InsertCustomization, InsertOrder,
           InsertOrderItem, RowRefused, StatementFails, Commit, CommitFails, SelectOrder,
           SelectOrders, SelectItems, SelectCustomizations, ReadFails, ListPending, Crash, Quiet,
           vars, tables, Orders
<1> QED
  BY <1>3, <1>4

LEMMA RowsStay ==
  ASSUME SubmitInv, TypeOK', [Next]_vars, NEW row, Recorded(row)
  PROVE  Recorded(row)' /\ Owner(row.order)' = Owner(row.order)
BY OrdersStay DEF Recorded, Owner

\* What users know stays true, and grows by what they are told.
LEMMA KnownKeeps ==
  ASSUME SubmitInv, KnownInv, TypeOK', [Next]_vars, UNCHANGED known
  PROVE  KnownInv'
BY RowsStay DEF KnownInv, Told

LEMMA LearnTold ==
  ASSUME SubmitInv, KnownInv, TypeOK', [Next]_vars, NEW r \in Requests, NEW rows,
         \A row \in rows :
            /\ Recorded(row)'
            /\ job[r].caller \notin Admins => Owner(row.order)' = job[r].caller,
         Learn(r, rows)
  PROVE  KnownInv'
<1> SUFFICES ASSUME NEW u \in Users, NEW row \in known'[u]
             PROVE  Recorded(row)' /\ (u \notin Admins => Owner(row.order)' = u)
  BY DEF KnownInv, Told
<1>1. CASE row \in known[u]
  BY <1>1, RowsStay DEF KnownInv, Told
<1>2. CASE row \notin known[u]
  <2>1. u = job[r].caller /\ row \in rows
    BY <1>2 DEF Learn, SubmitInv, TypeOK
  <2> QED
    BY <2>1
<1> QED
  BY <1>1, <1>2

\* A finished page is recorded, and only shows to others than admins what
\* is their own.
LEMMA FinishTold ==
  ASSUME IInv, TypeOK', [Next]_vars, NEW r \in Requests,
         pc[r] \in {"items", "details"}, Finish(r, seen[r])
  PROVE  KnownInv'
<1> USE DEF IInv, ReadInv
<1>1. Page(r) /\ job[r].kind \in {"list", "get"}
  BY DEF PageInv
<1>2. CASE UNCHANGED known
  BY <1>2, KnownKeeps
<1>3. CASE ~UNCHANGED known
  <2>1. Learn(r, seen[r]) /\ (job[r].kind = "get" => \A o \in IdsOf(seen[r]) : MayView(job[r].caller, o))
    BY <1>3 DEF Finish
  <2>2. ASSUME NEW row \in seen[r]
        PROVE  /\ Recorded(row)'
               /\ job[r].caller \notin Admins => Owner(row.order)' = job[r].caller
    <3>1. Recorded(row) /\ row.order \in IdsOf(seen[r])
      BY <1>1 DEF Page, IdsOf
    <3>2. Recorded(row)' /\ Owner(row.order)' = Owner(row.order)
      BY <3>1, RowsStay
    <3>3. job[r].caller \notin Admins => Owner(row.order) = job[r].caller
      BY <1>1, <2>1, <3>1 DEF Page, MayView
    <3> QED
      BY <3>2, <3>3
  <2> QED
    BY <2>1, <2>2, LearnTold
<1> QED
  BY <1>2, <1>3

LEMMA KnownStep == IInv /\ [Next]_vars => KnownInv'
<1> SUFFICES ASSUME IInv, [Next]_vars PROVE KnownInv'
  OBVIOUS
<1> USE DEF IInv, ReadInv
<1>t. TypeOK /\ TypeOK'
  BY TypesStep DEF SubmitInv
<1>1. CASE UNCHANGED known
  BY <1>1, <1>t, KnownKeeps
<1>2. ASSUME NEW r \in Requests, Commit(r) PROVE KnownInv'
  <2> DEFINE row == [order |-> r, status |-> InitialStatus]
  <2>1. SubmitInv' /\ pc'[r] = "created" /\ job' = job
    BY <1>2, <1>t, SubmitStep DEF Commit, GoTo, TypeOK
  <2>2. r \in Orders'
    BY <2>1 DEF SubmitInv, TxnInv
  <2>3. Recorded(row)' /\ Owner(row.order)' = job[r].caller
    BY <2>1, <2>2 DEF Recorded, Owner, InitialStatus
  <2> QED
    BY <1>2, <1>t, <2>3, LearnTold DEF Commit
<1>3. ASSUME NEW r \in Requests, SelectItems(r) PROVE KnownInv'
  BY <1>1, <1>3, <1>t, FinishTold DEF SelectItems
<1>4. ASSUME NEW r \in Requests, SelectCustomizations(r) PROVE KnownInv'
  BY <1>4, <1>t, FinishTold DEF SelectCustomizations
<1>5. ASSUME NEW r \in Requests, ListPending(r) PROVE KnownInv'
  <2> DEFINE rows == {RowOf(o) : o \in PendingReview}
  <2>1. job[r].caller \in Admins /\ Learn(r, rows)
    BY <1>5 DEF ListPending, PageInv
  <2>2. ASSUME NEW row \in rows PROVE Recorded(row)'
    <3>1. Recorded(row)
      BY DEF Recorded, RowOf, PendingReview
    <3> QED
      BY <1>t, <3>1, RowsStay
  <2> HIDE DEF rows
  <2> QED
    BY <1>t, <2>1, <2>2, LearnTold
<1> QED
  BY <1>1, <1>2, <1>3, <1>4, <1>5
     DEF Next, Submit, AskList, AskOne, AskPending, BeginTx, InsertCustomization, InsertOrder,
         InsertOrderItem, RowRefused, StatementFails, CommitFails, SelectOrder, SelectOrders,
         ReadFails, Decide, Crash, Quiet, vars, history

LEMMA KnownGrows ==
  ASSUME TypeOK, [Next]_vars, NEW u \in Users
  PROVE  known[u] \subseteq known'[u]
<1>1. ASSUME NEW r \in Requests, NEW rows, Learn(r, rows) PROVE known[u] \subseteq known'[u]
  BY <1>1 DEF Learn, TypeOK
<1>2. CASE UNCHANGED known
  BY <1>2
<1> QED
  BY <1>1, <1>2
     DEF Next, Submit, AskList, AskOne, AskPending, BeginTx, InsertCustomization, InsertOrder,
         InsertOrderItem, RowRefused, StatementFails, Commit, CommitFails, SelectOrder,
         SelectOrders, SelectItems, SelectCustomizations, ReadFails, ListPending, Decide, Crash,
         Finish, Quiet, vars, history

\* What x has read and was told does not change.
Rests(x) ==
  /\ pc'[x] = pc[x] /\ job'[x] = job[x] /\ floor'[x] = floor[x]
  /\ seen'[x] = seen[x] /\ lines'[x] = lines[x] /\ details'[x] = details[x]

\* What the first SELECT of r found stays a page of what r's caller knew.
LEMMA PageStays ==
  ASSUME IInv, TypeOK', [Next]_vars, NEW x \in Requests,
         pc[x] # "idle", job'[x] = job[x], floor'[x] = floor[x], seen'[x] = seen[x], Page(x)
  PROVE  Page(x)'
<1> USE DEF IInv, ReadInv
<1>1. job[x] \in Job /\ job[x].caller \in Users /\ floor[x] \subseteq known[job[x].caller]
  BY DEF PageInv, Job
<1>2. ASSUME NEW row \in seen[x] \cup floor[x]
      PROVE  Recorded(row) /\ Recorded(row)' /\ Owner(row.order)' = Owner(row.order)
  <2>1. Recorded(row)
    BY <1>1 DEF Page, KnownInv, Told
  <2> QED
    BY <2>1, RowsStay
<1> QED
  BY <1>2 DEF Page

LEMMA PageFrame ==
  ASSUME IInv, TypeOK', [Next]_vars, NEW x \in Requests, Rests(x)
  PROVE  PageInv(x)'
<1> USE DEF IInv, ReadInv, Rests
<1>1. PageInv(x) /\ TypeOK
  BY DEF SubmitInv
<1>2. pc[x] # "idle" => job[x] \in Job /\ floor[x] \subseteq known'[job[x].caller]
  BY <1>1, KnownGrows DEF PageInv, Job
<1>3. pc[x] \in {"items", "details", "ok"} => Page(x)'
  BY <1>1, PageStays DEF PageInv
<1> QED
  BY <1>1, <1>2, <1>3 DEF PageInv

\* A step of r leaves the others as they are.
LEMMA OneMoves ==
  ASSUME IInv, TypeOK', [Next]_vars, NEW r \in Requests,
         \A x \in Requests \ {r} : Rests(x),
         PageInv(r)'
  PROVE  \A x \in Requests : PageInv(x)'
BY PageFrame

\* Nothing is asked of a request that is not reading.
LEMMA PageLeft ==
  ASSUME IInv, TypeOK', [Next]_vars, NEW r \in Requests,
         pc[r] # "idle", job'[r] = job[r], floor'[r] = floor[r],
         pc'[r] \notin Reading \cup {"idle", "ok", "notfound"}
  PROVE  PageInv(r)'
<1>1. job[r] \in Job /\ floor[r] \subseteq known[job[r].caller] /\ TypeOK
  BY DEF IInv, ReadInv, SubmitInv, PageInv
<1>2. floor[r] \subseteq known'[job[r].caller]
  BY <1>1, KnownGrows DEF Job
<1> QED
  BY <1>1, <1>2 DEF PageInv, Reading

\* A request arrives.
LEMMA PageOpened ==
  ASSUME IInv, TypeOK', [Next]_vars, NEW r \in Requests, NEW j \in Job, NEW l,
         pc[r] = "idle", GoTo(r, l), job' = [job EXCEPT ![r] = j],
         floor' = [floor EXCEPT ![r] = known[j.caller]], UNCHANGED <<reading, known>>,
         l \in {"begin", "invalid", "orders", "forbidden"},
         l = "orders" => /\ j.kind \in {"list", "get", "pending"}
                         /\ j.kind = "pending" => j.caller \in Admins
  PROVE  \A x \in Requests : PageInv(x)'
<1>1. TypeOK /\ PageInv(r)
  BY DEF IInv, ReadInv, SubmitInv
<1>2. \A x \in Requests \ {r} : Rests(x)
  BY <1>1 DEF Rests, GoTo, TypeOK, reading
<1>3. /\ pc'[r] = l /\ job'[r] = j /\ floor'[r] = known[j.caller] /\ known' = known
      /\ seen'[r] = {} /\ lines'[r] = {} /\ details'[r] = {}
  BY <1>1 DEF PageInv, GoTo, TypeOK, reading
<1>4. PageInv(r)'
  BY <1>3 DEF PageInv
<1> QED
  BY <1>2, <1>4, OneMoves

\* A row r's caller knew of is still answered for by its order.
LEMMA FloorStands ==
  ASSUME IInv, NEW r \in Requests, pc[r] # "idle", NEW row \in floor[r],
         NEW rows, RowOf(row.order) \in rows
  PROVE  StillIn(row, rows)
<1>1. Recorded(row)
  BY DEF IInv, ReadInv, PageInv, KnownInv, Told, Job
<1> QED
  BY <1>1 DEF StillIn, Recorded, RowOf

LEMMA SelectOrderPage ==
  ASSUME IInv, TypeOK', [Next]_vars, NEW r \in Requests, SelectOrder(r)
  PROVE  \A x \in Requests : PageInv(x)'
<1> USE DEF IInv, ReadInv
<1> DEFINE t == job[r].target
<1>1. TypeOK /\ PageInv(r) /\ pc[r] = "orders" /\ job[r].kind = "get"
  BY DEF SubmitInv, SelectOrder
<1>2. /\ seen'[r] = {RowOf(o) : o \in Orders \cap {t}}
      /\ pc'[r] = IF t \in Orders THEN "items" ELSE "notfound"
      /\ UNCHANGED <<customizations, status, items, job, lines, details, known, floor>>
  BY <1>1 DEF SelectOrder, GoTo, tables, history, TypeOK
<1>3. \A x \in Requests \ {r} : Rests(x)
  BY <1>1 DEF Rests, SelectOrder, GoTo, TypeOK, history
<1>4. \A row \in floor[r] : Recorded(row)
  BY <1>1 DEF PageInv, KnownInv, Told, Job
<1>5. CASE t \in Orders
  <2>1. seen'[r] = {RowOf(t)}
    BY <1>2, <1>5
  <2>2. IdsOf(seen'[r]) = {t}
    BY <2>1 DEF IdsOf, RowOf
  <2>3. \A row \in seen'[r] : Recorded(row)'
    BY <1>2, <1>5 DEF Recorded, RowOf, Orders
  <2>4. \A row \in floor[r] : row.order = t => StillIn(row, seen'[r])
    BY <1>1, <2>1, FloorStands
  <2>5. Page(r)'
    BY <1>1, <1>2, <2>1, <2>2, <2>3, <2>4 DEF Page
  <2>6. PageInv(r)'
    BY <1>1, <1>2, <1>5, <2>5 DEF PageInv
  <2> QED
    BY <1>3, <2>6, OneMoves
<1>6. CASE t \notin Orders
  <2>1. \A row \in floor[r] : row.order # t
    BY <1>4, <1>6 DEF Recorded
  <2>2. PageInv(r)'
    BY <1>1, <1>2, <1>6, <2>1 DEF PageInv
  <2> QED
    BY <1>3, <2>2, OneMoves
<1> QED
  BY <1>5, <1>6

LEMMA SelectOrdersPage ==
  ASSUME IInv, TypeOK', [Next]_vars, NEW r \in Requests, SelectOrders(r)
  PROVE  \A x \in Requests : PageInv(x)'
<1> USE DEF IInv, ReadInv
<1> DEFINE own == OrdersOf(job[r].caller)
<1>1. TypeOK /\ PageInv(r) /\ pc[r] = "orders" /\ job[r].kind = "list"
  BY DEF SubmitInv, SelectOrders
<1>2. /\ seen'[r] = {RowOf(o) : o \in own}
      /\ pc'[r] = IF own = {} THEN "ok" ELSE "items"
      /\ UNCHANGED <<customizations, status, items, job, lines, details, known, floor>>
  BY <1>1 DEF SelectOrders, GoTo, tables, history, TypeOK
<1>3. \A x \in Requests \ {r} : Rests(x)
  BY <1>1 DEF Rests, SelectOrders, GoTo, TypeOK, history
<1>4. \A row \in floor[r] : Recorded(row)
  BY <1>1 DEF PageInv, KnownInv, Told, Job
<1>5. \A row \in seen'[r] : Recorded(row)' /\ Owner(row.order)' = job[r].caller
  BY <1>2 DEF Recorded, RowOf, OrdersOf, Orders, Owner
<1>6. ASSUME NEW row \in floor[r], Owner(row.order) = job[r].caller
      PROVE  StillIn(row, seen'[r])
  <2>1. RowOf(row.order) \in seen'[r]
    BY <1>2, <1>4, <1>6 DEF OrdersOf, Recorded
  <2> QED
    BY <1>1, <2>1, FloorStands
<1>7. Page(r)'
  BY <1>1, <1>2, <1>5, <1>6 DEF Page, Owner
<1>8. own = {} => IdsOf(seen'[r]) = {}
  BY <1>2 DEF IdsOf
<1> HIDE DEF own
<1>9. PageInv(r)'
  BY <1>1, <1>2, <1>7, <1>8 DEF PageInv
<1> QED
  BY <1>3, <1>9, OneMoves

\* Every order on a page has its item and its customization, whatever has
\* been committed since its first SELECT.
LEMMA PageRows ==
  ASSUME IInv, NEW r \in Requests, pc[r] \in {"items", "details"}
  PROVE  /\ IdsOf(seen[r]) \cap items = IdsOf(seen[r])
         /\ pc[r] = "details" => lines[r] \cap customizations = IdsOf(seen[r])
<1>1. Page(r) /\ (pc[r] = "details" => lines[r] = IdsOf(seen[r]))
  BY DEF IInv, ReadInv, PageInv
<1>2. IdsOf(seen[r]) \subseteq Orders
  BY <1>1 DEF Page, Recorded, IdsOf
<1> QED
  BY <1>1, <1>2 DEF IInv, SubmitInv, OrdersComplete

\* What Finish answers with, once lines and details have the whole page.
LEMMA FinishPage ==
  ASSUME IInv, TypeOK', [Next]_vars, NEW r \in Requests,
         pc[r] \in {"items", "details"}, Finish(r, seen[r]),
         UNCHANGED <<job, floor, seen>>,
         lines'[r] = IdsOf(seen[r]), details'[r] = lines'[r]
  PROVE  PageInv(r)'
<1> USE DEF IInv, ReadInv
<1>1. PageInv(r) /\ Page(r) /\ TypeOK /\ job[r].kind \in {"list", "get"}
  BY DEF SubmitInv, PageInv
<1>2. Page(r)'
  BY <1>1, PageStays
<1>3. job[r] \in Job /\ floor[r] \subseteq known'[job[r].caller]
  BY <1>1, KnownGrows DEF PageInv, Job
<1>4. CASE job[r].kind = "get" /\ \E o \in IdsOf(seen[r]) : ~MayView(job[r].caller, o)
  <2>1. pc'[r] = "notfound"
    BY <1>1, <1>4 DEF Finish, GoTo, TypeOK
  <2>2. ~MayView(job[r].caller, job[r].target)
    BY <1>1, <1>4 DEF Page
  <2>3. \A row \in floor[r] : row.order # job[r].target
    BY <1>1, <1>3, <2>2 DEF PageInv, KnownInv, Told, MayView, Job
  <2> QED
    BY <1>2, <1>3, <2>1, <2>3 DEF PageInv
<1>5. CASE ~(job[r].kind = "get" /\ \E o \in IdsOf(seen[r]) : ~MayView(job[r].caller, o))
  <2>1. pc'[r] = "ok"
    BY <1>1, <1>5 DEF Finish, GoTo, TypeOK
  <2>2. IdsOf(seen'[r]) = IdsOf(seen[r])
    OBVIOUS
  <2> QED
    BY <1>2, <1>3, <2>1, <2>2 DEF PageInv
<1> QED
  BY <1>4, <1>5

LEMMA SelectItemsPage ==
  ASSUME IInv, TypeOK', [Next]_vars, NEW r \in Requests, SelectItems(r)
  PROVE  \A x \in Requests : PageInv(x)'
<1> USE DEF IInv, ReadInv
<1>1. TypeOK /\ PageInv(r) /\ Page(r) /\ pc[r] = "items"
  BY DEF SubmitInv, SelectItems, PageInv
<1>2. IdsOf(seen[r]) \cap items = IdsOf(seen[r])
  BY <1>1, PageRows
<1>3. lines'[r] = IdsOf(seen[r]) /\ details'[r] = {} /\ UNCHANGED <<job, floor, seen>>
  BY <1>1, <1>2 DEF SelectItems, PageInv, TypeOK
<1>4. \A x \in Requests \ {r} : Rests(x)
  BY <1>1 DEF Rests, SelectItems, Finish, GoTo, TypeOK
<1>5. CASE IdsOf(seen[r]) = {}
  <2>1. Finish(r, seen[r])
    BY <1>2, <1>5 DEF SelectItems
  <2>2. details'[r] = lines'[r]
    BY <1>3, <1>5
  <2>3. PageInv(r)'
    BY <1>1, <1>3, <2>1, <2>2, FinishPage
  <2> QED
    BY <1>4, <2>3, OneMoves
<1>6. CASE IdsOf(seen[r]) # {}
  <2>1. pc'[r] = "details" /\ UNCHANGED known
    BY <1>1, <1>2, <1>6 DEF SelectItems, GoTo, TypeOK
  <2>2. Page(r)'
    BY <1>1, <1>3, PageStays
  <2>3. IdsOf(seen'[r]) = IdsOf(seen[r])
    BY <1>3
  <2>4. PageInv(r)'
    BY <1>1, <1>3, <2>1, <2>2, <2>3 DEF PageInv
  <2> QED
    BY <1>4, <2>4, OneMoves
<1> QED
  BY <1>5, <1>6

LEMMA SelectCustomizationsPage ==
  ASSUME IInv, TypeOK', [Next]_vars, NEW r \in Requests, SelectCustomizations(r)
  PROVE  \A x \in Requests : PageInv(x)'
<1>1. TypeOK /\ pc[r] = "details" /\ lines[r] = IdsOf(seen[r])
  BY DEF IInv, ReadInv, SubmitInv, SelectCustomizations, PageInv
<1>2. lines'[r] = IdsOf(seen[r]) /\ details'[r] = lines'[r]
  BY <1>1, PageRows DEF SelectCustomizations, TypeOK
<1>3. PageInv(r)'
  BY <1>1, <1>2, FinishPage DEF SelectCustomizations
<1>4. \A x \in Requests \ {r} : Rests(x)
  BY <1>1 DEF Rests, SelectCustomizations, Finish, GoTo, TypeOK
<1> QED
  BY <1>3, <1>4, OneMoves

LEMMA ListPendingPage ==
  ASSUME IInv, TypeOK', [Next]_vars, NEW r \in Requests, ListPending(r)
  PROVE  \A x \in Requests : PageInv(x)'
<1>1. TypeOK /\ PageInv(r) /\ pc[r] = "orders" /\ job[r].kind = "pending"
  BY DEF IInv, ReadInv, SubmitInv, ListPending
<1>2. /\ seen'[r] = {RowOf(o) : o \in PendingReview} /\ pc'[r] = "ok"
      /\ lines'[r] = PendingReview /\ details'[r] = PendingReview
      /\ UNCHANGED <<customizations, status, items, job, floor>>
  BY <1>1 DEF ListPending, GoTo, tables, TypeOK
<1>3. \A x \in Requests \ {r} : Rests(x)
  BY <1>1 DEF Rests, ListPending, GoTo, TypeOK
<1>4. \A row \in seen'[r] : Recorded(row)'
  BY <1>2 DEF Recorded, RowOf, PendingReview, Orders
<1>5. IdsOf(seen'[r]) = PendingReview
  <2>1. \A o \in PendingReview : RowOf(o) \in seen'[r] /\ RowOf(o).order = o
    BY <1>2 DEF RowOf
  <2>2. \A row \in seen'[r] : row.order \in PendingReview
    BY <1>2 DEF RowOf
  <2> QED
    BY <2>1, <2>2 DEF IdsOf
<1>6. Page(r)'
  BY <1>1, <1>2, <1>4 DEF Page
<1>7. job[r] \in Job /\ floor[r] \subseteq known'[job[r].caller]
  BY <1>1, KnownGrows DEF PageInv, Job
<1>8. PageInv(r)'
  BY <1>2, <1>5, <1>6, <1>7 DEF PageInv
<1> QED
  BY <1>3, <1>8, OneMoves

LEMMA PageStep == IInv /\ [Next]_vars => \A x \in Requests : PageInv(x)'
<1> SUFFICES ASSUME IInv, [Next]_vars PROVE \A x \in Requests : PageInv(x)'
  OBVIOUS
<1>t. TypeOK /\ TypeOK'
  BY TypesStep DEF IInv, SubmitInv
<1>1. ASSUME NEW r \in Requests, Submit(r) PROVE \A x \in Requests : PageInv(x)'
  <2> PICK u \in Users, b \in Bodies :
        /\ job' = [job EXCEPT ![r] = [kind |-> "submit", caller |-> u, body |-> b]]
        /\ GoTo(r, IF Valid(b) /\ Recognized(b) THEN "begin" ELSE "invalid")
        /\ floor' = [floor EXCEPT ![r] = known[u]]
    BY <1>1 DEF Submit
  <2>1. [kind |-> "submit", caller |-> u, body |-> b] \in Job
    BY DEF Job
  <2> QED
    BY <1>1, <1>t, <2>1, PageOpened DEF Submit
<1>2. ASSUME NEW r \in Requests, AskList(r) PROVE \A x \in Requests : PageInv(x)'
  <2> PICK u \in Users :
        /\ job' = [job EXCEPT ![r] = [kind |-> "list", caller |-> u]]
        /\ floor' = [floor EXCEPT ![r] = known[u]]
    BY <1>2 DEF AskList
  <2>1. [kind |-> "list", caller |-> u] \in Job
    BY DEF Job
  <2> QED
    BY <1>2, <1>t, <2>1, PageOpened DEF AskList
<1>3. ASSUME NEW r \in Requests, AskOne(r) PROVE \A x \in Requests : PageInv(x)'
  <2> PICK u \in Users, o \in Requests :
        /\ job' = [job EXCEPT ![r] = [kind |-> "get", caller |-> u, target |-> o]]
        /\ floor' = [floor EXCEPT ![r] = known[u]]
    BY <1>3 DEF AskOne
  <2>1. [kind |-> "get", caller |-> u, target |-> o] \in Job
    BY DEF Job
  <2> QED
    BY <1>3, <1>t, <2>1, PageOpened DEF AskOne
<1>4. ASSUME NEW r \in Requests, AskPending(r) PROVE \A x \in Requests : PageInv(x)'
  <2> PICK u \in Users :
        /\ job' = [job EXCEPT ![r] = [kind |-> "pending", caller |-> u]]
        /\ floor' = [floor EXCEPT ![r] = known[u]]
        /\ GoTo(r, IF u \in Admins THEN "orders" ELSE "forbidden")
    BY <1>4 DEF AskPending
  <2>1. [kind |-> "pending", caller |-> u] \in Job
    BY DEF Job
  <2> QED
    BY <1>4, <1>t, <2>1, PageOpened DEF AskPending
<1>5. ASSUME NEW r \in Requests,
             \/ BeginTx(r) \/ InsertCustomization(r) \/ InsertOrder(r) \/ InsertOrderItem(r)
             \/ RowRefused(r) \/ StatementFails(r) \/ Commit(r) \/ CommitFails(r) \/ ReadFails(r)
      PROVE  \A x \in Requests : PageInv(x)'
  <2>1. PICK l : /\ l \notin Reading \cup {"idle", "ok", "notfound"} /\ GoTo(r, l)
                 /\ pc[r] # "idle" /\ UNCHANGED <<job, reading, floor>>
    BY <1>5 DEF BeginTx, InsertCustomization, InsertOrder, InsertOrderItem, RowRefused,
                StatementFails, Commit, CommitFails, ReadFails, Inserting, Reading, history
  <2>2. PageInv(r)'
    BY <1>t, <2>1, PageLeft DEF GoTo, TypeOK
  <2>3. \A x \in Requests \ {r} : Rests(x)
    BY <1>t, <2>1 DEF Rests, GoTo, TypeOK, reading
  <2> QED
    BY <1>t, <2>2, <2>3, OneMoves
<1>6. ASSUME NEW o \in Requests, Decide(o) PROVE \A x \in Requests : PageInv(x)'
  BY <1>6, <1>t, PageFrame DEF Decide, Rests, reading, history
<1>7. CASE Crash
  <2> SUFFICES ASSUME NEW x \in Requests PROVE PageInv(x)'
    OBVIOUS
  <2>1. CASE pc[x] \in Inserting \cup Reading
    BY <1>7, <1>t, <2>1, PageLeft DEF Crash, Inserting, Reading, history
  <2>2. CASE pc[x] \notin Inserting \cup Reading
    BY <1>7, <1>t, <2>2, PageFrame DEF Crash, Rests, reading, history
  <2> QED
    BY <2>1, <2>2
<1>8. CASE UNCHANGED vars
  BY <1>8, <1>t, PageFrame DEF vars, Rests
<1> QED
  BY <1>1, <1>2, <1>3, <1>4, <1>5, <1>6, <1>7, <1>8, <1>t, SelectOrderPage, SelectOrdersPage,
     SelectItemsPage, SelectCustomizationsPage, ListPendingPage
     DEF Next, Quiet

LEMMA ReadInit == Init => ReadInv
BY DEF Init, ReadInv, KnownInv, Told, PageInv

LEMMA IndInvariant == Spec => []IInv
<1>1. Init => IInv
  BY SubmitInit, ReadInit DEF IInv
<1>2. IInv /\ [Next]_vars => IInv'
  BY SubmitStep, KnownStep, PageStep DEF IInv, ReadInv
<1> QED
  BY <1>1, <1>2, PTL DEF Spec

\* However the three reads of a page fall between the commits of others, no
\* order on it lacks its item or its customization (fetchItemsWithDetails).
THEOREM PagesWhole == Spec => []PagesAreComplete
<1>1. IInv => PagesAreComplete
  BY DEF IInv, ReadInv, PageInv, PagesAreComplete
<1> QED
  BY <1>1, IndInvariant, PTL

\* Get and ListMine tell nobody but an admin of an order that is not his.
THEOREM OnlyOwners == Spec => []OwnersOnly
<1>1. IInv => OwnersOnly
  BY DEF IInv, ReadInv, KnownInv, Told, OwnersOnly
<1> QED
  BY <1>1, IndInvariant, PTL

\* Later answers agree with what a user was told before he asked.
THEOREM NothingIsForgotten == Spec => []NothingForgotten
<1>1. ASSUME IInv PROVE NothingForgotten
  <2> SUFFICES ASSUME NEW r \in Requests, NEW row \in floor[r]
               PROVE  /\ pc[r] = "ok" /\ job[r].kind = "list"
                            /\ Owner(row.order) = job[r].caller => StillIn(row, seen[r])
                      /\ pc[r] \in {"ok", "notfound"} /\ job[r].kind = "get"
                            /\ job[r].target = row.order => pc[r] = "ok" /\ StillIn(row, seen[r])
    BY DEF NothingForgotten
  <2>1. PageInv(r)
    BY <1>1 DEF IInv, ReadInv
  <2> QED
    BY <2>1 DEF PageInv, Page
<1> QED
  BY <1>1, IndInvariant, PTL

-----------------------------------------------------------------------------
(* The refinement.  An order is placed when its COMMIT takes effect, and   *)
(* an answer is about the instant of its first SELECT; every other step    *)
(* ends a request or is a stutter.                                         *)

\* Orders are whole, so the book is the status column.
LEMMA EntriesAreStatus == SubmitInv => entries = status
BY DEF SubmitInv, TypeOK, OrdersComplete, Orders, entries

LEMMA EntriesWillBeStatus == SubmitInv' => entries' = status'
BY DEF SubmitInv, TypeOK, OrdersComplete, Orders, entries

\* Every place in the handlers is a stage of OrderBook's.
LEMMA ProgressAt ==
  ASSUME NEW r \in Requests
  PROVE  /\ pc[r] = "idle" => progress[r] = "idle"
         /\ pc[r] \in Inserting \cup {"orders"} => progress[r] = "open"
         /\ pc[r] \in {"items", "details"} => progress[r] = "looked"
         /\ pc[r] \in {"created", "ok", "notfound"} => progress[r] = "told"
         /\ pc[r] \in {"invalid", "refused", "forbidden"} => progress[r] = "rejected"
         /\ pc[r] \in {"error", "lost"} => progress[r] = "error"
BY DEF progress, Inserting, Opened, PartlyRead, WasTold, TurnedAway

LEMMA ProgressThen ==
  ASSUME NEW r \in Requests
  PROVE  /\ pc'[r] = "idle" => progress'[r] = "idle"
         /\ pc'[r] \in Inserting \cup {"orders"} => progress'[r] = "open"
         /\ pc'[r] \in {"items", "details"} => progress'[r] = "looked"
         /\ pc'[r] \in {"created", "ok", "notfound"} => progress'[r] = "told"
         /\ pc'[r] \in {"invalid", "refused", "forbidden"} => progress'[r] = "rejected"
         /\ pc'[r] \in {"error", "lost"} => progress'[r] = "error"
BY DEF progress, Inserting, Opened, PartlyRead, WasTold, TurnedAway

LEMMA AnswersAt ==
  ASSUME NEW r \in Requests
  PROVE  /\ pc[r] = "created" => answers[r] = {[order |-> r, status |-> "pending_review"]}
         /\ pc[r] \in {"items", "details"} =>
               answers[r] = {row \in seen[r] : MayView(job[r].caller, row.order)}
         /\ pc[r] = "ok" =>
               answers[r] = {row \in seen[r] : row.order \in lines[r] \cap details[r]}
         /\ pc[r] \notin {"created", "items", "details", "ok"} => answers[r] = {}
BY DEF answers, InitialStatus, PartlyRead

LEMMA AnswersThen ==
  ASSUME NEW r \in Requests
  PROVE  /\ pc'[r] = "created" => answers'[r] = {[order |-> r, status |-> "pending_review"]}
         /\ pc'[r] \in {"items", "details"} =>
               answers'[r] = {row \in seen'[r] : MayView(job[r].caller, row.order)'}
         /\ pc'[r] = "ok" =>
               answers'[r] = {row \in seen'[r] : row.order \in lines'[r] \cap details'[r]}
         /\ pc'[r] \notin {"created", "items", "details", "ok"} => answers'[r] = {}
BY DEF answers, InitialStatus, PartlyRead

LEMMA AreFunctions ==
  /\ progress = [x \in Requests |-> progress[x]]
  /\ progress' = [x \in Requests |-> progress'[x]]
  /\ answers = [x \in Requests |-> answers[x]]
  /\ answers' = [x \in Requests |-> answers'[x]]
BY DEF progress, answers

\* A request that rests asks, and is shown, what it did before.
LEMMA RestIsStutter ==
  ASSUME IInv, TypeOK', [Next]_vars, NEW x \in Requests, Rests(x)
  PROVE  /\ questions'[x] = questions[x] /\ progress'[x] = progress[x]
         /\ answers'[x] = answers[x]
<1>1. questions'[x] = questions[x]
  BY DEF Rests, questions
<1>2. progress'[x] = progress[x]
  BY DEF Rests, progress
<1>3. CASE pc[x] \in {"items", "details"}
  <2>1. \A row \in seen[x] : Recorded(row)
    BY <1>3 DEF IInv, ReadInv, PageInv, Page
  <2>2. \A row \in seen[x] : Owner(row.order)' = Owner(row.order)
    BY <2>1, RowsStay DEF IInv
  <2>3. \A row \in seen[x] : MayView(job[x].caller, row.order)'
                               <=> MayView(job[x].caller, row.order)
    BY <2>2 DEF MayView, Rests
  <2> QED
    BY <1>1, <1>2, <1>3, <2>3, AnswersAt, AnswersThen DEF Rests
<1>4. CASE pc[x] \notin {"items", "details"}
  BY <1>1, <1>2, <1>4, AnswersAt, AnswersThen DEF Rests
<1> QED
  BY <1>3, <1>4

\* A step of r alone changes what OrderBook sees of r alone.
LEMMA OneChanges ==
  ASSUME IInv, TypeOK', [Next]_vars, NEW r \in Requests,
         \A x \in Requests \ {r} : Rests(x)
  PROVE  /\ questions' = [questions EXCEPT ![r] = questions'[r]]
         /\ progress' = [progress EXCEPT ![r] = progress'[r]]
         /\ answers' = [answers EXCEPT ![r] = answers'[r]]
<1>1. \A x \in Requests \ {r} :
         questions'[x] = questions[x] /\ progress'[x] = progress[x] /\ answers'[x] = answers[x]
  BY RestIsStutter
<1>2. /\ questions = [x \in Requests |-> questions[x]]
      /\ questions' = [x \in Requests |-> questions'[x]]
  BY DEF questions
<1> QED
  BY <1>1, <1>2, AreFunctions

\* The question of a request that has arrived.
LEMMA QuestionOf ==
  ASSUME IInv, NEW r \in Requests, pc[r] # "idle"
  PROVE  /\ job[r] \in Job /\ questions[r].kind = job[r].kind
         /\ questions[r].caller = job[r].caller
         /\ job[r].kind = "get" => questions[r].target = job[r].target
<1>1. job[r] \in Job /\ job[r] # NONE
  BY NoneAssumption DEF IInv, ReadInv, PageInv
<1> QED
  BY <1>1 DEF questions

\* An order belongs to whoever OrderBook says it does.
LEMMA OwnersAgree ==
  ASSUME IInv, NEW o \in Orders
  PROVE  o \in Requests /\ Book!Owner(o) = Owner(o)
<1>1. o \in Requests /\ pc[o] \in {"created", "error"}
  BY DEF IInv, SubmitInv, TxnInv, Orders
<1> QED
  BY <1>1, QuestionOf DEF Book!Owner, Owner

\* What OrderBook lets a request see, in the terms of the tables.
LEMMA VisibleRows ==
  ASSUME IInv, NEW r \in Requests, pc[r] # "idle", NEW S \in SUBSET Orders,
         \A o \in Orders :
            o \in S <=> \/ job[r].kind = "get" /\ o = job[r].target /\ MayView(job[r].caller, o)
                        \/ job[r].kind = "list" /\ Owner(o) = job[r].caller
                        \/ job[r].kind = "pending" /\ status[o] = "pending_review"
  PROVE  Book!Visible(questions[r]) = {RowOf(o) : o \in S}
<1> DEFINE q == questions[r]
           V == {x \in Requests :
                   /\ entries[x] # "absent"
                   /\ \/ q.kind = "get" /\ x = q.target /\ Book!MayView(q.caller, x)
                      \/ q.kind = "list" /\ Book!Owner(x) = q.caller
                      \/ q.kind = "pending" /\ entries[x] = "pending_review"}
<1>1. entries = status
  BY EntriesAreStatus DEF IInv
<1>2. /\ \A o \in Requests : o \in Orders <=> entries[o] # "absent"
      /\ Orders \subseteq Requests
  BY <1>1 DEF Orders
<1>3. \A o \in Orders : Book!Owner(o) = Owner(o) /\ (\A u : Book!MayView(u, o) <=> MayView(u, o))
  BY OwnersAgree DEF Book!MayView, MayView
<1>4. /\ q.kind = job[r].kind /\ q.caller = job[r].caller
      /\ job[r].kind = "get" => q.target = job[r].target
  BY QuestionOf
<1> HIDE DEF q
<1>5. V = S
  <2>1. ASSUME NEW o \in Requests PROVE o \in V <=> o \in S
    <3>1. CASE o \in Orders
      <4>1. /\ Book!Owner(o) = Owner(o) /\ (Book!MayView(q.caller, o) <=> MayView(q.caller, o))
            /\ entries[o] = status[o] /\ entries[o] # "absent"
        BY <1>1, <1>2, <1>3, <3>1
      <4> QED
        BY <1>4, <3>1, <4>1
    <3>2. CASE o \notin Orders
      BY <1>2, <3>2
    <3> QED
      BY <3>1, <3>2
  <2> QED
    BY <1>2, <2>1
<1>6. Book!Visible(q) = {[order |-> o, status |-> entries[o]] : o \in V}
  BY DEF Book!Visible
<1> HIDE DEF V
<1> QED
  BY <1>1, <1>5, <1>6 DEF RowOf, q

\* A step of OrderBook, or one it does not see.
BookStep == Book!Next \/ UNCHANGED <<entries, questions, progress, answers>>

LEMMA EntriesMove ==
  ASSUME IInv, [Next]_vars
  PROVE  entries = status /\ entries' = status'
BY EntriesAreStatus, EntriesWillBeStatus, SubmitStep DEF IInv

\* A request arrives, and is let in or turned away.
LEMMA AskSteps ==
  ASSUME IInv, TypeOK', [Next]_vars, NEW r \in Requests, NEW j \in Job, NEW l,
         pc[r] = "idle", GoTo(r, l), job' = [job EXCEPT ![r] = j],
         \A x \in Requests \ {r} : floor'[x] = floor[x], UNCHANGED <<tables, reading>>,
         \/ l \in {"begin", "invalid"} /\ j.kind = "submit"
         \/ l = "orders" /\ j.kind \in {"list", "get", "pending"}
               /\ (j.kind = "pending" => j.caller \in Admins)
         \/ l = "forbidden" /\ j.kind = "pending" /\ j.caller \notin Admins
  PROVE  BookStep
<1> DEFINE q == [kind |-> j.kind, caller |-> j.caller,
                 target |-> IF j.kind = "get" THEN j.target ELSE NONE]
<1>1. TypeOK
  BY DEF IInv, SubmitInv
<1>2. /\ pc'[r] = l /\ job'[r] = j /\ j # NONE
      /\ \A x \in Requests \ {r} : Rests(x)
  BY <1>1, NoneAssumption DEF GoTo, TypeOK, Rests, reading
<1>3. /\ questions' = [questions EXCEPT ![r] = questions'[r]]
      /\ progress' = [progress EXCEPT ![r] = progress'[r]]
      /\ answers' = [answers EXCEPT ![r] = answers'[r]]
  BY <1>2, OneChanges
<1>4. questions'[r] = q
  BY <1>2 DEF questions
<1>5. q \in Book!Query
  BY DEF Job, Book!Query
<1>6. progress[r] = "idle"
  BY ProgressAt
<1>7. /\ l \in {"begin", "orders"} => progress'[r] = "open"
      /\ l \in {"invalid", "forbidden"} => progress'[r] = "rejected"
  BY <1>2, ProgressThen DEF Inserting
<1>8. answers' = answers
  <2>1. answers[r] = {} /\ answers'[r] = {}
    BY <1>2, AnswersAt, AnswersThen
  <2> QED
    BY <1>3, <2>1 DEF answers, PartlyRead
<1>9. entries' = entries
  BY EntriesMove DEF tables
<1>10. Book!Ask(r)
  <2>1. Book!Forbidden(q) <=> j.kind = "pending" /\ j.caller \notin Admins
    BY DEF Book!Forbidden
  <2>2. q.kind = "submit" <=> j.kind = "submit"
    OBVIOUS
  <2> HIDE DEF q
  <2> QED
    BY <1>3, <1>4, <1>5, <1>6, <1>7, <1>8, <1>9, <2>1, <2>2 DEF Book!Ask
<1> QED
  BY <1>5, <1>10 DEF BookStep, Book!Next

\* Requests end without an answer and without a row, by a failure or a crash.
LEMMA FailSteps ==
  ASSUME IInv, TypeOK', [Next]_vars, NEW S \in SUBSET Requests,
         \A r \in S : pc[r] \in Inserting \cup Reading /\ pc'[r] \in {"error", "lost"},
         \A x \in Requests \ S : Rests(x), UNCHANGED <<tables, job>>
  PROVE  BookStep
<1>1. ASSUME NEW r \in S
      PROVE  /\ progress[r] \in {"open", "looked"} /\ progress'[r] = "error"
             /\ answers'[r] = {}
  BY ProgressAt, ProgressThen, AnswersThen DEF Reading
<1>2. \A x \in Requests \ S : progress'[x] = progress[x] /\ answers'[x] = answers[x]
  BY RestIsStutter
<1>3. questions' = questions /\ entries' = entries
  BY EntriesMove DEF questions, tables
<1>4. Book!Fail(S)
  BY <1>1, <1>2, <1>3, AreFunctions DEF Book!Fail
<1> QED
  BY <1>4 DEF BookStep, Book!Next

\* A transaction goes on, or is refused a row; nothing of it is visible.
LEMMA InsertSteps ==
  ASSUME IInv, TypeOK', [Next]_vars, NEW r \in Requests,
         pc[r] \in Inserting, pc'[r] \in Inserting \cup {"refused"},
         \A x \in Requests \ {r} : Rests(x), UNCHANGED <<tables, job>>
  PROVE  BookStep
<1>1. /\ progress' = [progress EXCEPT ![r] = progress'[r]]
      /\ answers' = [answers EXCEPT ![r] = answers'[r]]
  BY OneChanges
<1>2. answers' = answers
  <2>1. answers[r] = {} /\ answers'[r] = {}
    BY AnswersAt, AnswersThen DEF Inserting
  <2> QED
    BY <1>1, <2>1 DEF answers
<1>3. questions' = questions /\ entries' = entries
  BY EntriesMove DEF questions, tables
<1>4. progress[r] = "open"
  BY ProgressAt
<1>5. CASE pc'[r] \in Inserting
  <2>1. progress'[r] = "open"
    BY <1>5, ProgressThen
  <2>2. progress' = progress
    BY <1>1, <1>4, <2>1, AreFunctions
  <2> QED
    BY <1>2, <1>3, <2>2 DEF BookStep
<1>6. CASE pc'[r] = "refused"
  <2>1. progress'[r] = "rejected"
    BY <1>6, ProgressThen
  <2>2. questions[r].kind = "submit"
    BY QuestionOf DEF IInv, SubmitInv, TxnInv, Accepted, Inserting
  <2>3. Book!Reject(r)
    BY <1>1, <1>2, <1>3, <1>4, <2>1, <2>2 DEF Book!Reject
  <2> QED
    BY <2>3 DEF BookStep, Book!Next
<1> QED
  BY <1>5, <1>6

\* COMMIT takes effect, reported as it is or as failed.
LEMMA PlaceSteps ==
  ASSUME IInv, TypeOK', [Next]_vars, NEW r \in Requests,
         pc[r] = "commit", ApplyWrites(r), pc'[r] \in {"created", "error"},
         \A x \in Requests \ {r} : Rests(x), UNCHANGED job
  PROVE  BookStep
<1>1. /\ progress' = [progress EXCEPT ![r] = progress'[r]]
      /\ answers' = [answers EXCEPT ![r] = answers'[r]]
  BY OneChanges
<1>2. writes[r] = {"customization", "order", "item"} /\ Accepted(job[r])
  BY DEF IInv, SubmitInv, TxnInv, WritesAt, Inserting
<1>3. entries' = [entries EXCEPT ![r] = "pending_review"]
  BY <1>2, EntriesMove DEF ApplyWrites, InitialStatus
<1>4. entries[r] = "absent"
  BY EntriesMove DEF IInv, SubmitInv, TxnInv, Orders
<1>5. progress[r] = "open"
  BY ProgressAt DEF Inserting
<1>6. questions[r].kind = "submit" /\ questions' = questions
  BY <1>2, QuestionOf DEF Accepted, questions
<1>7. CASE pc'[r] = "created"
  <2>1. /\ progress'[r] = "told"
        /\ answers'[r] = {[order |-> r, status |-> "pending_review"]}
    BY <1>7, ProgressThen, AnswersThen
  <2>2. Book!Place(r)
    BY <1>1, <1>3, <1>4, <1>5, <1>6, <2>1 DEF Book!Place
  <2> QED
    BY <2>2 DEF BookStep, Book!Next
<1>8. CASE pc'[r] = "error"
  <2>1. progress'[r] = "error" /\ answers'[r] = {} /\ answers[r] = {}
    BY <1>8, ProgressThen, AnswersAt, AnswersThen
  <2>2. answers' = answers
    BY <1>1, <2>1 DEF answers, PartlyRead
  <2>3. Book!Place(r)
    BY <1>1, <1>3, <1>4, <1>5, <1>6, <2>1, <2>2 DEF Book!Place
  <2> QED
    BY <2>3 DEF BookStep, Book!Next
<1> QED
  BY <1>7, <1>8

\* An order is decided, whoever is reading.
LEMMA DecideSteps ==
  ASSUME IInv, TypeOK', [Next]_vars, NEW o \in Requests, Decide(o)
  PROVE  BookStep
<1>1. \A x \in Requests : Rests(x)
  BY DEF Decide, Rests, reading, history
<1>2. questions' = questions /\ progress' = progress
  BY DEF Decide, questions, progress
<1>3. answers' = answers
  <2>1. \A x \in Requests : answers'[x] = answers[x]
    BY <1>1, RestIsStutter
  <2> QED
    BY <2>1, AreFunctions
<1>4. Book!Decide(o)
  BY <1>2, <1>3, EntriesMove DEF Decide, Book!Decide, Decided, Book!Decided
<1> QED
  BY <1>4 DEF BookStep, Book!Next

\* The first SELECT: the instant r's answer is about.
LEMMA LookSteps ==
  ASSUME IInv, TypeOK', [Next]_vars, NEW r \in Requests,
         pc[r] = "orders", pc'[r] \in {"items", "ok", "notfound"},
         NEW S \in SUBSET Orders,
         \A o \in Orders :
            o \in S <=> \/ job[r].kind = "get" /\ o = job[r].target /\ MayView(job[r].caller, o)
                        \/ job[r].kind = "list" /\ Owner(o) = job[r].caller
                        \/ job[r].kind = "pending" /\ status[o] = "pending_review",
         answers'[r] = {RowOf(o) : o \in S},
         \A x \in Requests \ {r} : Rests(x), UNCHANGED <<tables, job>>
  PROVE  BookStep
<1>1. /\ progress' = [progress EXCEPT ![r] = progress'[r]]
      /\ answers' = [answers EXCEPT ![r] = answers'[r]]
  BY OneChanges
<1>2. questions' = questions /\ entries' = entries
  BY EntriesMove DEF questions, tables
<1>3. progress[r] = "open" /\ progress'[r] \in {"looked", "told"}
  BY ProgressAt, ProgressThen
<1>4. questions[r].kind # "submit"
  BY QuestionOf DEF IInv, ReadInv, PageInv
<1>5. answers'[r] = Book!Visible(questions[r])
  BY VisibleRows
<1>6. Book!Look(r)
  BY <1>1, <1>2, <1>3, <1>4, <1>5 DEF Book!Look
<1> QED
  BY <1>6 DEF BookStep, Book!Next

LEMMA SelectOrderLooks ==
  ASSUME IInv, TypeOK', [Next]_vars, NEW r \in Requests, SelectOrder(r)
  PROVE  BookStep
<1> DEFINE t == job[r].target
           S == {o \in Orders : o = t /\ MayView(job[r].caller, o)}
<1>1. TypeOK /\ pc[r] = "orders" /\ job[r].kind = "get"
  BY DEF IInv, SubmitInv, SelectOrder
<1>2. /\ seen'[r] = {RowOf(o) : o \in Orders \cap {t}}
      /\ pc'[r] = IF t \in Orders THEN "items" ELSE "notfound"
      /\ UNCHANGED <<tables, job>>
      /\ \A x \in Requests \ {r} : Rests(x)
  BY <1>1 DEF SelectOrder, GoTo, TypeOK, Rests, history
<1>3. \A o : MayView(job[r].caller, o)' <=> MayView(job[r].caller, o)
  BY <1>2 DEF MayView, Owner
<1>4. answers'[r] = {RowOf(o) : o \in S}
  <2>1. CASE t \in Orders
    <3>1. seen'[r] = {RowOf(t)} /\ RowOf(t).order = t
      BY <1>2, <2>1 DEF RowOf
    <3>2. answers'[r] = {row \in seen'[r] : MayView(job[r].caller, row.order)}
      BY <1>2, <1>3, <2>1, AnswersThen
    <3>3. S = IF MayView(job[r].caller, t) THEN {t} ELSE {}
      BY <2>1
    <3> HIDE DEF S, t
    <3> QED
      BY <3>1, <3>2, <3>3
  <2>2. CASE t \notin Orders
    <3>1. answers'[r] = {} /\ S = {}
      BY <1>2, <2>2, AnswersThen
    <3> HIDE DEF S
    <3> QED
      BY <3>1
  <2> QED
    BY <2>1, <2>2
<1>5. \A o \in Orders : o \in S <=> o = t /\ MayView(job[r].caller, o)
  OBVIOUS
<1>6. S \in SUBSET Orders /\ pc'[r] \in {"items", "ok", "notfound"}
  BY <1>2
<1> HIDE DEF S
<1> QED
  BY <1>1, <1>2, <1>4, <1>5, <1>6, LookSteps

LEMMA SelectOrdersLooks ==
  ASSUME IInv, TypeOK', [Next]_vars, NEW r \in Requests, SelectOrders(r)
  PROVE  BookStep
<1> DEFINE own == OrdersOf(job[r].caller)
<1>1. TypeOK /\ pc[r] = "orders" /\ job[r].kind = "list"
  BY DEF IInv, SubmitInv, SelectOrders
<1>2. /\ seen'[r] = {RowOf(o) : o \in own}
      /\ pc'[r] = IF own = {} THEN "ok" ELSE "items"
      /\ UNCHANGED <<tables, job>>
      /\ \A x \in Requests \ {r} : Rests(x)
  BY <1>1 DEF SelectOrders, GoTo, TypeOK, Rests, history
<1>3. \A o \in own : MayView(job[r].caller, o)'
  BY <1>2 DEF MayView, Owner, OrdersOf
<1>4. \A row \in seen'[r] : row.order \in own
  BY <1>2 DEF RowOf
<1>5. \A o \in Orders : o \in own <=> Owner(o) = job[r].caller
  BY DEF OrdersOf
<1>6. own \in SUBSET Orders
  BY DEF OrdersOf
<1> HIDE DEF own
<1>7. answers'[r] = {RowOf(o) : o \in own}
  <2>1. CASE own = {}
    BY <1>2, <2>1, AnswersThen
  <2>2. CASE own # {}
    <3>1. \A row \in seen'[r] : MayView(job[r].caller, row.order)'
      BY <1>3, <1>4
    <3> QED
      BY <1>2, <2>2, <3>1, AnswersThen
  <2> QED
    BY <2>1, <2>2
<1> QED
  BY <1>1, <1>2, <1>5, <1>6, <1>7, LookSteps

LEMMA ListPendingLooks ==
  ASSUME IInv, TypeOK', [Next]_vars, NEW r \in Requests, ListPending(r)
  PROVE  BookStep
<1>1. TypeOK /\ pc[r] = "orders" /\ job[r].kind = "pending"
  BY DEF IInv, SubmitInv, ListPending
<1>2. /\ seen'[r] = {RowOf(o) : o \in PendingReview} /\ pc'[r] = "ok"
      /\ lines'[r] = PendingReview /\ details'[r] = PendingReview
      /\ UNCHANGED <<tables, job>>
      /\ \A x \in Requests \ {r} : Rests(x)
  BY <1>1 DEF ListPending, GoTo, TypeOK, Rests
<1>3. \A o \in Orders : o \in PendingReview <=> status[o] = "pending_review"
  BY DEF PendingReview, IInv, SubmitInv, OrdersComplete
<1>4. PendingReview \in SUBSET Orders
  BY DEF PendingReview
<1>5. \A row \in seen'[r] : row.order \in PendingReview
  BY <1>2 DEF RowOf
<1>6. answers'[r] = {RowOf(o) : o \in PendingReview}
  BY <1>2, <1>5, AnswersThen
<1> QED
  BY <1>1, <1>2, <1>3, <1>4, <1>6, LookSteps

\* GetByID or ListByUser is done: r is told what it looked at, although the
\* owner of one order is checked only now, and nothing if it is not his.
LEMMA FinishTells ==
  ASSUME IInv, TypeOK', [Next]_vars, NEW r \in Requests,
         pc[r] \in {"items", "details"}, Finish(r, seen[r]), UNCHANGED <<tables, job, seen>>,
         lines'[r] = IdsOf(seen[r]), details'[r] = lines'[r],
         \A x \in Requests \ {r} : Rests(x)
  PROVE  BookStep
<1>1. TypeOK /\ Page(r) /\ job[r].kind \in {"list", "get"}
  BY DEF IInv, SubmitInv, ReadInv, PageInv
<1>2. /\ progress' = [progress EXCEPT ![r] = progress'[r]]
      /\ answers' = [answers EXCEPT ![r] = answers'[r]]
  BY OneChanges
<1>3. questions' = questions /\ entries' = entries
  BY EntriesMove DEF questions, tables
<1>4. progress[r] = "looked" /\ answers[r] = {row \in seen[r] : MayView(job[r].caller, row.order)}
  BY ProgressAt, AnswersAt
<1>5. progress'[r] = "told" /\ answers'[r] = answers[r]
  <2>1. CASE job[r].kind = "get" /\ \E o \in IdsOf(seen[r]) : ~MayView(job[r].caller, o)
    <3>1. pc'[r] = "notfound"
      BY <1>1, <2>1 DEF Finish, GoTo, TypeOK
    <3>2. \A row \in seen[r] : ~MayView(job[r].caller, row.order)
      BY <1>1, <2>1 DEF Page, IdsOf
    <3> QED
      BY <1>4, <3>1, <3>2, ProgressThen, AnswersThen
  <2>2. CASE ~(job[r].kind = "get" /\ \E o \in IdsOf(seen[r]) : ~MayView(job[r].caller, o))
    <3>1. pc'[r] = "ok"
      BY <1>1, <2>2 DEF Finish, GoTo, TypeOK
    <3>2. \A row \in seen[r] : row.order \in IdsOf(seen[r])
      BY DEF IdsOf
    <3>3. \A row \in seen[r] : MayView(job[r].caller, row.order)
      BY <1>1, <2>2, <3>2 DEF Page, MayView
    <3>4. answers'[r] = {row \in seen[r] : row.order \in IdsOf(seen[r])}
      BY <3>1, AnswersThen
    <3> QED
      BY <1>4, <3>1, <3>2, <3>3, <3>4, ProgressThen
  <2> QED
    BY <2>1, <2>2
<1>6. answers' = answers
  BY <1>2, <1>5 DEF answers
<1>7. Book!Tell(r)
  BY <1>2, <1>3, <1>4, <1>5, <1>6 DEF Book!Tell
<1> QED
  BY <1>7 DEF BookStep, Book!Next

LEMMA SelectItemsTells ==
  ASSUME IInv, TypeOK', [Next]_vars, NEW r \in Requests, SelectItems(r)
  PROVE  BookStep
<1>1. TypeOK /\ PageInv(r) /\ pc[r] = "items"
  BY DEF IInv, ReadInv, SubmitInv, SelectItems
<1>2. IdsOf(seen[r]) \cap items = IdsOf(seen[r])
  BY <1>1, PageRows
<1>3. /\ lines'[r] = IdsOf(seen[r]) /\ details'[r] = {} /\ UNCHANGED <<tables, job, seen>>
      /\ \A x \in Requests \ {r} : Rests(x)
  BY <1>1, <1>2 DEF SelectItems, Finish, GoTo, PageInv, TypeOK, Rests
<1>4. CASE IdsOf(seen[r]) = {}
  <2>1. Finish(r, seen[r]) /\ details'[r] = lines'[r]
    BY <1>2, <1>3, <1>4 DEF SelectItems
  <2> QED
    BY <1>1, <1>3, <2>1, FinishTells
<1>5. CASE IdsOf(seen[r]) # {}
  <2>1. pc'[r] = "details"
    BY <1>1, <1>2, <1>5 DEF SelectItems, GoTo, TypeOK
  <2>2. progress'[r] = progress[r]
    BY <1>1, <2>1, ProgressAt, ProgressThen
  <2>3. answers'[r] = answers[r]
    <3>1. answers[r] = {row \in seen[r] : MayView(job[r].caller, row.order)}
      BY <1>1, AnswersAt
    <3>2. answers'[r] = {row \in seen'[r] : MayView(job[r].caller, row.order)'}
      BY <2>1, AnswersThen
    <3>3. seen'[r] = seen[r]
      BY <1>3
    <3>4. \A row \in seen[r] : MayView(job[r].caller, row.order)' <=> MayView(job[r].caller, row.order)
      BY <1>3 DEF MayView, Owner
    <3> QED
      BY <3>1, <3>2, <3>3, <3>4
  <2>4. progress' = progress /\ answers' = answers
    <3>1. progress' = [progress EXCEPT ![r] = progress[r]]
      BY <1>3, <2>2, OneChanges
    <3>2. answers' = [answers EXCEPT ![r] = answers[r]]
      BY <1>3, <2>3, OneChanges
    <3> QED
      BY <3>1, <3>2, AreFunctions
  <2>5. questions' = questions /\ entries' = entries
    BY <1>3, EntriesMove DEF questions, tables
  <2> QED
    BY <2>4, <2>5 DEF BookStep
<1> QED
  BY <1>4, <1>5

LEMMA SelectCustomizationsTells ==
  ASSUME IInv, TypeOK', [Next]_vars, NEW r \in Requests, SelectCustomizations(r)
  PROVE  BookStep
<1>1. TypeOK /\ pc[r] = "details" /\ lines[r] = IdsOf(seen[r])
  BY DEF IInv, ReadInv, SubmitInv, SelectCustomizations, PageInv
<1>2. lines'[r] = IdsOf(seen[r]) /\ details'[r] = lines'[r]
  BY <1>1, PageRows DEF SelectCustomizations, TypeOK
<1>3. \A x \in Requests \ {r} : Rests(x)
  BY <1>1 DEF Rests, SelectCustomizations, Finish, GoTo, TypeOK
<1> QED
  BY <1>1, <1>2, <1>3, FinishTells DEF SelectCustomizations

LEMMA BookSimulated == IInv /\ [Next]_vars => BookStep
<1> SUFFICES ASSUME IInv, [Next]_vars PROVE BookStep
  OBVIOUS
<1>t. TypeOK /\ TypeOK'
  BY TypesStep DEF IInv, SubmitInv
<1>1. ASSUME NEW r \in Requests, Submit(r) PROVE BookStep
  <2>1. PICK u \in Users, b \in Bodies :
          /\ job' = [job EXCEPT ![r] = [kind |-> "submit", caller |-> u, body |-> b]]
          /\ GoTo(r, IF Valid(b) /\ Recognized(b) THEN "begin" ELSE "invalid")
          /\ floor' = [floor EXCEPT ![r] = known[u]]
    BY <1>1 DEF Submit
  <2> DEFINE j == [kind |-> "submit", caller |-> u, body |-> b]
             l == IF Valid(b) /\ Recognized(b) THEN "begin" ELSE "invalid"
  <2>2. j \in Job /\ j.kind = "submit" /\ l \in {"begin", "invalid"}
    BY DEF Job
  <2>3. \A x \in Requests \ {r} : floor'[x] = floor[x]
    BY <1>t, <2>1 DEF TypeOK
  <2>4. GoTo(r, l) /\ job' = [job EXCEPT ![r] = j]
    BY <2>1
  <2> HIDE DEF j, l
  <2> QED
    BY <1>1, <1>t, <2>2, <2>3, <2>4, AskSteps DEF Submit
<1>2. ASSUME NEW r \in Requests, AskList(r) PROVE BookStep
  <2>1. PICK u \in Users :
          /\ job' = [job EXCEPT ![r] = [kind |-> "list", caller |-> u]]
          /\ floor' = [floor EXCEPT ![r] = known[u]]
    BY <1>2 DEF AskList
  <2> DEFINE j == [kind |-> "list", caller |-> u]
  <2>2. j \in Job /\ j.kind = "list"
    BY DEF Job
  <2>3. \A x \in Requests \ {r} : floor'[x] = floor[x]
    BY <1>t, <2>1 DEF TypeOK
  <2>4. job' = [job EXCEPT ![r] = j]
    BY <2>1
  <2> HIDE DEF j
  <2> QED
    BY <1>2, <1>t, <2>2, <2>3, <2>4, AskSteps DEF AskList
<1>3. ASSUME NEW r \in Requests, AskOne(r) PROVE BookStep
  <2>1. PICK u \in Users, o \in Requests :
          /\ job' = [job EXCEPT ![r] = [kind |-> "get", caller |-> u, target |-> o]]
          /\ floor' = [floor EXCEPT ![r] = known[u]]
    BY <1>3 DEF AskOne
  <2> DEFINE j == [kind |-> "get", caller |-> u, target |-> o]
  <2>2. j \in Job /\ j.kind = "get"
    BY DEF Job
  <2>3. \A x \in Requests \ {r} : floor'[x] = floor[x]
    BY <1>t, <2>1 DEF TypeOK
  <2>4. job' = [job EXCEPT ![r] = j]
    BY <2>1
  <2> HIDE DEF j
  <2> QED
    BY <1>3, <1>t, <2>2, <2>3, <2>4, AskSteps DEF AskOne
<1>4. ASSUME NEW r \in Requests, AskPending(r) PROVE BookStep
  <2>1. PICK u \in Users :
          /\ job' = [job EXCEPT ![r] = [kind |-> "pending", caller |-> u]]
          /\ floor' = [floor EXCEPT ![r] = known[u]]
          /\ GoTo(r, IF u \in Admins THEN "orders" ELSE "forbidden")
    BY <1>4 DEF AskPending
  <2> DEFINE j == [kind |-> "pending", caller |-> u]
             l == IF u \in Admins THEN "orders" ELSE "forbidden"
  <2>2. /\ j \in Job /\ j.kind = "pending"
        /\ \/ l = "orders" /\ j.caller \in Admins
           \/ l = "forbidden" /\ j.caller \notin Admins
    BY DEF Job
  <2>3. \A x \in Requests \ {r} : floor'[x] = floor[x]
    BY <1>t, <2>1 DEF TypeOK
  <2>4. GoTo(r, l) /\ job' = [job EXCEPT ![r] = j]
    BY <2>1
  <2> HIDE DEF j, l
  <2> QED
    BY <1>4, <1>t, <2>2, <2>3, <2>4, AskSteps DEF AskPending
<1>5. ASSUME NEW r \in Requests,
             \/ BeginTx(r) \/ InsertCustomization(r) \/ InsertOrder(r)
             \/ InsertOrderItem(r) \/ RowRefused(r)
      PROVE  BookStep
  <2>1. /\ pc[r] \in Inserting /\ pc'[r] \in Inserting \cup {"refused"}
        /\ UNCHANGED <<tables, job>>
        /\ \A x \in Requests \ {r} : Rests(x)
    BY <1>5, <1>t DEF BeginTx, InsertCustomization, InsertOrder, InsertOrderItem, RowRefused,
         GoTo, TypeOK, Inserting, Rests, reading, history
  <2> QED
    BY <1>t, <2>1, InsertSteps
<1>6. ASSUME NEW r \in Requests,
             \/ StatementFails(r) \/ ReadFails(r)
             \/ pc[r] = "commit" /\ UNCHANGED <<tables, job, reading, history>> /\ GoTo(r, "error")
      PROVE  BookStep
  <2>1. /\ pc[r] \in Inserting \cup Reading /\ pc'[r] = "error"
        /\ UNCHANGED <<tables, job>>
        /\ \A x \in Requests \ {r} : Rests(x)
    BY <1>6, <1>t DEF StatementFails, ReadFails, GoTo, TypeOK, Inserting, Rests, reading, history
  <2> DEFINE S == {r}
  <2>2. \A x \in S : pc[x] \in Inserting \cup Reading /\ pc'[x] \in {"error", "lost"}
    BY <2>1
  <2>3. (\A x \in Requests \ S : Rests(x)) /\ S \in SUBSET Requests
    BY <2>1
  <2> HIDE DEF S
  <2> QED
    BY <1>t, <2>1, <2>2, <2>3, FailSteps
<1>7. ASSUME NEW r \in Requests, Commit(r) PROVE BookStep
  <2>1. /\ pc[r] = "commit" /\ ApplyWrites(r) /\ pc'[r] = "created" /\ UNCHANGED job
        /\ \A x \in Requests \ {r} : Rests(x)
    BY <1>7, <1>t DEF Commit, GoTo, TypeOK, Rests, reading
  <2> QED
    BY <1>t, <2>1, PlaceSteps
<1>8. ASSUME NEW r \in Requests, CommitFails(r) PROVE BookStep
  <2>1. /\ pc[r] = "commit" /\ pc'[r] = "error" /\ UNCHANGED <<job, reading, history>>
        /\ GoTo(r, "error") /\ (ApplyWrites(r) \/ UNCHANGED tables)
        /\ \A x \in Requests \ {r} : Rests(x)
    BY <1>8, <1>t DEF CommitFails, GoTo, TypeOK, Rests, reading, history
  <2>2. CASE ApplyWrites(r)
    BY <1>t, <2>1, <2>2, PlaceSteps
  <2>3. CASE UNCHANGED tables
    BY <1>6, <2>1, <2>3
  <2> QED
    BY <2>1, <2>2, <2>3
<1>9. ASSUME Crash PROVE BookStep
  <2> DEFINE S == {r \in Requests : pc[r] \in Inserting \cup Reading}
  <2>1. /\ \A r \in S : pc[r] \in Inserting \cup Reading /\ pc'[r] \in {"error", "lost"}
        /\ \A x \in Requests \ S : Rests(x)
        /\ UNCHANGED <<tables, job>> /\ S \in SUBSET Requests
    BY <1>9 DEF Crash, Rests, reading, history
  <2> HIDE DEF S
  <2> QED
    BY <1>t, <2>1, FailSteps
<1>10. ASSUME UNCHANGED vars PROVE BookStep
  <2>1. UNCHANGED <<entries, questions, progress, answers>>
    BY <1>10 DEF vars, entries, questions, progress, answers, Orders, MayView, Owner
  <2> QED
    BY <2>1 DEF BookStep
<1> QED
  BY <1>t, <1>1, <1>2, <1>3, <1>4, <1>5, <1>6, <1>7, <1>8, <1>9, <1>10, DecideSteps,
     SelectOrderLooks, SelectOrdersLooks, ListPendingLooks, SelectItemsTells,
     SelectCustomizationsTells DEF Next, Quiet

LEMMA BookInit == Init => Book!Init
<1> SUFFICES ASSUME Init PROVE Book!Init
  OBVIOUS
<1>1. entries = [o \in Requests |-> "absent"]
  <2>1. entries = status
    BY SubmitInit, EntriesAreStatus
  <2> QED
    BY <2>1 DEF Init
<1>2. questions = [r \in Requests |-> NONE]
  BY DEF Init, questions
<1>3. progress = [r \in Requests |-> "idle"]
  <2>1. \A r \in Requests : progress[r] = "idle"
    BY ProgressAt DEF Init
  <2> QED
    BY <2>1, AreFunctions
<1>4. answers = [r \in Requests |-> {}]
  <2>1. \A r \in Requests : answers[r] = {}
    BY AnswersAt DEF Init
  <2> QED
    BY <2>1, AreFunctions
<1> QED
  BY <1>1, <1>2, <1>3, <1>4 DEF Book!Init

\* Three INSERTs and three SELECTs with snapshots of their own, interleaved
\* with those of other requests, failing or cut short anywhere, cannot be
\* told from orders placed in one step and answers that are what their
\* reader may see of the book at one instant (CreateCustomOrder, GetByID,
\* ListByUser, ListPending).
THEOREM OrdersImplementBook == Spec => ImplementsOrderBook
<1>1. IInv /\ [Next]_vars => [Book!Next]_(Book!vars)
  BY BookSimulated DEF BookStep, Book!vars
<1> QED
  BY <1>1, BookInit, IndInvariant, PTL DEF Spec, ImplementsOrderBook, Book!Spec

\* OrderBook's variables have their types under the mapping, so no row that
\* is shown stands for an order of which a part is missing.
THEOREM BookTypes == Spec => []Book!TypeOK
<1>1. ASSUME IInv PROVE Book!TypeOK
  <2>t. TypeOK
    BY <1>1 DEF IInv, SubmitInv
  <2>1. entries \in [Requests -> {"absent", "pending_review"} \cup Book!Decided]
    BY <1>1, <2>t, EntriesAreStatus DEF IInv, TypeOK, Decided, Book!Decided
  <2>2. questions \in [Requests -> Book!Query \cup {NONE}]
    <3>1. ASSUME NEW r \in Requests PROVE questions[r] \in Book!Query \cup {NONE}
      <4>1. CASE job[r] = NONE
        BY <4>1 DEF questions
      <4>2. CASE job[r] # NONE
        <5>1. job[r] \in Job
          BY <2>t, <4>2 DEF TypeOK
        <5>2. questions[r] = [kind |-> job[r].kind, caller |-> job[r].caller,
                 target |-> IF job[r].kind = "get" THEN job[r].target ELSE NONE]
          BY <4>2 DEF questions
        <5> QED
          BY <5>1, <5>2 DEF Job, Book!Query
      <4> QED
        BY <4>1, <4>2
    <3>2. questions = [r \in Requests |-> questions[r]]
      BY DEF questions
    <3> QED
      BY <3>1, <3>2
  <2>3. progress \in [Requests -> {"idle", "open", "looked", "told", "rejected", "error"}]
    <3>1. \A r \in Requests :
             progress[r] \in {"idle", "open", "looked", "told", "rejected", "error"}
      BY <2>t, ProgressAt DEF TypeOK, Reading, Answered
    <3> QED
      BY <3>1, AreFunctions
  <2>4. answers \in [Requests -> SUBSET Book!Row]
    <3>1. ASSUME NEW r \in Requests PROVE answers[r] \subseteq Book!Row
      <4>1. seen[r] \subseteq Book!Row
        BY <2>t DEF TypeOK, OrderRow, Decided, Book!Row, Book!Decided
      <4>2. [order |-> r, status |-> "pending_review"] \in Book!Row
        BY DEF Book!Row
      <4> QED
        BY <4>1, <4>2, AnswersAt
    <3> QED
      BY <3>1, AreFunctions
  <2> QED
    BY <2>1, <2>2, <2>3, <2>4 DEF Book!TypeOK
<1> QED
  BY <1>1, IndInvariant, PTL
===============================================================================
