------------------------------ MODULE CustomOrders ------------------------------
(***************************************************************************)
(* Submitting and reading custom orders: OrderHandler.SubmitCustom,        *)
(* ListMine and Get over OrderService and OrderRepository, and the admin's *)
(* list of pending orders.                                                 *)
(*                                                                         *)
(* A submission is a transaction of three INSERTs.  Get and ListMine are   *)
(* three SELECTs, each on a connection of its own and with a snapshot of   *)
(* its own, between which orders are placed and decided.  The database     *)
(* refuses a value that does not fit its column.  Statements may fail,     *)
(* COMMIT may take effect and be reported as failed, the process may       *)
(* crash.                                                                  *)
(*                                                                         *)
(* A request inserts at most one row into each table, so its name serves   *)
(* as the id of those rows.                                                *)
(*                                                                         *)
(* All this is shown to implement OrderBook.                               *)
(***************************************************************************)
EXTENDS Pricing, FiniteSets

CONSTANTS
    Users,          \* users with an account
    Admins,         \* those whose access token says "admin"
    Requests,       \* requests; one goroutine each
    Bodies,         \* the request bodies of submissions
    MaxAmount,      \* what NUMERIC(12,2) can hold, in mills
    MaxQuantity,    \* what INTEGER can hold
    MaxCrashes,     \* bound on server crashes
    NONE            \* no job

\* CustomOrderRequest: bytes is the engraving's length as sent, engraving its
\* length once trimmed, characters that length in characters (UTF-8: of one
\* to four bytes each).
Body ==
    [category: STRING, gender: STRING, metal: STRING, gemstone: STRING,
     bytes: Nat, engraving: Nat, characters: Nat, quantity: Int,
     address: {"none", "json", "other"}]

ASSUME AdminsAssumption == Admins \subseteq Users
ASSUME BodiesAssumption ==
    /\ Bodies \subseteq Body
    /\ \A b \in Bodies :
          /\ b.engraving <= b.bytes
          /\ b.characters <= b.engraving /\ b.engraving <= 4 * b.characters
ASSUME MaxCrashesAssumption == MaxCrashes \in Nat

\* The widths of the columns: 9 999 999 999.99 holds every price, and is less
\* than the lowest price times 2^31, the first quantity that does not fit.
ASSUME ColumnAssumption ==
    /\ MaxAmount \in Nat /\ MaxQuantity \in Nat
    /\ MaxPrice <= MaxAmount /\ MaxAmount < MinPrice * (MaxQuantity + 1)

Job ==
    [kind: {"submit"}, caller: Users, body: Bodies]
    \cup [kind: {"list", "pending"}, caller: Users]
    \cup [kind: {"get"}, caller: Users, target: Requests]

ASSUME NoneAssumption == NONE \notin Job

VARIABLES
    customizations, \* committed rows of customizations
    status,         \* status[o]: committed orders.status of o, "absent" if no row
    items,          \* committed rows of order_items, by order
    pc,             \* pc[r]: the statement r runs next, or how r was answered
    job,            \* job[r]: what r is to do, NONE before it arrives
    writes,         \* writes[r]: the tables r's open transaction inserted into
    seen,           \* seen[r]: the order rows r has read
    lines,          \* lines[r]: the orders whose item r has read
    details,        \* details[r]: the customizations r has read
    known,          \* history: known[u], the order rows u was ever answered with
    floor,          \* history: floor[r], what r's caller knew when r arrived
    crashes         \* crashes so far

tables  == <<customizations, status, items>>
reading == <<seen, lines, details>>
history == <<known, floor>>
vars    == <<customizations, status, items, pc, job, writes, seen, lines, details,
             known, floor, crashes>>

Decided     == {"confirmed", "declined"}
OrderRow    == [order: Requests, status: {"pending_review"} \cup Decided]
Inserting   == {"begin", "customization", "order", "item", "commit"}
Reading     == {"orders", "items", "details"}
Answered    == {"created", "invalid", "refused", "error", "ok", "notfound", "forbidden", "lost"}

TypeOK ==
    /\ customizations \subseteq Requests
    /\ status \in [Requests -> {"absent", "pending_review"} \cup Decided]
    /\ items \subseteq Requests
    /\ pc \in [Requests -> {"idle"} \cup Inserting \cup Reading \cup Answered]
    /\ job \in [Requests -> Job \cup {NONE}]
    /\ writes \in [Requests -> SUBSET {"customization", "order", "item"}]
    /\ seen \in [Requests -> SUBSET OrderRow]
    /\ lines \in [Requests -> SUBSET Requests]
    /\ details \in [Requests -> SUBSET Requests]
    /\ known \in [Users -> SUBSET OrderRow]
    /\ floor \in [Requests -> SUBSET OrderRow]
    /\ crashes \in Nat

Init ==
    /\ customizations = {}
    /\ status = [o \in Requests |-> "absent"]
    /\ items = {}
    /\ pc = [r \in Requests |-> "idle"]
    /\ job = [r \in Requests |-> NONE]
    /\ writes = [r \in Requests |-> {}]
    /\ seen = [r \in Requests |-> {}]
    /\ lines = [r \in Requests |-> {}]
    /\ details = [r \in Requests |-> {}]
    /\ known = [u \in Users |-> {}]
    /\ floor = [r \in Requests |-> {}]
    /\ crashes = 0

-----------------------------------------------------------------------------
(* Helpers. *)

GoTo(r, l) == pc' = [pc EXCEPT ![r] = l]

Orders == {o \in Requests : status[o] # "absent"}
Owner(o) == job[o].caller
RowOf(o) == [order |-> o, status |-> status[o]]
IdsOf(rows) == {row.order : row \in rows}

\* validateCustomOrderRequest.
Valid(b) ==
    /\ b.category \in {"ring", "bracelet", "necklace"}
    /\ b.gender \in {"men", "women", "unisex"}
    /\ b.metal # ""
    /\ b.quantity > 0
    /\ b.bytes <= MaxEngraving
    /\ b.address # "other"

\* The NUMERIC(12,2) and INTEGER columns each INSERT fills.
CustomizationFits(b) == Total(b) <= MaxAmount
OrderFits(b) == Total(b) * b.quantity <= MaxAmount
ItemFits(b)  == Total(b) <= MaxAmount /\ b.quantity <= MaxQuantity

Fits(r) ==
    CASE pc[r] = "customization" -> CustomizationFits(job[r].body)
      [] pc[r] = "order"         -> OrderFits(job[r].body)
      [] pc[r] = "item"          -> ItemFits(job[r].body)

\* The user is told of rows.
Learn(r, rows) == known' = [known EXCEPT ![job[r].caller] = @ \cup rows]

-----------------------------------------------------------------------------
(* A request arrives, its caller known from the access token. *)

\* SubmitCustomOrder up to the transaction: validation, then pricing.
Submit(r) ==
    /\ pc[r] = "idle"
    /\ \E u \in Users, b \in Bodies :
          /\ job' = [job EXCEPT ![r] = [kind |-> "submit", caller |-> u, body |-> b]]
          /\ GoTo(r, IF Valid(b) /\ Recognized(b) THEN "begin" ELSE "invalid")
          /\ floor' = [floor EXCEPT ![r] = known[u]]
    /\ UNCHANGED <<tables, writes, reading, known, crashes>>

AskList(r) ==
    /\ pc[r] = "idle"
    /\ \E u \in Users :
          /\ job' = [job EXCEPT ![r] = [kind |-> "list", caller |-> u]]
          /\ floor' = [floor EXCEPT ![r] = known[u]]
    /\ GoTo(r, "orders")
    /\ UNCHANGED <<tables, writes, reading, known, crashes>>

AskOne(r) ==
    /\ pc[r] = "idle"
    /\ \E u \in Users, o \in Requests :
          /\ job' = [job EXCEPT ![r] = [kind |-> "get", caller |-> u, target |-> o]]
          /\ floor' = [floor EXCEPT ![r] = known[u]]
    /\ GoTo(r, "orders")
    /\ UNCHANGED <<tables, writes, reading, known, crashes>>

\* RequireRole stands in front of the admin's list.
AskPending(r) ==
    /\ pc[r] = "idle"
    /\ \E u \in Users :
          /\ job' = [job EXCEPT ![r] = [kind |-> "pending", caller |-> u]]
          /\ floor' = [floor EXCEPT ![r] = known[u]]
          /\ GoTo(r, IF u \in Admins THEN "orders" ELSE "forbidden")
    /\ UNCHANGED <<tables, writes, reading, known, crashes>>

-----------------------------------------------------------------------------
(* CreateCustomOrder. *)

BeginTx(r) ==
    /\ pc[r] = "begin"
    /\ GoTo(r, "customization")
    /\ UNCHANGED <<tables, job, writes, reading, history, crashes>>

InsertCustomization(r) ==
    /\ pc[r] = "customization" /\ Fits(r)
    /\ writes' = [writes EXCEPT ![r] = @ \cup {"customization"}]
    /\ GoTo(r, "order")
    /\ UNCHANGED <<tables, job, reading, history, crashes>>

\* The status an order is created with.
DefaultStatus  == "cart"                            \* mutant: the column's default
InitialStatus  == "pending_review"

\* mutant: the order is inserted through the pool, outside the transaction.
InsertOrderOnPool(r) ==
    /\ pc[r] = "order" /\ Fits(r)
    /\ status' = [status EXCEPT ![r] = InitialStatus]
    /\ GoTo(r, "item")
    /\ UNCHANGED <<customizations, items, job, writes, reading, history, crashes>>

InsertOrder(r) ==
    /\ pc[r] = "order" /\ Fits(r)
    /\ writes' = [writes EXCEPT ![r] = @ \cup {"order"}]
    /\ GoTo(r, "item")
    /\ UNCHANGED <<tables, job, reading, history, crashes>>

InsertOrderItem(r) ==
    /\ pc[r] = "item" /\ Fits(r)
    /\ writes' = [writes EXCEPT ![r] = @ \cup {"item"}]
    /\ GoTo(r, "commit")
    /\ UNCHANGED <<tables, job, reading, history, crashes>>

\* The deferred Rollback.
Rollback(r) == writes' = [writes EXCEPT ![r] = {}]

\* The database refuses the row: numeric or integer out of range, 500.
RowRefused(r) ==
    /\ pc[r] \in {"customization", "order", "item"} /\ ~Fits(r)
    /\ Rollback(r)
    /\ GoTo(r, "refused")
    /\ UNCHANGED <<tables, job, reading, history, crashes>>

StatementFails(r) ==
    /\ pc[r] \in Inserting \ {"commit"}
    /\ Rollback(r)
    /\ GoTo(r, "error")
    /\ UNCHANGED <<tables, job, reading, history, crashes>>

ApplyWrites(r) ==
    /\ customizations' = IF "customization" \in writes[r]
                         THEN customizations \cup {r} ELSE customizations
    /\ status' = IF "order" \in writes[r]
                 THEN [status EXCEPT ![r] = InitialStatus] ELSE status
    /\ items' = IF "item" \in writes[r] THEN items \cup {r} ELSE items

\* 201, with the order and its price.
Commit(r) ==
    /\ pc[r] = "commit"
    /\ ApplyWrites(r)
    /\ Rollback(r)
    /\ Learn(r, {[order |-> r, status |-> InitialStatus]})
    /\ GoTo(r, "created")
    /\ UNCHANGED <<job, reading, floor, crashes>>

\* mutant: the error of Commit is dropped.
CommitErrorIgnored(r) ==
    /\ pc[r] = "commit"
    /\ ApplyWrites(r) \/ UNCHANGED tables
    /\ Rollback(r)
    /\ GoTo(r, "created")
    /\ UNCHANGED <<job, reading, history, crashes>>

\* Commit returns an error; the server may have committed all the same.
CommitFails(r) ==
    /\ pc[r] = "commit"
    /\ ApplyWrites(r) \/ UNCHANGED tables
    /\ Rollback(r)
    /\ GoTo(r, "error")
    /\ UNCHANGED <<job, reading, history, crashes>>

-----------------------------------------------------------------------------
(* GetByID and ListByUser: the order rows, their items, the customizations. *)

\* mutant: the tracking page leaves out what has been decided.
OpenOrdersOf(u) == {o \in Orders : Owner(o) = u /\ status[o] = "pending_review"}

\* WHERE user_id = $1.
OrdersOf(u) == {o \in Orders : Owner(o) = u}

\* Get shows an order to its owner and to an admin; to others it is not there.
AnyoneViews(u, o) == TRUE                           \* mutant: no ownership check
MayView(u, o) == u \in Admins \/ Owner(o) = u

\* GetByID and ListByUser have what they asked for; Get checks the owner.
Finish(r, rows) ==
    IF job[r].kind = "get" /\ \E o \in IdsOf(rows) : ~MayView(job[r].caller, o)
    THEN GoTo(r, "notfound") /\ UNCHANGED known
    ELSE GoTo(r, "ok") /\ Learn(r, rows)

SelectOrder(r) ==
    /\ pc[r] = "orders" /\ job[r].kind = "get"
    /\ seen' = [seen EXCEPT ![r] = {RowOf(o) : o \in Orders \cap {job[r].target}}]
    /\ GoTo(r, IF job[r].target \in Orders THEN "items" ELSE "notfound")
    /\ UNCHANGED <<tables, job, writes, lines, details, history, crashes>>

\* No orders, no further queries.
SelectOrders(r) ==
    /\ pc[r] = "orders" /\ job[r].kind = "list"
    /\ LET own == OrdersOf(job[r].caller)
       IN  /\ seen' = [seen EXCEPT ![r] = {RowOf(o) : o \in own}]
           /\ GoTo(r, IF own = {} THEN "ok" ELSE "items")
    /\ UNCHANGED <<tables, job, writes, lines, details, history, crashes>>

\* No items, no further queries.
SelectItems(r) ==
    /\ pc[r] = "items"
    /\ LET found == IdsOf(seen[r]) \cap items
       IN  /\ lines' = [lines EXCEPT ![r] = found]
           /\ IF found = {} THEN Finish(r, seen[r]) ELSE GoTo(r, "details") /\ UNCHANGED known
    /\ UNCHANGED <<tables, job, writes, seen, details, floor, crashes>>

SelectCustomizations(r) ==
    /\ pc[r] = "details"
    /\ details' = [details EXCEPT ![r] = lines[r] \cap customizations]
    /\ Finish(r, seen[r])
    /\ UNCHANGED <<tables, job, writes, seen, lines, floor, crashes>>

\* mutant: rows.Err() is not looked at, a broken result passes for a short one.
ReadErrorIgnored(r) ==
    /\ pc[r] \in Reading
    /\ GoTo(r, "ok")
    /\ UNCHANGED <<tables, job, writes, reading, history, crashes>>

ReadFails(r) ==
    /\ pc[r] \in Reading
    /\ GoTo(r, "error")
    /\ UNCHANGED <<tables, job, writes, reading, history, crashes>>

-----------------------------------------------------------------------------
(* ListPending, and the decisions that take orders off its list. *)

\* orders JOIN order_items JOIN customizations.
PendingReview ==
    {o \in Orders : status[o] = "pending_review" /\ o \in items /\ o \in customizations}

ListPending(r) ==
    /\ pc[r] = "orders" /\ job[r].kind = "pending"
    /\ seen' = [seen EXCEPT ![r] = {RowOf(o) : o \in PendingReview}]
    /\ lines' = [lines EXCEPT ![r] = PendingReview]
    /\ details' = [details EXCEPT ![r] = PendingReview]
    /\ Learn(r, {RowOf(o) : o \in PendingReview})
    /\ GoTo(r, "ok")
    /\ UNCHANGED <<tables, job, writes, floor, crashes>>

\* DecideCustomOrder, of which only the committed status matters here.
Decide(o) ==
    /\ status[o] = "pending_review"
    /\ \E d \in Decided : status' = [status EXCEPT ![o] = d]
    /\ UNCHANGED <<customizations, items, pc, job, writes, reading, history, crashes>>

-----------------------------------------------------------------------------

\* The process dies and PostgreSQL rolls back what was open.
Crash ==
    /\ crashes < MaxCrashes
    /\ crashes' = crashes + 1
    /\ pc' = [r \in Requests |->
                 IF pc[r] \in Inserting \cup Reading THEN "lost" ELSE pc[r]]
    /\ writes' = [r \in Requests |-> {}]
    /\ UNCHANGED <<tables, job, reading, history>>

\* Nothing is left to do.
Quiet ==
    /\ \A r \in Requests : pc[r] \in Answered
    /\ UNCHANGED vars

Next ==
    \/ \E r \in Requests :
          \/ Submit(r) \/ AskList(r) \/ AskOne(r) \/ AskPending(r)
          \/ BeginTx(r)
          \/ InsertCustomization(r) \/ InsertOrder(r) \/ InsertOrderItem(r)
          \/ RowRefused(r) \/ StatementFails(r)
          \/ Commit(r) \/ CommitFails(r)
          \/ SelectOrder(r) \/ SelectOrders(r) \/ SelectItems(r)
          \/ SelectCustomizations(r) \/ ReadFails(r)
          \/ ListPending(r)
          \/ Decide(r)
    \/ Crash
    \/ Quiet

Spec == Init /\ [][Next]_vars

-----------------------------------------------------------------------------
(* What customers and the admin rely on. *)

\* "A crash midway never leaves an order without its customization or vice
\* versa" (CreateCustomOrder), nor without its item, whatever fails when.
OrdersComplete == customizations = Orders /\ items = Orders

\* A 201 is never taken back, and a 400 or a row the database refused has
\* left nothing behind, the rows inserted before it included (an error says
\* nothing either way).
AnswersAreTrue ==
    \A r \in Requests :
        /\ pc[r] = "created" => r \in Orders
        /\ pc[r] \in {"invalid", "refused"} =>
              r \notin Orders \cup items \cup customizations

\* "each with its line items enriched" (ListByUser): a page assembled from
\* three reads, a single order's or a list, never shows an order without its
\* item or an item without its customization, although orders are placed and
\* decided between the reads (fetchItemsWithDetails).  That goes for ListMine
\* against models.go, which says of Order.Items that it is "empty on list
\* views", and for the one SELECT of the admin's list.
PagesAreComplete ==
    \A r \in Requests : pc[r] = "ok" =>
        lines[r] = IdsOf(seen[r]) /\ details[r] = lines[r]

\* A customer is only ever shown orders of his own, by either route.
OwnersOnly ==
    \A u \in Users \ Admins : \A row \in known[u] : Owner(row.order) = u

\* rows has row's order, not gone back to being undecided.
StillIn(row, rows) ==
    \E later \in rows :
        /\ later.order = row.order
        /\ later.status = row.status \/ row.status = "pending_review"

\* What a user was once told stays true of what he asks for later: an order
\* of his is on every later list and at its own address, and does not go
\* back to being undecided.
NothingForgotten ==
    \A r \in Requests : \A row \in floor[r] :
        /\ pc[r] = "ok" /\ job[r].kind = "list" /\ Owner(row.order) = job[r].caller
               => StillIn(row, seen[r])
        /\ pc[r] \in {"ok", "notfound"} /\ job[r].kind = "get" /\ job[r].target = row.order
               => pc[r] = "ok" /\ StillIn(row, seen[r])

\* The joins of the admin's list lose no order that waits for a decision.
PendingMissesNothing ==
    PendingReview = {o \in Requests : status[o] = "pending_review"}

\* "In normal operation this should be an exact match" (SubmitCustomOrder):
\* it is for a text of one-byte characters.  The server counts bytes where
\* the catalogue names a fee per character, so any other text costs its
\* customer that fee once more for every further byte, never less than he
\* was told, and the warning of a stale or drifted client is logged for
\* exactly those orders.  That the server rounds in three places and the
\* client nowhere, and trims the text, makes no difference.
EstimateOffByExtraBytes ==
    \A o \in Orders :
        LET b == job[o].body
            extra == b.engraving - b.characters
        IN  /\ 10 * Total(b) = ClientEstimate(b) + 10 * engravingPerCharFee * extra
            /\ EstimateDiffers(b) <=> extra > 0

\* Nothing but quantity > 0 is asked of a quantity.  A row that does not fit
\* is therefore refused, but always at total_amount: the prices are such
\* that no INTEGER quantity overflows first.
OnlyTotalsOverflow ==
    \A r \in Requests : pc[r] \in {"customization", "item"} => Fits(r)

-----------------------------------------------------------------------------
(* What all this implements. *)

\* An order of which a row is missing is nothing OrderBook knows.
entries == [o \in Requests |->
    CASE o \in Orders \cap items \cap customizations    -> status[o]
      [] o \notin Orders \cup items \cup customizations -> "absent"
      [] OTHER                                          -> "broken"]

questions == [r \in Requests |->
    IF job[r] = NONE THEN NONE
    ELSE [kind |-> job[r].kind, caller |-> job[r].caller,
          target |-> IF job[r].kind = "get" THEN job[r].target ELSE NONE]]

\* How far each request is for OrderBook.
Opened     == Inserting \cup {"orders"}
PartlyRead == {"items", "details"}
WasTold    == {"created", "ok", "notfound"}
TurnedAway == {"invalid", "refused", "forbidden"}

progress == [r \in Requests |->
    CASE pc[r] = "idle"         -> "idle"
      [] pc[r] \in Opened     -> "open"
      [] pc[r] \in PartlyRead -> "looked"
      [] pc[r] \in WasTold    -> "told"
      [] pc[r] \in TurnedAway -> "rejected"
      [] OTHER                 -> "error"]

\* What r was shown whole; while it reads, what it may be shown.
answers == [r \in Requests |->
    CASE pc[r] = "created" -> {[order |-> r, status |-> InitialStatus]}
      [] pc[r] \in PartlyRead ->
            {row \in seen[r] : MayView(job[r].caller, row.order)}
      [] pc[r] = "ok" -> {row \in seen[r] : row.order \in lines[r] \cap details[r]}
      [] OTHER -> {}]

Book == INSTANCE OrderBook
        WITH book <- entries, query <- questions, outcome <- progress, rows <- answers

\* Three INSERTs and three SELECTs with snapshots of their own, failing,
\* refused or cut short anywhere, cannot be told from orders placed in one
\* step and answers that are the book as it was at one instant.
ImplementsOrderBook == Book!Spec
=============================================================================
