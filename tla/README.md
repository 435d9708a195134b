# Verification of the gem store backend

TLA+ models of the Go backend of the gem and jewellery store (`backend/`), the
TLC runs that check them and the TLAPS proofs about them. Paths below are
relative to the repository; line numbers of the code each definition stands
for are in `PROJECT.json` under `map`.

* [The system](#the-system)
* [Modules](#modules)
* [Runs](#runs)
* [Proofs](#proofs)
* [What the code does not do](#what-the-code-does-not-do)
* [What is not modelled](#what-is-not-modelled)
* [Plan](#plan)
* [Running it](#running-it)

## The system

One Go process, one PostgreSQL database, browsers with cookies, and two
providers (SendGrid, Twilio). `cmd/api/main.go` wires repositories, services
and handlers; every HTTP request runs in a goroutine of its own, with a context
that ends when the client leaves or after 30 s. All state that lasts is in
PostgreSQL; the only shared state in memory are the two rate limiters. Only two
operations open a transaction (`CreateCustomOrder`, `DecideCustomOrder`); every
other handler runs its statements one by one, and other requests get in between.

| Component | State | Operations | Correct when |
|---|---|---|---|
| Approval workflow (`handler/admin.go`, `service/approval.go`, `repository/approval.go`) | `orders.status`, `order_approvals`, row locks; a detached goroutine per decision | approve, decline, list pending; notify | an order is decided once; status and audit row agree; the admin and the customer are told the truth; nobody waits for ever |
| Sessions (`auth_handler.go`, `auth_service.go`, `refresh_token_repository.go`, `user_repository.go`) | `users`, `refresh_tokens`, cookies in browsers | sign up, log in, refresh (rotation, reuse detection), log out, me | a token is exchanged once, never after its session ended; a role change is seen in time; nobody is taken for a thief on another user's account |
| Rate limiter (`middleware/security.go`) | map from IP to limiter, under a mutex; a sweep goroutine | `allow`, sweep | no IP gets more than its bucket gives, none is refused what it has, entries go away |
| Custom orders (`order_handler.go`, `order_service.go`, `order_repository.go`) | `customizations`, `orders`, `order_items` | submit (three inserts in a transaction), list mine, get (owner or admin) | an order and its customization appear together; a customer sees his own orders only |
| Pricing (`service/pricing.go`) | none (constant tables) | calculate, catalogue | the server's price is charged; it fits the columns; it misses the client's estimate by a known amount |
| Access tokens and roles (`middleware/auth.go`) | none (signed claims) | issue, authenticate, require role | admin routes are for admins |
| Connection pool (`database/database.go`) | up to `DB_MAX_CONNS` connections | acquire, release, health check | those who wait, for a connection or holding one, never all wait for each other |
| Notifier (`pkg/notifier`) | none | render, send email, send SMS | a slow or failing email does not take the SMS with it |
| Catalogue (`product_*.go`, `cmd/seedproducts`) | `products` | list, get, seed, take off the list | seeding again adds what is missing only, and says so; what the owner took off the list stays off |
| Configuration (`config/config.go`) | environment | load | the real environment wins over `.env` |
| Start and shutdown (`cmd/api/main.go`) | server, signal channel | run | a clean shutdown fails no request; the process ends |
| HTTP plumbing, data model, command-line tools | none of their own | | |

How they interact: the router puts the rate limiter in front of sign-up and
login, authentication in front of orders, authentication and the admin role in
front of the decisions. Sessions sign the role into access tokens, which the
admin routes trust until they expire. Custom orders create the rows the
approval workflow decides; the workflow calls the notifier from a goroutine
that outlives the request.

What is hard here, and where it bites, is listed line by line in
`PROJECT.json` under `hazards`: two admins on one order, a commit whose
acknowledgement is lost, an error after the commit, a read that is acted upon
two statements later while another request changes the row, lost responses
that make an honest browser look like a thief, a sweep that forgets what a
limiter still needs to remember, requests that hold a connection while they
wait for a row lock, a pool closed under the handlers, two seeding runs at
once.

## Modules

| Module | Models | Uses |
|---|---|---|
| `OrderLifecycle` | what the approval workflow promises: an order is submitted once, decided at most once, its status and its audit row change in one step | |
| `Approvals` | the workflow as it is: statements, locks, failures, answers, notifications, crashes | `OrderLifecycle` (refined) |
| `Sessions` | sign-up, login, refresh, logout, one statement per step; browsers, role changes, time | |
| `Replays` | which tokens were presented twice at once or in vain, and may later look stolen | `Sessions` (extended) |
| `Delivery` | the workflow with the time its notifications take: the shared context, the clients' timeouts | `Approvals` (extended) |
| `AdminAccess` | the admin routes in front of the decisions, `seedadmin`, who was an admin when | `Sessions` (extended) |
| `Server` | start, shutdown and exit of the process, and the connection pool its requests share | |
| `Config` | `config.Load`: environment, `.env`, defaults | |
| `Catalogue` | `seedproducts`, several at once; the owner, who takes products off the list | `Config` (extended) |
| `BucketParameters` | burst and period, shared by the next two | |
| `TokenBucket` | what the rate limiter promises: one permanent token bucket per IP | |
| `RateLimiter` | `IPRateLimiter`: entries on demand, lazy refill, late sweeps | `TokenBucket` (refined) |
| `Pricing` | `Calculate` and its tables, which count an engraving's bytes; a client that takes the catalogue at its word, adds up a fee per character and never rounds | |
| `OrderBook` | what submitting and reading orders promises: an order is placed in one step, an answer is the book at one instant | |
| `CustomOrders` | submitting an order, reading one or many, the admin's pending list, one statement per step | `Pricing` (extended), `OrderBook` (refined) |
| `MC...`, one for each of the modules a run checks | the instances TLC checks | |
| `OrderLifecycleProofs`, `ApprovalsProofs`, `SessionsProofs`, `ServerProofs`, `TokenBucketProofs`, `RateLimiterProofs`, `CustomOrdersProofs`, `CatalogueProofs` | theorems and proofs | |

### Approvals

State and code: `status` is `orders.status` ("absent" before the order is
there), `audit` the rows of `order_approvals`, both as committed. A request `r`
is a goroutine in `AdminHandler.decide`; `pc[r]` is the statement of
`DecideCustomOrder` it runs next, or the answer it was given (`ok` 200,
`conflict` 409, `rejected` 400, `error` 500, `lost` no answer). `writes[r]` are
the uncommitted writes of its transaction and `rowLock[o]` says whose `UPDATE`
locked the order. `notify[r]` is how far the goroutine of
`dispatchNotification` got; `emails` and `texts` hold the requests whose
message reached the customer.

`BeginTx`, `UpdateOrder` / `UpdateNoRows`, `InsertApproval`, `FetchContact`,
`Commit` and `FetchItems` are the statements in their order. `StatementFails`
is any of them failing (a lost connection or a cancelled context), with the
deferred `Rollback`. `CommitFails` is a `COMMIT` that reports an error, with or
without having taken effect; `FetchItemsFails` is the read through the pool
after it. Email and SMS may be delivered and reported as failed. `Crash` ends
every request and goroutine and lets PostgreSQL roll back.

PostgreSQL is external and modelled from what the code relies on, under
READ COMMITTED: an `UPDATE` locks the row until its transaction ends, a second
`UPDATE` waits and then evaluates its `WHERE` on the committed row, a
`ROLLBACK` or a lost connection undoes everything.

Refused requests that never reach a statement (a malformed id or body) change
nothing and are left out; a decline without a reason is kept (`Receive`), as
it is what `DeclinesAreExplained` is about.

### Delivery

`left[r]` is what remains of the 15 s context of `r`'s notification goroutine,
`spent[r]` how long its present send has taken. Every step of `Approvals` takes
no time (`Timed`), and `Pass` lets time go by while goroutines wait for a
provider, until the first of them is `Over`: its client's 10 s or the context
is up, and the send has to end. A send that starts with the context over does
not reach the provider (`NothingSentLate`). Rendering waits for nothing. `tried[r]`
is history: the sends of the goroutine that came back and had begun while there
was time, however they ended.

### Sessions

State and code: `role` is `users.role` (`NONE` before sign-up), `owner`,
`expires` and `revoked` are the columns of `refresh_tokens`; `parent` and
`ended` are history variables: which token was exchanged for which, and which
were revoked by a logout or a mass revoke. `jar[b]` is browser `b`'s
`refresh_token` cookie, `access` the unexpired access tokens that reached one.
A slot `s` is a request under way, `pc[s]` the statement it runs next and
`job[s]` its local variables.

One action per statement: `CreateUser`, `GetByEmail`, `LookUp` (`GetByHash`
and the two checks), `RevokeAll`, `GetByID`, `Revoke`, `Issue`, `LogoutRevoke`,
and `Respond`, which is the answer reaching the browser. `StatementFails` is an
error of any of them, whose write may have taken effect; `RequestDies` is a
request with no answer (crash, lost connection, the server's 15 s
`WriteTimeout`). `ChangeRole` is the owner changing `users.role`.

Time is a counter. A request still running can hold it up for `MaxLatency` at
most: the `Timeout` middleware cancels its statements. Reading the clock to
sign the access token and to compute `expires_at` is merged with the `INSERT`
that follows. Passwords are right or wrong by choice. A browser keeps its
cookie until told otherwise, which allows more than its `Max-Age` does.

### Replays

Extends `Sessions` with one history variable. `doubtful` are the tokens that
two requests under way presented at the same time (`Shared`), or that a failing
statement or a dying request presented (`Hit`). `AlarmsHaveACause` says that the
user whom `RevokeAll` logs out has one of them: neither another user, nor an
answer that comes late, nor a login next to a refresh can bring that about.

### AdminAccess

Extends `Sessions` with one admin request at a time: `Admit` is `Authenticate`
and `RequireRole` letting an access token through, which look at its claims
alone; `Decide` is the commit in `DecideCustomOrder`, `EndDeed` the end of the
request. `deed` is that request, `lastAdmin` is history. A slow request may
decide up to `MaxLatency` after it was let in. `SeedAdmin` is
`cmd/seedadmin`. That a decision is one step here is sound, because who decides
is settled by `Admit`; what the statements of a decision do is in `Approvals`.

### RateLimiter

`limiters[ip]` is the map entry: the tokens of its `rate.Limiter`, the time
they are as of, and `lastSeen`. `allow` and a turn of `cleanupLoop` run under
one mutex, so each is one step: `Admit` and `Refuse` are the two results of
`allow` with what the middleware does next, `Sweep` is the loop's turn.
`sweepDue` is the ticker, `SweepDelay` how late its goroutine may be scheduled.
Tokens are counted in ticks (a token is `Period` of them), so that the
fractions `rate.Limiter` computes with are whole numbers. `admitted` and
`refused` are history. `rate.Limiter` itself is external and modelled from its
documented behaviour: full at first, refilled lazily, never over its burst.

### CustomOrders and Pricing

State and code: `customizations`, `status` and `items` are the committed rows
of `customizations`, `orders` and `order_items`. A submission inserts one row
into each, so the name of the request stands for their ids. `pc[r]` is the
statement a request runs next or its answer (`created` 201, `ok` 200, `invalid`
400, `forbidden` 403, `notfound` 404, `refused` and `error` 500, `lost` none);
`refused` is set apart because the database itself said no. `job[r]` is the
caller, as the access token names him, and what he asks for; `writes[r]` the
tables the open transaction has inserted into. `seen[r]`, `lines[r]` and
`details[r]` are the results of the three SELECTs of `GetByID` and
`ListByUser`. `known[u]` (every order row `u` was answered with) and `floor[r]`
(what `r`'s caller knew when `r` arrived) are history.

`Submit` is `SubmitCustomOrder` up to the transaction: both validations and the
price. `BeginTx`, `InsertCustomization`, `InsertOrder`, `InsertOrderItem` and
`Commit` follow; `RowRefused` is a value that does not fit its NUMERIC(12,2) or
INTEGER column, `StatementFails` any other error, `CommitFails` a `COMMIT` that
reports one, with or without having taken effect. (A `COMMIT` that takes effect
only after the error was reported shows others the same tables a little later.)
`SelectOrder`/`SelectOrders`, `SelectItems` and `SelectCustomizations` run on a
connection each, outside a transaction, so anything may be committed between
them; `Finish` is the handler's ownership check. `ListPending` is one SELECT.
`Decide` is the approval workflow as these readers see it: one committed change
of status. Ready-made products are never ordered by any code and are left out;
so are requests with malformed ids or JSON.

`OrderBook` says what all that is for, without statements, transactions or
pages: a `book` of statuses, and for each request its `query`, how far it is
(`outcome`) and the `rows` it is told. An order enters the book in one step
(`Place`), of which its customer is told or not; a request that was rejected
has no effect, then or later; a reader is told what he may see of the book at
one instant (`Look`), be it given to him then or later (`Tell`). `CustomOrders`
maps its state to `OrderBook`'s with `entries` (an order of which a row is
missing is `"broken"`, which the book never is), `questions`, `progress` and
`answers`, and `ImplementsOrderBook` is the refinement. It compares each answer
as a whole with one past state of the tables, which the invariants only do row
by row; that the admin's joins lose no order (`PendingMissesNothing`) is part
of it.

Prices are counted in tenths of a cent ("mills"), in which everything
`Calculate` rounds is a whole number. It computes with `float64`; the twelve
products of a base price and a multiplier, all fees and all sums of them are
multiples of half a unit there, so nothing is lost. An engraving is three numbers: its bytes
as sent (what the limit of 100 counts), its bytes once trimmed (what the fee
counts) and its characters (what `engraving_per_char_fee` tells a client to
count). `ClientEstimate` is such a client; it is not in the repository.

### Server

`phase` and `status` are where `run` is and what it returned. A request is what
it needs of the pool: `kind[r]` its route, `uses[r]` how many connections it
has still to ask for, one after the other, and `pc[r]` whether it waits for one
(`acquire`), holds one (`query`, `update`, `commit`), or how it ended (`ok`,
`error`, `refused` by a closed pool, `lost` with the process). `idle` counts
the connections nobody holds, `rowLock` is the deciding transaction past its
`UPDATE`; all decisions want the same row. Submissions hold a connection as a
decision does but contend for no row, so `read` stands for them too, and its
two uses for two or more (a page takes three).

`Fail` is a failing statement or the end of the request's context at any point,
with everything the deferred calls give back (`CleanUp`); times themselves are
left out. `Drained` and `GraceExpires` are the two results of `Shutdown`,
`Exit` the deferred `pool.Close`, which waits for every connection. Both
`GraceExpires` and `ListenFails` close the pool under running handlers.

### Config and Catalogue

`Config` has no variables: `Load(env, file)` is the configuration a program
gets from an environment and the lines of `.env`. One variable stands for each
kind: `DATABASE_URL` (required), `JWT_SECRET` (required and long), and
`DB_MAX_CONNS` (a number with a default). A variable may be set to nothing,
which `os.LookupEnv` tells from unset and `os.Getenv` does not.

`Catalogue` has a set of runs `p` of `seedproducts`, each with an environment
and a file. `target[p]` is the database `p` connected to, `report[p]` what it
printed of each entry so far, `products[d]` the rows of database `d`. An
`INSERT` creates, is told the SKU is taken, or fails, with or without having
taken effect; the program goes on in either case, and `Killed` is its end
anywhere. `Deactivate` is the owner's `UPDATE` of `is_active`, which no code
does. The shop's `List` and `GetByID` are one SELECT each and leave no trace, so
they are not actions.

## Runs

All runs check deadlock; the models stop nowhere (`Quiet`, `OutOfTokens`,
`Gone` and `Finished` stutter where the bounded instance has nothing left to do).

| Run | Instance | Shows |
|---|---|---|
| `approvals` | 2 orders, 1 admin, 3 requests, 1 crash; 735 thousand states | types, and: `AuditMatchesStatus`, `CustomerHearsTheDecision`, `AnswerIsTrue`, `DeclinesAreExplained`, `ImplementsLifecycle` |
| `approvals_live` | `Delivery`: 2 orders, 2 requests, 1 crash, a budget of 3 and a client timeout of 2, fair; 192 thousand states | `SmsGetsItsTurn`, `EveryChannelTried`, `EveryRequestAnswered`, `OkIsFollowedUp` |
| `approvals_silent` | 1 order, 2 requests, fair | `EveryDecisionDispatched` is **violated** |
| `sessions` | `Replays`: 2 users, 1 browser, 2 requests at once, 4 tokens, 3 instants, 1 fault, 5 events in all; 1.9 million states | `ExchangeIsSound`, `SuccessorsBounded`, `AlarmsHaveACause` |
| `sessions_serial` | `AdminAccess`: 1 user whose role changes, 1 session request at a time and 1 decision, 3 tokens, 2 faults, 4 instants; 2.5 million states | types, and: `StaleRoleBound`, `ClearedIsDead`, `DecisionsByRecentAdmins`, `EndedSessionsStayEnded` |
| `sessions_twice` | 2 requests at once, no faults | `UsedOnce` is **violated** |
| `sessions_revived` | 2 browsers, 2 requests at once, no faults | `EndedSessionsStayEnded` is **violated** |
| `server` | 3 requests, 2 connections, fair; 85 thousand states | types, and: `NeverAllBlocked`, `CleanExit`, `EveryRequestEnds`, `ProcessExits` |
| `seeding` | 2 runs of the program, 2 databases, 2 SKUs, 4 environments, 4 `.env` files, 4 product files; 349 thousand states | types, and: `ReportIsTrue`, `EnvironmentWins`, `WithdrawnStaysOff` |
| `rate_limiter` | 2 IPs, burst 2, 2 ticks a token, 9 instants; 2.4 million states | types, and: `WindowBound`, `RefusalsJustified`, `EntriesExpire`, `ImplementsBucket` |
| `custom_orders` | 2 users, one an admin, 3 requests, 6 bodies, 1 crash; 1.7 million states | types, and: `OrdersComplete`, `AnswersAreTrue`, `PagesAreComplete`, `OwnersOnly`, `NothingForgotten`, `EstimateOffByExtraBytes`, `ImplementsOrderBook` |
| `rate_limiter_window` | 1 IP | `AtMostBurstPerWindow` is **violated** |

Bounds, and why they are enough:

* `approvals`: two requests race for an order, the third decides the other one
  or comes late; a crash can fall between any two steps of any of them. One
  order has a phone number, the other has none. Admins matter only as a value
  in the audit row, so there is one. The proofs cover every size.
* `sessions`: two slots are the smallest number with an interleaving, four
  tokens let a chain of two exchanges and a parallel one happen.
  Two users may share the browser, one after the other, with requests of both
  under way. `RefreshTTL = 0` makes a token expire between its look-up and its
  exchange; with a `MaxLatency` of one and a clock of two ticks, an exchange of
  a token that had expired before the request began would be seen. The
  constraint `MCBudget` leaves out what goes beyond five events in all, where
  an event is a token drawn, a user signed up or a tick: one user's chain of
  three exchanges, two users with a token each and one more, or any of it spread
  over the three instants. No role changes here and access tokens expire at once
  (`Staff` is empty, `AccessTTL = 0`), because nothing the run checks depends on
  either; the run `sessions_serial` is the one about them.
* `approvals_live`: a budget of 3 and a timeout of 2 leave the SMS 1 at the
  least, as 15 s and 10 s leave it 5 s: it can be kept waiting by a slow email,
  and be cut short by the context rather than its own client. Of the two orders
  one has a phone number; the two requests contend for one of them or have a
  notification each, and a crash may fall between any two steps of any.
* `sessions_serial`: with one slot the clock can run further (three ticks,
  longer than either lifetime), roles change, and two faults cover a lost
  answer followed by a failing statement. One decision next to a session's
  requests is enough, as decisions do not read what others write.
* `server`: two connections can both be held, one by the lock's owner and one
  by a request that waits for the lock, while the third request waits for a
  connection. The proofs cover every number of requests and connections.
* `seeding`: two runs meet at the same SKU, each with a file that may name it
  once or twice, or be refused at once; the environments and the `.env` files
  have each variable unset, empty, good and bad, a key named twice and a line
  after which nothing is read. Any row may be taken off
  the list at any time.
* `rate_limiter`: a burst of 2 over 2 ticks fills a bucket in 4 ticks, which is
  `StaleAfter`, the tightest value the assumption `StaleAssumption` allows
  (the code's 15 minutes are far from it); 8 ticks are two fillings, three
  sweeps and an eviction followed by new requests.
* `custom_orders`: three requests are two submissions and a reader between
  them, or a submission, a reader and a later reader who must not be told less.
  The bodies are three good ones (the second with every surcharge and half a
  unit in its price, the third with two letters of two bytes), and one for each
  check: validation, pricing, columns.
  `MaxAmount` and `MaxQuantity` are scaled down together so that 11 pieces
  overflow; `ColumnAssumption`, which the real widths satisfy, is all that is
  asked of them. Prices of all bodies, with characters of one to four bytes,
  are covered by the proof of `EstimatesMissBytes`.
* `MaxClock`, `MaxCrashes`, `MaxFaults` and the finite `Tokens` bound what
  would otherwise grow; each is a guard of the action that would grow it.

Symmetry is used for requests, slots, tokens, browsers, users and IPs in the
runs that check invariants and action properties (`seeding` excepted, whose
inputs name databases and SKUs); the runs with liveness use none.

### Fairness

`Approvals!FairSpec` asks weak fairness of each request's next statement and of
each notification goroutine's next send: statements and provider calls come
back (both have timeouts) and Go schedules runnable goroutines. Nothing makes a
request arrive, a statement fail or the process crash. Weak fairness is enough
for a request that waits for a row lock, although the lock may be taken and
released again and again, because there are finitely many requests.
`EveryRequestAnswered` is therefore not owed to the timeouts: it holds if none
ever fires. `Delivery!TimedFairSpec` asks the same of the same steps; time need
not pass, but when it does it cannot pass a send's limit.

`Server!FairSpec` asks weak fairness of each request's next step and of the
main goroutine's steps after a signal. A request waiting for a connection or a
row lock is served in the end because requests are finite in number and each
uses finitely many connections; `Fail`, `Signal`, `ListenFails` and `Crash`
never have to happen. pgxpool hands connections out in the order they were
asked for, which is more than is assumed.

Sessions, RateLimiter, CustomOrders and Catalogue are checked for safety only.

## Proofs

Everything TLAPS proves holds for any finite or infinite sets of orders,
users, admins, requests, bodies and IPs and any values of the numeric constants
that satisfy the assumptions in the modules (`NONE` is not a request, an entry,
a user or a job, numbers are naturals, for the limiter `StaleAfter >= Cap`, for
orders `ColumnAssumption`, for deliveries `ClientTimeout < Budget`, for the
server finitely many requests and at least one connection, for sessions
finitely many requests at once, for the configuration that neither `UNSET` nor
the empty string names a database, and that files consist of lines or entries).

* `OrderLifecycleProofs`: `LifecycleAudit` (status and audit trail agree) and
  `LifecycleFinal` (a decision is final), from the module's own steps.
* `ApprovalsProofs`: none of the safety invariants is inductive. `IInv` adds
  what carries them: whoever holds a row's lock is between its `UPDATE` and its
  `COMMIT` (`LockInv`), while it is the order stays `pending_review` and
  `writes` holds what its statements wrote (`TxnInv`), a request past its
  commit has its row in the trail and the order has its decision
  (`AnswerInv`), and only requests past `COMMIT` have rows (`AuditInv`).
  `WorkflowStep` shows that every action keeps it. From it follow
  `WorkflowTypes`, `WorkflowTellsTheTruth`, `WorkflowTellsCustomers` and the refinement
  `WorkflowImplementsLifecycle`: a commit that takes effect is `Decide`, every
  other step a stutter or `Submit`. `WorkflowAudit` is then inherited from
  `LifecycleAudit`, and `WorkflowExplainsDeclines` combines it with `IInv`.
  Of `Delivery`, `ClocksChangeNothing` shows that it implements `Approvals`,
  whose theorems it therefore inherits; `SmsHasTime` needs that the email's
  clock accounts for all that is gone of the budget (`InTime`), and from it
  `ChannelsTried`: a send that comes back had begun in time, and the goroutine
  is past the email only if it came back (`TriedInv`).
* `SessionsProofs`: the inductive invariant says of every place in the handlers
  what the handler knows there that no other request can have made untrue:
  rows are not deleted, `revoked_at` is never cleared, and a role that differs
  from the one read has changed since (`JobOK`). `Grows` collects what every
  step leaves true of the tables, so that a request's own step is the only one
  to look at closely. From it `SessionsTypes`, `ExchangesAreSound`,
  `StaleRolesExpire` and `ClearedTokensAreDead`, for any number of requests at
  once. For `AdminAccess` it is strengthened by `ClaimsOK` (a request that
  claims its user to be an admin read so after it began), `TokensClaim` and
  `DeedInTime`, which hand that instant on to the token and to the decision:
  `DecidersWereAdmins`.

  `ExchangesAreFew` (`SuccessorsBounded`) counts: the successors of a token and
  the requests that have seen it valid and not yet stored a successor
  (`Exchangers`) are together at most the slots (`CountOK`), because a request
  may only join them while the token is not revoked, hence before it has any
  successor. The promises that runs refute for overlapping requests are
  theorems about those that do not overlap, for any failures, lost answers and
  numbers of users and browsers: `UsedOnceInTurn` if no token is presented twice
  at once, `EndedInTurn` (`EndedSessionsStayEnded`) if no user has two requests
  with a token of his under way, `NoAlarmInTurn` if no browser has two requests
  under way and nothing has failed. The hypotheses are about the environment, as the
  server does nothing to bring them about; `sessions_twice` and
  `sessions_revived` show that the first two cannot be left out, and the
  instance of `sessions_serial`, with one slot, satisfies them all. Two tabs that
  refresh at once are the reason for the third.

  Without any of these hypotheses `AlarmsAreCaused` (`AlarmsHaveACause`) says
  what an alarm takes. `ReplayInv` follows a token from its row to a request's
  answer (`Undelivered`: until it arrives it is in no jar and no request), to the
  jar (`OwnCookies`: requests that present a cookie came from the jar that still
  has it) and to its end: a jar holds a revoked token only while the request that
  revoked it is about to replace it, or if the token's owner is `Excused`
  (`Replaced`); and so a request that looks up a revoked token was either sent
  next to that other one, which makes the token doubtful, or its user is excused
  already (`DeadIsExcused`).
* `ServerProofs`: every connection is idle or held by exactly one request
  (`ConnectionsAccounted`, by counting), the lock's owner is the transaction
  past its `UPDATE`, and Shutdown's nil means nobody was running. If no
  connection is idle somebody holds one, and if all who hold one wait for the
  row, its owner does not: `PoolNeverDeadlocks`. Also `ServerTypes` (no
  connection is given back twice) and `CleanExitFailsNobody`.
* `TokenBucketProofs`: `BucketWindow`. The inductive invariant is a ledger:
  for every admitted request, what was spent since then and what is left in the
  bucket is at most a full bucket and the time that passed.
* `RateLimiterProofs`: `LimiterIsBucket`, the refinement. Evicting an entry is
  a stutter, because an entry not seen for `StaleAfter >= Cap` ticks has filled
  up, and a new entry is full; `lastSeen >= last` is the invariant needed.
  `LimiterWindow` is inherited from `BucketWindow`. `LimiterForgets` needs that
  the next sweep is never further away than a sweep interval and that the last
  one left no stale entry. `LimiterIsFair` (`RefusalsJustified`) rests on
  `NothingLost`: over every stretch of time up to a full bucket's, what was
  spent and what is left make up for the tokens gained. Without looking at all
  shorter stretches too it is not inductive, as a tick moves the window.

* `CustomOrdersProofs`: every invariant of the `custom_orders` run, in two
  halves. `SubmitInv` carries what submissions do: `writes` is what the
  statements up to `pc` inserted (`WritesAt`), rows in the tables belong to
  requests past `COMMIT`, and only accepted bodies get there. From it
  `OrdersAreWhole`, `AnswersTrue` and `PendingListWhole`; with `PriceFacts`,
  which bounds every price and shows that rounding never bites on the tables as
  they are, also `EstimatesMissBytes` and `TotalsOverflowFirst`. `ReadInv` carries
  what readers see: whatever was read or told is still in the tables and only
  moves on from `pending_review` (`Recorded`, `OrdersStay`), and the first
  SELECT of a page found every row its caller had been told of (`Page`). Since
  orders are whole, the two later SELECTs miss nothing. From `IInv`, both
  halves together: `PagesWhole`, `OnlyOwners`, `NothingIsForgotten`, and the
  refinement `OrdersImplementBook`: `BookSimulated` takes each step of the code
  to one of `OrderBook` or to a stutter. A `COMMIT` that takes effect places
  the order, reported or not (`PlaceSteps`); the first SELECT is the instant an
  answer is about (`LookSteps`, by `VisibleRows`), although the owner of one
  order is compared two SELECTs later (`FinishTells`), which is sound because no
  order changes hands (`RestIsStutter`); a crash is one `Fail` of all the
  requests it cuts short. `BookTypes` says the mapping is well-typed, so nothing
  that is shown stands for an order of which a part is missing.

* `CatalogueProofs`: `DotEnvFillsIn` says what `loadDotEnv`, a fold over the
  lines, makes of every file and environment. This is an induction over data,
  which the library's induction theorems cannot give, as they take a predicate.
  It is made by hand: the naturals are well founded (a theorem of the library),
  so a set of them has a least element (`LeastExists`), so there is no shortest
  beginning of a file on which the fold differs from its closed form `Filled`
  (`FoldFillsIn`); that the fold's recursion has a solution at all is shown by
  giving one. From it `ConnectsWhereAsked`, and with an inductive invariant
  (SKUs are unique in a database, a report goes with its place in `main`, a
  seeder's rows are in its target and nowhere else) every invariant of the
  `seeding` run: `TypeCorrect`, `ReportsAreTrue`, `WrittenWhereAsked`, and
  `WithdrawnIsGone`, for which no more is needed than that an `INSERT` finds the
  SKU taken as long as there is a row of it, active or not.

Every safety property of a passing run is thus proved. (`TotalsOverflowFirst`, on
the other hand, has no run: with prices and widths as they are it is arithmetic,
and TLC's scaled widths would say less.) Only model-checked are
the liveness properties, since liveness under fairness (and `ENABLED`) is beyond
the prover's reach.

## What the code does not do

Four runs end in a counterexample, each against a sentence in the repository:

1. **A decision may be silent** (`approvals_silent`). After `COMMIT`,
   `DecideCustomOrder` reads the order's items through the pool; if that fails
   (or `COMMIT` took effect but reported an error) `decide` returns before
   `dispatchNotification`. The admin sees a 500 and, on retrying, a 409; the
   customer is never told. `handler/admin.go:46`: "owner confirms; customer is
   notified automatically".
2. **A refresh token may be used twice** (`sessions_twice`). `revoked_at` is
   read, and set two statements later without looking at the number of rows
   changed. `service/auth_service.go:174-176`: "so it can never be reused";
   `README.md:341-344`: "rather than check-then-act".
3. **An ended session may go on** (`sessions_revived`). A refresh that read its
   token before a logout or a mass revoke still inserts a new token after it.
   `service/auth_service.go:233`: "so it can never be used again".
4. **Five per minute is nine per minute** (`rate_limiter_window`). A bucket of
   burst 5 refilled every 12 s admits the burst and the refill within the same
   minute. `README.md:126`: "5 attempts/minute/IP, 429 beyond that".

`SuccessorsBounded`, `ExchangeIsSound` and `WindowBound` say what holds
instead: a token is exchanged at most once for each request the server can have
under way, so that 2 needs overlapping requests; `sessions_serial` shows the
same of 3.

Seven more sentences do not hold, without a run of their own:

* `schema.sql:190-192` has the service layer enforce that `admin_id` is an
  admin. It does not look: `RequireRole` trusts the token's claim, so an admin
  who was demoted decides orders until his access token expires.
  `DecisionsByRecentAdmins` says how long that can be.
* `auth_handler.go:74-77` says that after a failed refresh the token is "no
  longer good for anything". A failed `SELECT` clears the cookies although the
  token still works; `ClearedIsDead` says when the sentence is true.
* `auth_service.go:189-192` says that a second presentation of a refresh token
  "is not something normal operation produces on its own". A browser with two
  tabs that refresh at once produces one, and so does a lost answer, and either
  ends all sessions of the user. `AlarmsHaveACause` says that one of these is what
  it takes, and `NoAlarmInTurn` when the sentence is true.
* `order_service.go:58-59` says that the client's estimate and the price "should
  be an exact match" in normal operation. The fee for an engraving is named per
  character (`pricing.go:63`) and charged per byte (`pricing.go:104`), so for a
  text with accents they differ, and the warning of a stale or
  drifted client is logged. `EstimateOffByExtraBytes` says by how much.
* `order_service.go:102` tells a customer that his engraving "must be 100
  characters or fewer". It is its bytes that are counted, before it is trimmed,
  so fewer characters may be turned away.
* `models.go:147` says of an order's items that they are "empty on list views".
  `ListByUser` fills them in, as its own comment says
  (`order_repository.go:169-170`), and `PagesAreComplete` holds of lists as of
  single orders.
* `backend/README.md:307-308` has notifications lost in "a crash mid-send". A
  clean shutdown loses them too: it waits for handlers, and `dispatchNotification`
  is not one.

## What is not modelled

* Formatting, templates, logging, headers, CORS, routing, body limits, panic
  recovery: no state, no order.
* `truncateSMSBody`: the bodies `RenderDecisionSMS` makes are far below its
  limit, so it never cuts anything.
* What the shop shows of the products: `List` and `GetByID` are one SELECT each
  and change nothing. (No handler sets the limit or the offset, so `List` is
  always its first page.)
* `cmd/gentoken`, which signs a token and touches nothing.
* `buildNotifier`, which chooses the providers once at start.
* Cryptography: JWT signatures, bcrypt and SHA-256 are taken as unforgeable
  and injective; only claims and expiry are modelled.
* The frontend, which is not in this repository, except for its cookies
  and its estimate of a price.
* `rate.Limiter`, PostgreSQL and the providers are external: modelled from
  what the code relies on and marked so in `map`.

## Plan

What is left, in this order:

1. `OrderLifecycle` as seen by `CustomOrders!Decide`.
2. Liveness of Sessions: a user with a password can always get back in.

## Running it

    tlc -config MCApprovals.cfg MCApprovals
    tlapm ApprovalsProofs.tla

The `.cfg` of each run is named in `PROJECT.json` under `runs`. The models use
the standard modules and, for `Config`, `SequencesExt` of the community modules;
the proof modules also need TLAPS's library.
