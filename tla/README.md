# Formal model of the marketplace API

TLA+ modules, TLC configurations and machine-checked proofs about the Node.js
marketplace API in `src/`: checkout, idempotent retries, the cached product
catalogue, sessions, chat, seller onboarding, and the life of the server
processes with their job queue. Line references are to the repository
(`order.service.ts:49` is line 49 of that file).

To check: `tlc -workers 2 -config checkout.cfg MCCheckout` model-checks a run,
`tlapm CheckoutProofs.tla` checks a module of proofs. `PROJECT.json` maps every
definition to its lines and lists runs, hazards, theorems, findings and, for each
checked property, a mutant of the code that breaks it.

## 1. Inventory

The process is an Express server behind a chain of middleware, with a Socket.io
server on the same port and a BullMQ worker in the same process. It may run as
several processes ("nodes"). What is shared lives in PostgreSQL (a primary for
writes, a replica for most reads), Redis (cache, refresh tokens, idempotency,
rate limits, job queue) and Stripe.

| Component | State | Operations | What makes it hard | What makes it correct | Module |
|---|---|---|---|---|---|
| Order service (`order.service.ts`) | rows `Order`, `OrderItem`, column `Product.stock` on the primary; one interactive transaction per request | `createOrder`, `getMyOrders` | a transaction open across a loop of UPDATEs and a Stripe call; row locks in the order of the cart; pool and transaction timeouts; event before COMMIT | order and all decrements appear together; answers agree with what was committed; no request waits for ever | `Checkout`, `StockLedger` |
| Event bus, queue, worker (`events/`, `bullmq.ts`, `workers/`) | in-memory listeners; the queue in Redis | emit, handler, `orderQueue.add`, worker | the job exists only in one process until Redis answers; a worker that ends or loses its lock | the job of a committed order is processed; a lost job is delivered again | `Checkout`, `ServerProcess`, `JobQueue` |
| Idempotency (`idempotency.middleware.ts`, `idempotency.store.ts`) | Redis: stored response (24 h), lock (30 s) | lookup, lock, intercepted `res.json`, set, unlock | check and lock are two commands; expiry under a slow handler; unlock by anybody; answers that do not use `res.json`; commands sent twice | a storage key runs again only for an overlap or a lost response; a replay is the answer to a request with the same key, path and request id; locks are given back | `Idempotency`, `IdempotentService`, `Purchase` |
| Product service and cache (`product.service.ts`) | `Product` rows; `product:<id>` (120 s), `products:<query>` (60 s) | list, get, create, update, delete | fills that raced with writes; a lagging replica in every check; two queries per listing | pages are stale only in known windows and not for ever; ownership and deletion hold | `ProductCatalog` |
| Auth service (`auth.service.ts`, `jwt.ts`) | `User` rows; one refresh token per user in Redis | register, login, refresh, logout | several devices overwrite one key; check and write are separate awaits | a logout sticks; somebody holds the stored token | `AuthSession` |
| Chat (`chat.service.ts`, `chat.socket.ts`, `socketServer.ts`) | `ChatMessage` rows; rooms in the memory of each node | connect, join, leave, send, page of messages | save, then emit; clients join and fetch meanwhile; several nodes | no gap between the page and the live messages | `ChatRoom` |
| Primary, replica, locks (Prisma) | committed rows, locks, connections | commit, rollback, replicate | as above | external, inside `Checkout`, `ProductCatalog`, `AuthSession` | |
| Redis client | keys with a time to live | GET, SET, SETEX, SET NX, DEL | expiry, errors, reconnects | external, inside `Idempotency`, `ProductCatalog`, `AuthSession`, `ServerProcess` | |
| Request pipeline (`app.ts`, error and validation middleware) | none | order of middleware | decides what the idempotency fingerprint contains and which answers are stored | | part of `Idempotency`, `Purchase` |
| Stripe payments (`stripe.ts`) | PaymentIntents | create | succeeds although the order is rolled back | | part of `Checkout` |
| Seller service (`seller.service.ts`) | `stripeAccountId` of the user | onboard, dashboard | the row decides, two Stripe calls before it is written | one Stripe account per seller, and the link is for it, unless requests overlap or fail | `SellerOnboarding` |
| Start and shutdown (`server.ts`, `tracing.ts`) | connections, a timer, two signal handlers | start, SIGTERM, SIGINT | two handlers and a timer race with requests and jobs | a complete shutdown cuts nothing; a signalled process ends | `ServerProcess` |
| Health endpoint (`health.ts`) | none | GET /health | concurrent checks that may fail, and wait while Redis is away | every probe is answered once Redis replies | `ServerProcess` |
| Rate limiter (`rateLimiter.middleware.ts`) | counters in Redis | count, reject | two limiters share keys | | the 429s are in `Idempotency` and `Purchase`; section 8 |
| Circuit breaker, retry helper, feature flags | | | no caller | | section 8 |
| Metrics, logging, configuration, errors, mappers | little or none | | | | section 8 |

Components interact as follows. `createOrder` takes row locks that a product
update waits for, and changes rows the catalogue has cached without telling it;
it emits `ORDER_CREATED`, whose handler adds a job that the worker consumes. The
idempotency middleware wraps every mutation, `createOrder` included, and stores
whatever goes through `res.json`, errors too: a buyer's view of the two together is
`Purchase`. A process that ends cuts its requests and leaves the job in its hand to the
other workers. Sessions, limits, cache, locks and
queue share one Redis.

## 2. Modules

| Module | Role |
|---|---|
| `StockLedger` | abstract specification: orders and stock move together |
| `Checkout` | `createOrder` step by step, with locks, pool, Stripe, queue and sellers |
| `CheckoutProofs` | inductive invariant, refinement of `StockLedger`, stability of locked rows, waits for locks |
| `IdempotentService` | abstract specification: a request gets its own result, the answer of an earlier one with its key, path and request id, or a refusal |
| `Idempotency`, `IdempotencyProofs` | the middleware and its Redis commands; it implements `IdempotentService` |
| `Purchase` | composition: `Checkout` is the handler behind `Idempotency` |
| `PurchaseProofs` | `Purchase` implements both, and what holds of the two together |
| `ProductCatalog`, `ProductCatalogProofs` | the product service, primary, replica and cache |
| `AuthSession`, `AuthSessionProofs` | the sessions of one account |
| `ChatRoom`, `ChatRoomProofs` | one chat room over several nodes |
| `SellerOnboarding`, `SellerOnboardingProofs` | Stripe accounts of sellers |
| `JobQueue` | abstract specification: a job is delivered until one delivery is completed, or too many are lost |
| `ServerProcess`, `ServerProcessProofs` | start, shutdown, job delivery and health of several processes; implements `JobQueue` |
| `MCCheckout`, `MCIdempotency`, ... | values of the constants and symmetry sets for TLC |

Every action is what one process does between two awaits, or what a service it
calls does between two of its answers. Three conventions hold everywhere:

- **Reading the database.** A query of the primary sees the committed state. A
  query of the replica sees a prefix of the commits; `Replicate` extends it.
- **Failure.** "The query fails", "the answer is lost" and "the process dies" end
  a request at any of its steps, with the effects it had so far. The state that
  outlives it is what Redis, PostgreSQL and Stripe hold.
- **Mutants.** A definition preceded by the comment `Mutant of X` is a plausible
  bug in the code of `X`. No specification uses it. Substituted for `X`, it breaks
  the property it is listed with: the property says something about the code.

### Checkout

| State | Code |
|---|---|
| `pc[r]` | the await at which `createOrder` stands for request `r`, then its answer |
| `cart[r]` | the body `createOrderSchema` accepted: lines in order, repetitions allowed |
| `tx[r]`, `done[r]`, `written[r]` | the `$transaction` of `order.service.ts:31`, the iterations of the loop at :49, and the row images its UPDATEs computed |
| `stock`, `updates` | the committed column; updates so far, bounded by `MaxUpdates` |
| `intents` | requests with a PaymentIntent at Stripe |
| `job[r]` | the job, from `emit` to the worker |

`LoadProducts` and `RejectUnknown` are the two sides of the count check (:24). The
check compares the number of *distinct* rows with the number of *lines*, and that
is what keeps a repeated product out of the loop. `DecrementStock` is one iteration:
it waits for the row lock and computes from the committed value, as `SET stock =
stock - n` does under READ COMMITTED. The locks are derived: the products of the
first `done[r]` lines, while the transaction is open. `DeadlockVictim` is PostgreSQL's
deadlock detection: it aborts an order that is in a circle of waits (`InCircularWait`), and no other. `TransactionExpires` is
Prisma's five-second timeout or a lost connection. It may come during the
Stripe call, and then `createOrder` notices only at COMMIT. `Emit` is the event bus,
which calls the handler in the same turn, so that `orderQueue.add` is under way when `emit`
returns; `OrderQueue` is what the queue holds, and `ProcessJob` the worker. `CommitFails` covers both
that case and a COMMIT whose acknowledgement is lost: the buyer gets 500 and the order exists.
A 500 therefore promises nothing, and no property says it does.

Prices and totals are left out: nothing that happens to an order depends on them.

### Idempotency

`phase[a]` follows one HTTP request; a retry is an attempt of its own. `KeyOf` is
`key` plus the fingerprint (`idempotency.middleware.ts:17-23`): path, request
id, and a body that is always `undefined` because the JSON parser is mounted later. The method
is no part of it: two requests of different methods on one path may share their storage key, and the runs have
such a pair (`Delete`, `Patch`). A request without `x-request-id` gets a fresh id (`requestId.middleware.ts`), so its own
name stands for it.

Which requests have what behind `next()` is given by constants: `Routes` are the endpoints
(method and path) with a handler, `Silent` those whose success is sent by `res.send`
(`DELETE /products/:id`), `Limited` those behind `authLimiter`. `Outcomes(a)` follows: "error" always (the 404 of
`notFound`, a parser, another limiter, a handler), "effect" on a route, "limited" behind `authLimiter`. `UsesJson` says
which of them pass the intercepted `res.json`: not the success of a silent route, and not the 429 of
`authLimiter`, whose message is a string and is sent by `res.send`. `settling[a]` holds the Redis
commands that the intercepted `res.json` issues without waiting, executed in order but at any later moment.

Three history variables are read by properties only: `lapsed[k]` counts how often the lock ended under its holder or an
error of Redis let an attempt past it,
`met[a]` holds the attempts under way when `a` found no response, `forgotten` the storage keys
whose handler ran without a response being kept. `HandlersOf(k)` are all attempts whose handler was let in under `k`,
`Holding(k)` those of them that took the lock.

`Faults` switches on lock and record expiry, Redis errors, crashes and commands that a
reconnecting client sends twice (`ReplyLost`: Redis has executed the command, its reply
is lost, and the next step of the attempt is the second one). `failures` bounds all but
the expiries. The race run leaves `Faults` empty to show that the race needs none of them.

`IdempotentService` shows what is left when locks and stored responses are hidden: the same
`input`, `outcome` and `answer`, so the refinement mapping is the identity. It does not promise
that requests of one storage key take effect once, because the middleware does not (finding 3): the
module says what each request is told and `SecondRunNeedsOverlap` when it runs again.

### Purchase

`Purchase` extends `Checkout` and instantiates `Idempotency` as `Guard`, with the
requests as its attempts, one path, one route and POST only: that answers by `res.json`, and `authLimiter` is
not before it. A step of the middleware leaves the checkout alone and the other
way round; two steps are joint. `HandlerReturns` is `Execute` of the middleware, with the
outcome that `createOrder` reached: a 201 is an effect, a 404 or 500 an error. `Refuse` is
`Execute` for a request that a limiter, `authenticate` or the schema turns away before
`createOrder`. `ProcessDies` takes middleware and handler down together. The worker of the
queue and the sellers' own updates are left out: they touch nothing the middleware reads, and
an order neither reads nor checks the stock that they write. `Checkout` has them.

### ProductCatalog

The primary is `log`, the versions of all products in commit order; the replica is
a prefix of it. `cache[p]` and the rows of `listing` are indices into it. A version keeps the columns the
service reads to decide: product, owner, `isActive`. All others are data. A GET is
`CacheMiss`, `FetchProduct` or `AnswerNotFound`, `FillCache`; a listing is
`ListingMiss`, `ReadRows`, `CountRows`, `FillListing` (rows and total are two queries,
:58). A PUT or DELETE is `CheckOwner` on the replica, `WriteRow` on the primary,
`DeleteEntry` in Redis. `SellUnit` is a committed order. `excused` is a history
variable: products whose page went stale in one of the windows the code leaves open.

### AuthSession

One account with several devices. A token is the second it was signed
in: the payload is otherwise the same, so two tokens signed in one second *are*
equal strings, and the model keeps that. Each device has one request, from its check to its
answer. `ended`, `late`, `back` and `orphaned` are history variables about the
last logout and about an answer that was lost after the SET.

### ChatRoom

One room. `log[i]` is the node whose handler saved message `i`; `room` and `socket` say
which sockets each node would emit to; `shown[u]` is what reached the client of `u`; `since[u]`,
history, is where `u` began to follow the room without a break. Messages are in
commit order, which `createdAt` is taken to follow. Later pages and
`isRead` are left out.

### SellerOnboarding

| State | Code |
|---|---|
| `seen[r]` | `req.user.stripeAccountId`, as `authenticate` read it from the primary |
| `row[u]` | the column, named by the request whose account it is |
| `accounts` | accounts Stripe has created; nothing deletes one |
| `met[r]` | history: requests of the same user under way when `r` read the row |

From `RejectExisting`, which decides on `seen`, to `RecordAccount`, which overwrites the
row, nothing is locked. `Fail` leaves behind what its step has done: an account without a
row ("abandoned") or a row without a link ("unlinked"; every later request is then a 409).
Requests carry no idempotency key here: with one they are the attempts of `Idempotency`.

### ServerProcess

| State | Code |
|---|---|
| `node[n]` | off; starting: modules imported, worker active, not listening; up |
| `tracing`, `drain[n]` | the SIGTERM handler of `tracing.ts:29` has been called; what `shutdown` (`server.ts:37`) waits for |
| `running[n]` | the job in the worker, which processes one at a time |
| `state[j]`, `lock[j]`, `stalls[j]` | the list of the queue, the lock and the stalled counter in Redis |
| `probe[p]` | the process asked, the checks it waits for, `healthStatus.status`, the answer |
| `rough` | history: exits other than a complete shutdown |

`Signal` is SIGTERM (both handlers) or SIGINT (only the shutdown, and only once it is
registered). `HttpCloses` waits for the requests and may be delayed for ever by websockets,
`WorkerCloses` for the job in hand; `ForceExits` is the timer, `TracingExits` the
`process.exit(0)` of the tracing, which waits for nothing. `Exit` is what they have in common:
requests are cut and a lock stays in Redis. `Stalled` jobs are those active without a worker
that holds their lock; any worker moves them back, or gives them up after `MaxStalled`
(BullMQ's default, 1). `JobQueue` sees of a job only its `Delivery`: an active job is "taken", or
"lost" once nobody works on it under its lock, which happens when a process ends or the lock expires and not when
Redis learns of it. The start never waits for Redis (`connectRedis` swallows its errors)
and ends when the database cannot be reached, which is part of `Crash`. A check of
the database returns or is caught at any time. The two Redis checks, on one connection, are one: an error reply to PING is
caught and makes the answer 503, one to INFO changes only the body, and both wait for as long as Redis is away.

## 3. Runs

All runs set `CHECK_DEADLOCK FALSE`: requests, messages and log are finite, so the
system may stop once everything is answered. That nobody gets *stuck* is checked where it
matters by the liveness properties (`EveryRequestIsAnswered`, `EveryPurchaseIsAnswered`,
`SignalledProcessEnds`, `JobsAreFinished`, `ProbesAreAnswered`).

| Run | Instance | Question and result |
|---|---|---|
| `checkout` | 2 requests, 2 products and an unknown id; carts in opposite orders, with a repeated product, with an unknown one; stock 2; pool 2; 1 seller update | safety, waits that resolve, refinement of `StockLedger` and liveness hold |
| `checkout_oversell` | 2 requests for 2 units each, stock 2 | **violated**: stock becomes negative |
| `checkout_event` | the same | **violated**: a job is processed for an order rolled back |
| `idempotency_safety` | 3 attempts, 1 key: a login that may be limited, twice at least, with a third one that has no request id, or a DELETE and a PATCH on one path (`MCInit`); expiries and one error of Redis, crash or command sent twice | handlers overlap only for locks that lapsed or were bypassed; second runs need an overlap or a lost response; locks have owners; refinement of `IdempotentService` |
| `purchase` | 2 requests for one lamp under one storage key, stock 2, pool 1, expiries and one crash or error of Redis | 201 stands for an order; second payments need an overlap or a lost response; locks are given back; requests are answered |
| `idempotency_race` | 2 attempts with equal key and request id, no faults | **violated**: the key runs twice |
| `catalog` | 2 products, 2 sellers, 1 reader, 2 writers, 3 commits | all safety properties and `EventuallyFresh` |
| `session` | 3 devices, 3 seconds, symmetry | a logout sticks; the stored token is held |
| `chat` | 2 members, 2 nodes, 2 handlers, page of 1, 2 messages, symmetry | no gap on the own node |
| `seller` | 3 requests of one seller, 1 of another, 1 of a buyer, symmetry | second accounts and misplaced links need an overlap or an abandoned request |
| `server` | 2 processes, 3 starts, 1 job, 1 probe, 1 outage of Redis | complete shutdowns cut nothing; losses are accounted for; refinement of `JobQueue`; signals, jobs and probes come to an end |
| `chat_nodes` | 2 members, 2 nodes, 1 handler, 1 message | **violated**: a room does not span nodes |

Why the bounds are enough. Two transactions suffice for lost updates and for a
circular wait. Three attempts are needed for the chain "the lock of the first expires, the
second locks, the first unlocks the second's lock, the third comes in"; one fault besides the
expiries is enough for a response that is not kept, and two would only repeat it. In
`purchase` a request and its retry can each be the one that overtakes; a pool of one makes
the second wait for the first one's transaction. Three
commits are a creation and two writes (an update and a delete in either order, or
a sale), which is what a fill can miss; two writers overlap with each other, and the reader with both.
Three devices let a logout of one overtake the requests of two others, and three seconds give
tokens that differ from both neighbours. A page of one with two messages has a message off
the page, on it and after it. Three onboarding requests give a first, one that overlaps with it
and one that comes after both. Three starts of two processes let a job be lost three
times, once by an outage, which is more than `MaxStalled` allows: the job that is given up
and the late result of a worker that lost its lock both occur. Symmetry is used in runs without liveness only, over
sets whose members no definition distinguishes. The invariants of all components are
also proved without any of these bounds (section 5).

The fault actions are part of `Next` in every passing run, so the states after a failure are
explored too.

## 4. Fairness

Only progress that the code or the platform owes is assumed, always as weak
fairness of a step that stays possible:

- `Checkout`: `Progress(r)`: a request that can do *something* does it (every
  await in `createOrder` ends, in an answer or an error: Prisma has `maxWait` and
  a timeout, PostgreSQL aborts deadlocks). `EnqueueJob`, `ProcessJob`: Redis
  answers and the worker consumes its queue. No fairness for `Submit`,
  `TransactionExpires`, `Crash` or `UpdateProduct`.
- `Purchase`: `Serving(r)`: the process of a request goes on with it, in the middleware or in
  `createOrder`, and Redis replies to what it received, be it with an error. No fairness makes a lock
  time out: `LocksAreGivenBack` is about the DEL. None for `Arrive`, `ProcessDies`, the worker or sellers; no client has to retry.
- `ProductCatalog`: a GET under way goes on; the replica catches up; cache entries
  expire. None for writers: a PUT may stop for ever between its UPDATE and its DEL
  and the page must still become fresh. The premise "once the writes stop" is the
  bound `MaxLog`.
- `ServerProcess`: `Exits(n)`: the timer fires and the exporter settles or times out.
  `WorkerStep(n)`, `HealthStep(p)`: what has its answer goes on. None for `HttpCloses`
  and `WorkerCloses` (connections may stay open), for `Start` (`docker-compose.yml` restarts nothing)
  and for `RedisReturns`: that Redis is there for good, and a worker runs, are
  premises of the properties that need it.

## 5. Proofs

TLAPS proves the following for every value of the constants that satisfies the
named assumptions of each module (sets of any size, any stock, pool, clock, page
size). The assumptions are those of the schemas (a cart has at least one line,
with positive quantities) and of typing (bounds are naturals, `Absent` and `Off` are
nothing else), and that the requests of a run are finitely many (`RequestsAssumption`,
`AttemptsAssumption`).

- **Checkout** (`CheckoutInvariant`, `OrdersAreComplete`, `AnswersMatchOutcomes`, `LockedStockStable`,
  `CheckoutImplementsLedger`, `WaitsResolved`). A commit installs row images that were computed earlier, so
  the refinement needs `WrittenFromStock`: each image is *still* the
  committed stock less what the cart buys. It is kept because nobody changes the
  stock of a locked row, for which `LocksExclusive` is needed, which in turn needs each
  transaction to name a product once (`ValidCart`). That is what the count check
  establishes: lemma `CountCheck` proves it from the pigeonhole principle on finite
  sets, because the check only compares two numbers. `WaitsResolved` is the safety half of "nobody
  waits for ever", which itself stays with TLC: any set of requests that the waits do not lead out of, with a
  waiting one in it, has one that can take its next step. Either one of the set holds a lock and waits for nobody, and it
  is inside its transaction because locks are held there only; or all that can be reached wait for each other, and then a
  *smallest* such set (`WFMin` over the strict subset order) leaves out nobody, so that
  each of its members is waited for too: a circle that deadlock detection finds
  (`EntangledIsCircular`).
- **Idempotency** (`LockInvariant`, `OverlapBounded`, `ReplayInvariant`, `ReplaysAreFaithful`,
  `RunInvariant`, `SecondRunsOverlap`, `MiddlewareInvariant`, `LocksAreOwned`, `LockExcludes`,
  `HandlersExclude`, `MiddlewareImplementsService`). `OverlapBoundedByLapses`
  is a count: handlers let in under `k` <= (1 if locked) + lapses. Taking the
  lock adds one to both sides, and so does bypassing it, an expiry or a DEL whose reply is lost moves one from the lock to the
  count, and an unlock removes a handler and possibly a lock that is not its own;
  the bound survives all of them because the unlocking attempt was itself counted
  (`GuardedRan`). `ReplayInv` says that a stored response is what its attempt
  sent under that very key. `RunInv` is about time: an attempt that has run left a record, or its
  key is `forgotten`, so whoever looks up later finds the one or is excused by the other, and
  whoever looks up earlier is still under way and is met. `MiddlewareInv` is the three
  together. The refinement of `IdempotentService` needs them all: a replay is the answer of a
  request with the same key, path and request id because these are what a storage key consists of (`KeyOf`; an attempt without a
  request id shares its key with nobody), and the record is what its attempt was sent, and whoever is refused
  or sent a replay has not run (`RunInv`).
  `LocksHaveOwners` is inductive next to `LockInv`: a step that ends the holding of an attempt gives the lock
  back, or is one of the exceptions the property names. Two theorems say what the lock is
  good for, with assumptions on the faults that a deployment may meet: if no lock
  expires and no command is sent twice, it has one holder (`LockExcludes`, from an invariant of its own,
  `Exclusive`: whoever holds it has it locked, and
  nobody else does); if crashes are the only faults, handlers of one key never overlap (`HandlersExclude`, because
  only an error of Redis lets a request past the lock). Neither contradicts finding 3, which runs
  the handlers one after the other.
- **Purchase** (`PurchaseIsGuarded`, `PurchaseIsCheckout`, `PurchaseInvariant`, `ConfirmedOrders`,
  `SecondPaymentsOverlap`, `SecondOrdersOverlap`, `PurchasesKeepTheLedger`, `PurchasesResolveWaits`,
  `PurchasesImplementService`, `CheckoutsExclude`). The first two are refinements: every step of the
  composition is a step or a stutter of each part, so the theorems about `Idempotency`
  are instantiated (`INSTANCE IdempotencyProofs WITH Attempts <- Requests`) and
  those about `Checkout` cited: purchases keep the stock ledger, resolve their waits and
  are an idempotent service. `PurchaseInv` ties the two states together: `createOrder` has not
  begun while the middleware looks up or locks, is under way only while the middleware runs its handler, and a
  PaymentIntent means that its request has entered (`Entered`) or is forgotten, which turns "ran
  twice" into "paid twice", and, an order being complete, into "ordered twice". With crashes as the only faults a
  request and its retry are never in `createOrder` at once (`CheckoutsExclude`).
- **ProductCatalog** (`CatalogInvariant`, `CachedRows`, `StalePages`, `Resurrection`, `Owners`,
  `Snapshots`). Requests in flight
  hold indices of a log that only grows. The lemmas say how `Latest` and
  `ActiveRows` change when a version is appended: for one product only, and not
  at all for earlier moments. `OwnerIsConstant` makes the check on the replica
  as good as one on the primary.
- **AuthSession** (`SessionInvariant`, `LogoutIsFinal`, `StoredTokenIsHeld`). The
  history variables turn "overtaken" into state: a request under way that no logout overtook,
  not a login, and seen while logged out, must have found a token that a late request
  had brought back (`ChecksFollowTheToken`).
- **ChatRoom** (`RoomInvariant`, `RoomHasNoGap`). The page and the live messages must
  overlap from the moment the page is *read*, not answered:
  `FetchLeavesNoGap` carries that across the answer.
- **SellerOnboarding** (`OnboardingInvariant`, `SecondAccounts`, `LinksAreForTheRow`). Two
  requests that both read a row without an account have met (`BlindReadersMeet`): if the one
  had recorded its account before the other read, the other would have seen it, because a row
  never loses its account (`AccountsFollowTheRow`). The exception, a request that failed
  before the row, is the "abandoned" of the theorem.
- **ServerProcess** (`ServerInvariant`, `DrainedProcesses`, `LossesAreAccounted`,
  `WorkersImplementQueue`). A count
  again: losses of a job <= rough exits + outages. An outage is charged when it
  begins and takes a lock later, so the invariant keeps one in hand for every job that is
  not lost yet while Redis is away. A complete shutdown adds nothing because
  its worker has nothing in hand (`DrainedIsEmpty`). The refinement of `JobQueue` is by
  step: an exit or an expired lock is `Lose`, though the variables of the job stay as they are, because
  `Delivery` is derived from lock and worker; the late end of a worker that lost its lock is a stutter.

Each proof has one step per action. Some results are proved without a run of their own, because they follow
from what a run checks (`ReplaysAreFaithful`, `SecondOrdersOverlap`, `PurchasesImplementService` and the parts
of `MiddlewareInv`) or assume fewer faults than the runs have (`LockExcludes`, `HandlersExclude`,
`CheckoutsExclude`). What stays with TLC: the
liveness properties (`EveryRequestIsAnswered`, `CommittedOrderIsProcessed`,
`LocksAreGivenBack`, `EveryPurchaseIsAnswered`, `EventuallyFresh`, `SignalledProcessEnds`,
`JobsAreFinished`, `ProbesAreAnswered`), which need
fairness and ENABLED, and of course the violated properties.

## 6. Findings

1. **Stock is oversold.** `order.service.ts:52` decrements without a condition, while
   `product.schema.ts:9` declares stock non-negative (`checkout_oversell`).
2. **An order that does not exist is processed.** `ORDER_CREATED` is emitted before COMMIT
   (`order.service.ts:64`, `checkout_event`).
3. **A key can execute twice.** The stored response is looked up before the lock is taken and not
   again after (`idempotency.middleware.ts:26`), against `README.md:32`
   (`idempotency_race`).
4. **A room does not span nodes.** Rooms stay in the memory of a node
   (`chat.socket.ts:19`), against `README.md:40` (`chat_nodes`).

Observed while modelling, without a run of their own:

- SIGTERM does not drain: the handler of the tracing exits with code 0 as soon as its exporter
  is flushed (`tracing.ts:33`), while `README.md:34` announces a drain window of ten seconds. In
  `ServerProcess` this is `TracingExits`, and it counts as rough. Only a SIGINT is drained. The database
  connections are not closed at all (`disconnectDatabase` has no caller).
- The image starts `dist/app.js` (`Dockerfile:34`), which listens on no port; `npm start`
  runs `dist/server.js`.
- While Redis is away `GET /health` hangs instead of answering 503 (`health.ts:30`): the catch is reached by an error
  reply only. Everything else that asks Redis hangs too, so `ProbesAreAnswered` has its premise and
  `EveryPurchaseIsAnswered` holds for a Redis that replies.
- The comment of `idempotency.middleware.ts:17` says that the fingerprint keeps a key from being reused for different data. It
  contains neither the body (not parsed yet) nor the method: a request with another body, or another method on the same
  path, under the same key and request id is sent the stored answer.
- The 429 of `authLimiter` and the 204 of `DELETE /products/:id` do not pass `res.json`: nothing is stored, and the
  lock stays for up to 30 s, in which a retry is told 409. This is the exception in `LocksHaveOwners`.
- A retry with the same key but without `x-request-id` has another storage key and runs (and pays) again.
- A seller whose onboarding link could not be created is answered 409 from then on
  (`seller.service.ts:16`), and so is one who comes back by `refresh_url` for another link.
- No code moves an order on from `PENDING`: the revenue and the pending orders of the seller's
  dashboard, which count `PAID` orders, stay at zero.
- Errors are stored like results. This keeps a retry after a 500 from paying twice
  (`SecondPaymentNeedsOverlap`), and also repeats a passing failure for a day.

Hazards that no property covers yet are listed with the reason in `PROJECT.json`. The main
ones: a PaymentIntent that outlives its rolled-back order, retries without a request id, both
rate limiters counting in the same keys.

## 7. Abstractions

- Commands of Redis are atomic. Its data survives an outage: neither append-only
  file nor failover is configured, and none is modelled.
- The worker of the queue handles one job at a time and never throws (`OrderWorker.process`
  has nothing that can fail), so `attempts: 3` never counts.
- The hash of the fingerprint is injective, and the request ids made by the server differ from each other and from those of clients.
- The shutdown does not know of commands that nobody awaits (`orderQueue.add`, SETEX, DEL): they are not part of
  what `DrainedIsEmpty` calls in flight.
- The ten seconds of the shutdown timer, the lock of a job and the interval of the stalled check are not
  measured: each may end at any time.
- A response is named by the attempt that sent it, a message by its place in the log,
  a token by its second.
- One listing query stands for all. Filters, sorting and paging choose among rows
  and are data.
- Product ids and message ids are never reused; e-mail addresses are one per account.
- Members of a room do not change: no code of the service removes one.

## 8. Not modelled

Nothing in `src/` calls the circuit breaker (`stripe.client.ts`), the retry helper (`retry.ts`) or
the setter of the feature flags, and the one flag that is read guards an empty block: they have no
behaviour in the running system. The rate limiter is two option objects for
`express-rate-limit` and `rate-limit-redis`; the counting is theirs. Metrics, logging and
the tracing exporter keep nothing the system reads back.
Configuration, the container and the API docs run once or are generated. Errors,
mappers, DTOs and interfaces are stateless shapes, and the error classes appear as kinds of
answers. Schema validation appears as the assumption on carts. The dashboard of a seller and
the lists of orders, rooms and users only read, and each is one query or a few whose answers
nothing else depends on.

## 9. Plan

1. `isRead` in `ChatRoom`: what `updateMany` marks that was not on the page, and several rooms.
2. `RateLimiter`: the two limiters over one keyspace with different windows, as an
   action of the auth routes in `AuthSession`: how many logins an address really has.
3. `ServerProcess` with `Purchase`: a drain while an order is in its transaction, in place of the
   health probe, to state what a buyer sees of a deployment.
4. More refinements: an abstract session store implemented by `AuthSession`, an abstract
   register by `ProductCatalog`. (`StockLedger`, `IdempotentService` and `JobQueue` are done.)
5. `ServerProcess` without rough exits and outages: that no job is then lost, as a corollary of the count.
