------------------------------- MODULE Checkout -------------------------------
(***************************************************************************)
(* POST /orders, from the request to the background job: the order service *)
(* looks the products up on the replica, opens a transaction on the        *)
(* primary, creates the order, decrements the stock line by line, calls    *)
(* Stripe while the transaction is open, emits ORDER_CREATED and commits.  *)
(* Requests run concurrently: they share the row locks of the primary, the *)
(* connection pool and the order queue. Prices are left out: what an order *)
(* costs decides nothing that happens to it.                               *)
(***************************************************************************)
EXTENDS Integers, Sequences, FiniteSets

CONSTANTS
  Requests,      \* POST /orders requests
  ProductIds,    \* product ids a buyer may name
  Products,      \* the ids that are rows of the Product table
  Carts,         \* request bodies: sequences of [product, quantity]
  Restocks,      \* stock levels a seller may write
  InitialStock,  \* the stock column at the start
  PoolSize,      \* connections of the primary's pool
  MaxUpdates     \* bound: how many times sellers update a product

Lines == [product : ProductIds, quantity : Nat \ {0}]

\* createOrderSchema: at least one line, each with a positive quantity.
ASSUME CartsAssumption == Carts \subseteq Seq(Lines) \ {<<>>}

ASSUME ProductsAssumption == /\ Products \subseteq ProductIds
                             /\ InitialStock \in [Products -> Nat]
                             /\ Restocks \subseteq Nat

ASSUME BoundsAssumption == PoolSize \in Nat \ {0} /\ MaxUpdates \in Nat

ASSUME RequestsAssumption == IsFiniteSet(Requests)

VARIABLES
  pc,        \* pc[r]: where createOrder stands for the request r
  cart,      \* cart[r]: the validated body, <<>> before the request
  done,      \* done[r]: iterations of the decrement loop that have finished
  tx,        \* tx[r]: the interactive transaction of r
  written,   \* written[r][p]: the row image the transaction of r wrote
  stock,     \* committed stock column on the primary
  updates,   \* number of product updates so far
  intents,   \* requests for which Stripe holds a PaymentIntent
  job        \* job[r]: the 'process-new-order' job of r

requestVars == <<pc, cart, done, tx, written, intents, job>>
rowVars     == <<stock, updates>>
vars        == <<requestVars, rowVars>>

Answered == {"created", "notFound", "failed"}
Ended    == Answered \cup {"crashed"}
InTransaction == {"reserving", "paying", "committing"}

TypeOK ==
  /\ pc \in [Requests -> {"idle", "submitted", "loaded"} \cup InTransaction \cup Ended]
  /\ cart \in [Requests -> Carts \cup {<<>>}]
  /\ done \in [Requests -> Nat]
  /\ tx \in [Requests -> {"none", "open", "committed", "rolledBack"}]
  /\ written \in [Requests -> [Products -> Int]]
  /\ stock \in [Products -> Int]
  /\ updates \in Nat
  /\ intents \subseteq Requests
  /\ job \in [Requests -> {"none", "adding", "queued", "processed", "lost"}]

Init ==
  /\ pc = [r \in Requests |-> "idle"]
  /\ cart = [r \in Requests |-> <<>>]
  /\ done = [r \in Requests |-> 0]
  /\ tx = [r \in Requests |-> "none"]
  /\ written = [r \in Requests |-> InitialStock]
  /\ stock = InitialStock
  /\ updates = 0
  /\ intents = {}
  /\ job = [r \in Requests |-> "none"]

-----------------------------------------------------------------------------
(* Row locks of the primary, held from the UPDATE to the end of the        *)
(* transaction.                                                            *)

Locked(r) == IF tx[r] = "open" THEN {cart[r][i].product : i \in 1..done[r]} ELSE {}

\* Mutant of LockedByOther: the stock is computed without a lock on its row.
LockedByNobody(r, p) == FALSE

LockedByOther(r, p) == \E s \in Requests \ {r} : p \in Locked(s)

\* The line the decrement loop of r is at.
CurrentLine(r) == cart[r][done[r] + 1]

WaitsFor(r, s) == /\ pc[r] = "reserving" /\ tx[r] = "open"
                  /\ r # s
                  /\ CurrentLine(r).product \in Locked(s)

Waiting(r) == \E s \in Requests : WaitsFor(r, s)

\* A set of transactions that wait for each other, r among them.
InCircularWait(r) ==
  \E S \in SUBSET Requests :
    /\ r \in S
    /\ \A s \in S : /\ \E t \in S : WaitsFor(s, t)
                    /\ \E t \in S : WaitsFor(t, s)

OpenTransactions == {r \in Requests : tx[r] = "open"}

GoTo(r, label) == pc' = [pc EXCEPT ![r] = label]

\* Mutant of Rollback: an error leaves the transaction open, with its locks.
RollbackForgotten(r) == UNCHANGED tx

\* The transaction of r ends without effect, if it has not ended already.
Rollback(r) == tx' = [tx EXCEPT ![r] = IF @ = "open" THEN "rolledBack" ELSE @]

-----------------------------------------------------------------------------
(* The request.                                                            *)

Submit(r) ==
  /\ pc[r] = "idle"
  /\ \E c \in Carts : cart' = [cart EXCEPT ![r] = c]
  /\ GoTo(r, "submitted")
  /\ UNCHANGED <<done, tx, written, intents, job, rowVars>>

\* productRepository.findMany({ id: { in: ids } }): one row per distinct known id.
Found(r) == {cart[r][i].product : i \in DOMAIN cart[r]} \cap Products

LoadProducts(r) ==
  /\ pc[r] = "submitted"
  /\ Cardinality(Found(r)) = Len(cart[r])
  /\ GoTo(r, "loaded")
  /\ UNCHANGED <<cart, done, tx, written, intents, job, rowVars>>

RejectUnknown(r) ==
  /\ pc[r] = "submitted"
  /\ Cardinality(Found(r)) # Len(cart[r])
  /\ GoTo(r, "notFound")
  /\ UNCHANGED <<cart, done, tx, written, intents, job, rowVars>>

\* The replica fails the query, the primary fails BEGIN, or no connection comes
\* free within maxWait.
FailBeforeTransaction(r) ==
  /\ pc[r] \in {"submitted", "loaded"}
  /\ GoTo(r, "failed")
  /\ UNCHANGED <<cart, done, tx, written, intents, job, rowVars>>

\* BEGIN, then tx.order.create.
OpenTransaction(r) ==
  /\ pc[r] = "loaded"
  /\ Cardinality(OpenTransactions) < PoolSize
  /\ tx' = [tx EXCEPT ![r] = "open"]
  /\ GoTo(r, "reserving")
  /\ UNCHANGED <<cart, done, written, intents, job, rowVars>>

\* One iteration of the loop: UPDATE "Product" SET stock = stock - quantity
\* takes the row lock, and computes from the latest committed row.
DecrementStock(r) ==
  LET line == CurrentLine(r)
  IN  /\ pc[r] = "reserving" /\ tx[r] = "open"
      /\ ~LockedByOther(r, line.product)
      /\ written' = [written EXCEPT
           ![r][line.product] = stock[line.product] - line.quantity]
      /\ done' = [done EXCEPT ![r] = @ + 1]
      /\ GoTo(r, IF done[r] + 1 = Len(cart[r]) THEN "paying" ELSE "reserving")
      /\ UNCHANGED <<cart, tx, intents, job, rowVars>>

\* Postgres aborts a transaction of a circular wait; its UPDATE throws.
DeadlockVictim(r) ==
  /\ InCircularWait(r)
  /\ Rollback(r)
  /\ GoTo(r, "failed")
  /\ UNCHANGED <<cart, done, written, intents, job, rowVars>>

\* Prisma closes a transaction at its timeout, a lost connection at any time;
\* createOrder learns of it at its next query.
TransactionExpires(r) ==
  /\ tx[r] = "open"
  /\ Rollback(r)
  /\ UNCHANGED <<pc, cart, done, written, intents, job, rowVars>>

AbortReservation(r) ==
  /\ pc[r] = "reserving" /\ tx[r] = "rolledBack"
  /\ GoTo(r, "failed")
  /\ UNCHANGED <<cart, done, tx, written, intents, job, rowVars>>

\* stripe.paymentIntents.create reaches Stripe, whatever became of the transaction.
StripeAccepts(r) ==
  /\ pc[r] = "paying"
  /\ r \notin intents
  /\ intents' = intents \cup {r}
  /\ UNCHANGED <<pc, cart, done, tx, written, job, rowVars>>

\* Mutant of StripeReplies: ORDER_CREATED is not emitted.
StripeRepliesSilently(r) ==
  /\ pc[r] = "paying"
  /\ r \in intents
  /\ GoTo(r, "committing")
  /\ UNCHANGED <<cart, done, tx, written, intents, job, rowVars>>

\* emit calls the handler of ORDER_CREATED in the same turn of the event loop:
\* orderQueue.add is under way when emit returns.
Emit(r) == job' = [job EXCEPT ![r] = "adding"]

\* The intent comes back: ORDER_CREATED is emitted, and the callback returns to
\* be committed.
StripeReplies(r) ==
  /\ pc[r] = "paying"
  /\ r \in intents
  /\ Emit(r)
  /\ GoTo(r, "committing")
  /\ UNCHANGED <<cart, done, tx, written, intents, rowVars>>

\* The call is refused or its answer lost: the callback throws, Prisma rolls back.
StripeFails(r) ==
  /\ pc[r] = "paying"
  /\ Rollback(r)
  /\ GoTo(r, "failed")
  /\ UNCHANGED <<cart, done, written, intents, job, rowVars>>

CommitTransaction(r) ==
  /\ pc[r] = "committing" /\ tx[r] = "open"
  /\ tx' = [tx EXCEPT ![r] = "committed"]
  /\ stock' = [p \in Products |-> IF p \in Locked(r) THEN written[r][p] ELSE stock[p]]
  /\ UNCHANGED <<pc, cart, done, written, intents, job, updates>>

\* Mutant of AnswerCreated: the transaction is not awaited.
AnswerCreatedUnawaited(r) ==
  /\ pc[r] = "committing"
  /\ GoTo(r, "created")
  /\ UNCHANGED <<cart, done, tx, written, intents, job, rowVars>>

AnswerCreated(r) ==
  /\ pc[r] = "committing" /\ tx[r] = "committed"
  /\ GoTo(r, "created")
  /\ UNCHANGED <<cart, done, tx, written, intents, job, rowVars>>

\* COMMIT throws: the transaction was closed, or the acknowledgement got lost.
CommitFails(r) ==
  /\ pc[r] = "committing" /\ tx[r] # "open"
  /\ GoTo(r, "failed")
  /\ UNCHANGED <<cart, done, tx, written, intents, job, rowVars>>

\* A process still works on r.
InProcess(r) == pc[r] \notin {"idle"} \cup Ended \/ job[r] = "adding"

\* The process serving r dies: its transaction is rolled back and what it
\* had not handed to Redis is gone.
Crash(r) ==
  /\ InProcess(r)
  /\ pc' = [pc EXCEPT ![r] = IF @ \in Ended THEN @ ELSE "crashed"]
  /\ job' = [job EXCEPT ![r] = IF @ = "adding" THEN "lost" ELSE @]
  /\ Rollback(r)
  /\ UNCHANGED <<cart, done, written, intents, rowVars>>

-----------------------------------------------------------------------------
(* The order queue, and the sellers.                                       *)

EnqueueJob(r) ==
  /\ job[r] = "adding"
  /\ job' = [job EXCEPT ![r] = "queued"]
  /\ UNCHANGED <<pc, cart, done, tx, written, intents, rowVars>>

\* What 'order-queue' holds in Redis.
OrderQueue == {r \in Requests : job[r] = "queued"}

ProcessJob(r) ==
  /\ r \in OrderQueue
  /\ job' = [job EXCEPT ![r] = "processed"]
  /\ UNCHANGED <<pc, cart, done, tx, written, intents, rowVars>>

\* Mutant of UpdateProduct: the seller's write does not wait for the row lock.
UpdateProductUnlocked(p) ==
  /\ updates < MaxUpdates
  /\ \E units \in Restocks : stock' = [stock EXCEPT ![p] = units]
  /\ updates' = updates + 1
  /\ UNCHANGED requestVars

\* ProductService.updateProduct reaches the primary: one UPDATE with the
\* columns of the body, which waits for the row lock.
UpdateProduct(p) ==
  /\ updates < MaxUpdates
  /\ \A r \in Requests : p \notin Locked(r)
  /\ \E units \in Restocks : stock' = [stock EXCEPT ![p] = units]
  /\ updates' = updates + 1
  /\ UNCHANGED requestVars

-----------------------------------------------------------------------------
Progress(r) ==
  \/ LoadProducts(r) \/ RejectUnknown(r) \/ FailBeforeTransaction(r)
  \/ OpenTransaction(r) \/ DecrementStock(r) \/ DeadlockVictim(r)
  \/ AbortReservation(r) \/ StripeAccepts(r) \/ StripeReplies(r) \/ StripeFails(r)
  \/ CommitTransaction(r) \/ AnswerCreated(r) \/ CommitFails(r)

Next ==
  \/ \E r \in Requests : \/ Submit(r) \/ Progress(r)
                         \/ TransactionExpires(r) \/ Crash(r)
                         \/ EnqueueJob(r) \/ ProcessJob(r)
  \/ \E p \in Products : UpdateProduct(p)

Fairness == \A r \in Requests : /\ WF_vars(Progress(r))
                                /\ WF_vars(EnqueueJob(r))
                                /\ WF_vars(ProcessJob(r))

Spec == Init /\ [][Next]_vars
FairSpec == Spec /\ Fairness
-----------------------------------------------------------------------------
(* Properties.                                                             *)

\* The order of r, once its transaction has committed.
Placed(r) == IF tx[r] = "committed" THEN cart[r] ELSE <<>>

Ledger == INSTANCE StockLedger WITH placed <- [r \in Requests |-> Placed(r)]

\* What the product query establishes of the cart c: distinct, existing products.
ValidCart(c) == /\ Ledger!OneLinePerProduct(c)
                /\ \A i \in DOMAIN c : c[i].product \in Products

\* What is known of a request at each label of createOrder.
PhaseOK(r) ==
  /\ pc[r] # "idle" => cart[r] \in Carts
  /\ pc[r] \in {"loaded"} \cup InTransaction \/ tx[r] # "none" => ValidCart(cart[r])
  /\ done[r] <= Len(cart[r])
  /\ tx[r] = "open" => pc[r] \in InTransaction
  /\ pc[r] \in {"idle", "submitted", "loaded", "notFound"} =>
       tx[r] = "none" /\ done[r] = 0 /\ r \notin intents /\ job[r] = "none"
  /\ pc[r] \in InTransaction => tx[r] # "none"
  /\ pc[r] \in {"reserving", "paying"} => tx[r] # "committed"
  /\ pc[r] = "reserving" => done[r] < Len(cart[r])
  /\ pc[r] \in {"paying", "committing"} => done[r] = Len(cart[r])
  /\ pc[r] = "committing" => r \in intents /\ job[r] # "none"
  /\ tx[r] = "committed" => /\ done[r] = Len(cart[r])
                            /\ r \in intents
                            /\ job[r] # "none"
  /\ pc[r] = "created" => tx[r] = "committed"

\* No row is locked by two transactions.
LocksExclusive ==
  \A r, s \in Requests : r # s => Locked(r) \cap Locked(s) = {}

\* A transaction holds, for each row it locked, the committed stock less the
\* units its cart buys of it: the row cannot have moved since.
WrittenFromStock ==
  \A r \in Requests : \A p \in Locked(r) :
    written[r][p] = stock[p] - Ledger!Units(cart[r], p)

\* Inductive: why a commit may install the images its UPDATEs computed earlier.
CheckoutInv == /\ TypeOK
               /\ \A r \in Requests : PhaseOK(r)
               /\ LocksExclusive
               /\ WrittenFromStock

\* The checkout implements the stock ledger: however transactions, Stripe
\* calls, seller updates and crashes interleave, an order and the decrement of
\* every one of its lines appear in one step, and no decrement or restock is lost.
ImplementsLedger == Ledger!LedgerSpec

\* An order that exists has had every line decremented, was accepted by Stripe
\* and its ORDER_CREATED was emitted, so that its job is being added, was added or got
\* lost with the process: no order is visible with a step of createOrder missing.
CommittedOrderIsComplete ==
  \A r \in Requests : tx[r] = "committed" =>
    done[r] = Len(cart[r]) /\ r \in intents /\ job[r] # "none"

\* A buyer who gets 201 has an order; one who gets 404 has nothing, not even a
\* PaymentIntent. (A 500 promises neither: see the README.)
AnswerMatchesOutcome ==
  \A r \in Requests :
    /\ pc[r] = "created" => tx[r] = "committed"
    /\ pc[r] = "notFound" => tx[r] = "none" /\ r \notin intents /\ job[r] = "none"

\* The transaction of r has a next step: r does not wait for a row, or Postgres
\* ends the wait.
CanStep(r) == pc[r] \in InTransaction /\ (Waiting(r) => InCircularWait(r))

\* Whoever follows the waits for row locks from a waiting order arrives at an order
\* that can take its next step: locks are held by orders in progress only, and carts
\* that lock the same rows in different orders are a circular wait, never a knot
\* that nothing undoes. (S is a set that the waits do not lead out of.)
WaitsAreResolved ==
  \A S \in SUBSET Requests :
    /\ \E r \in S : Waiting(r)
    /\ \A r \in S, s \in Requests : WaitsFor(r, s) => s \in S
    => \E s \in S : CanStep(s)

\* While an order's transaction holds a row, nobody else changes its stock: the
\* seller's UPDATE and other orders wait until the order commits or rolls back.
LockedStockIsStable ==
  [][\A r \in Requests : \A p \in Locked(r) :
       p \in Locked(r)' => stock'[p] = stock[p]]_vars

\* No request waits forever for row locks taken in opposite orders by two carts, nor
\* for a connection where they are scarce: each is answered unless its process dies.
EveryRequestIsAnswered ==
  \A r \in Requests : pc[r] = "submitted" ~> pc[r] \in Ended

\* The job of a committed order does not stay in between: it is eventually processed,
\* or it was lost because the process died between the emit and the reply of Redis.
CommittedOrderIsProcessed ==
  \A r \in Requests : tx[r] = "committed" ~> job[r] \in {"processed", "lost"}

\* VIOLATED. product.schema.ts:9 admits no negative stock; the loop of
\* createOrder decrements without looking at what is left.
StockNonNegative == \A p \in Products : stock[p] >= 0

\* VIOLATED. The handler of ORDER_CREATED says "Order Created" and enqueues the
\* processing of the order; the event is emitted before the COMMIT, which may fail.
ProcessedOrderExists ==
  \A r \in Requests : job[r] = "processed" => tx[r] # "rolledBack"
=============================================================================
