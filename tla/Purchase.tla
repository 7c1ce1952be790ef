------------------------------- MODULE Purchase -------------------------------
(***************************************************************************)
(* POST /orders as a buyer meets it: every request passes the idempotency  *)
(* middleware, and the order service runs as the handler behind next().    *)
(* Requests that share their storage key (the Idempotency-Key header and   *)
(* the request id, the path being one) are a request and its retries.      *)
(***************************************************************************)
EXTENDS Checkout

CONSTANTS
  Keys, RequestIds, Inputs, Faults, MaxFailures, Absent

VARIABLES
  phase, input, guarded, outcome, answer, settling, lock, record, failures,
  lapsed, met, forgotten

OrdersPath == "/api/v1/orders"

\* POST /orders has a handler. It answers with res.json, and authLimiter is not before it.
Guard == INSTANCE Idempotency
           WITH Attempts <- Requests, Paths <- {OrdersPath},
                Routes <- {[method |-> "POST", path |-> OrdersPath]},
                Silent <- {}, Limited <- {}

ASSUME PurchaseAssumption == /\ Absent \notin Requests \cup {"busy", "effect", "error", "limited"}
                             /\ "busy" \notin Requests
                             /\ Requests \cap RequestIds = {}
                             /\ Inputs \subseteq {i \in Guard!Request : i.method = "POST"}
                             /\ MaxFailures \in Nat

guardVars == <<phase, input, guarded, outcome, answer, settling, lock, record,
               failures, lapsed, met, forgotten>>
purchaseVars == <<vars, guardVars>>

PurchaseInit == Init /\ Guard!Init

-----------------------------------------------------------------------------
\* The middleware, before and after the handler.
MiddlewareStep(r) ==
  /\ Guard!Serve(r) \/ Guard!Settle(r)
  /\ UNCHANGED vars

\* Mutant of HandlerStep: the middleware starts the handler before it asks Redis.
HandlerStepEarly(r) ==
  /\ phase[r] \in {"lookup", "locking", "running"}
  /\ Submit(r) \/ Progress(r)
  /\ UNCHANGED guardVars

\* createOrder runs behind next().
HandlerStep(r) ==
  /\ phase[r] = "running"
  /\ Submit(r) \/ Progress(r)
  /\ UNCHANGED guardVars

\* The body parser, the rate limiter or authenticate refuses the request, or the
\* controller its body.
Refuse(r) ==
  /\ pc[r] = "idle"
  /\ Guard!Execute(r) /\ outcome'[r] = "error"
  /\ UNCHANGED vars

\* Mutant of HandlerReturns: the answer does not wait for the transaction.
HandlerReturnsUnawaited(r) ==
  /\ pc[r] \in Answered \cup {"committing"}
  /\ Guard!Execute(r)
  /\ outcome'[r] = IF pc[r] \in {"created", "committing"} THEN "effect" ELSE "error"
  /\ UNCHANGED vars

\* Mutant of HandlerReturns: a rejected promise is not passed to the error handler.
HandlerReturnsResults(r) ==
  /\ pc[r] = "created"
  /\ Guard!Execute(r) /\ outcome'[r] = "effect"
  /\ UNCHANGED vars

\* The controller answers 201, or the error handler answers 404 or 500.
HandlerReturns(r) ==
  /\ pc[r] \in Answered
  /\ Guard!Execute(r)
  /\ outcome'[r] = IF pc[r] = "created" THEN "effect" ELSE "error"
  /\ UNCHANGED vars

\* The primary and the emitted event go on meanwhile. The worker of the order queue and
\* the sellers' own updates are left out: they touch nothing the middleware reads, and an
\* order neither reads nor checks the stock that they write.
Elsewhere(r) ==
  /\ TransactionExpires(r) \/ EnqueueJob(r)
  /\ UNCHANGED guardVars

\* One process serves r, middleware and handler: they die together.
ProcessDies(r) ==
  \/ InProcess(r) /\ Guard!InFlight(r) /\ Crash(r) /\ Guard!Crash(r)
  \/ ~InProcess(r) /\ Guard!Crash(r) /\ UNCHANGED vars
  \/ ~Guard!InFlight(r) /\ Crash(r) /\ UNCHANGED guardVars

RedisStep == Guard!RedisNext /\ UNCHANGED vars

PurchaseNext ==
  \/ \E r \in Requests : \/ Guard!Arrive(r) /\ UNCHANGED vars
                         \/ MiddlewareStep(r) \/ HandlerStep(r) \/ Refuse(r)
                         \/ HandlerReturns(r) \/ Elsewhere(r) \/ ProcessDies(r)
  \/ RedisStep

PurchaseSpec == PurchaseInit /\ [][PurchaseNext]_purchaseVars

\* The process of a request it took goes on with it, up to the last Redis command.
\* No client has to send a request, and no lock has to time out.
Serving(r) == MiddlewareStep(r) \/ HandlerStep(r) \/ HandlerReturns(r)

PurchaseFairSpec == PurchaseSpec /\ \A r \in Requests : WF_purchaseVars(Serving(r))

-----------------------------------------------------------------------------
(* Properties.                                                             *)

\* A 201, whether from the buyer's own request or replayed from an earlier one, or
\* from a later retry of it, stands for an order that is committed.
ConfirmedOrderExists ==
  \A r \in Requests :
    answer[r] \in Requests /\ outcome[answer[r]] = "effect" => tx[answer[r]] = "committed"

\* Stripe is asked for two payments under one storage key (the same header, path and
\* request id) only if the two requests overlapped or the response of one was not kept. A
\* retry with the same request id, sent after the answer and its SETEX, never pays again,
\* not even after a 500 for an order that had been committed.
SecondPaymentNeedsOverlap ==
  \A r, s \in intents :
    /\ r # s /\ Guard!Protected(r) /\ Guard!Protected(s) /\ Guard!KeyOf(r) = Guard!KeyOf(s)
    => s \in met[r] \/ r \in met[s] \/ Guard!KeyOf(r) \in forgotten

\* Inductive link between the two machines: createOrder moves only while its
\* request is running, and what it left behind is accounted for by the middleware.
PurchaseInv ==
  /\ \A r \in Requests :
       /\ phase[r] \in {"idle", "lookup", "locking"} => pc[r] = "idle"
       /\ pc[r] \notin {"idle"} \cup Ended => phase[r] = "running"
       /\ outcome[r] = "effect" => tx[r] = "committed"
       /\ r \in intents /\ Guard!Protected(r) =>
            Guard!Entered(r) \/ Guard!KeyOf(r) \in forgotten

\* The locks are given back by those who took them, not only by their time to live: a
\* request waits for a connection of the pool, for row locks and for Stripe, it is
\* answered 201 or an error, and either way its DEL removes the lock, so that no retry is
\* refused for a request that is over, unless a process died or Redis failed.
LocksAreGivenBack == lock # {} ~> (lock = {} \/ failures > 0)

\* Every POST /orders is answered, with the handler's response, a replay or a 409,
\* unless its process dies, as long as Redis replies to each command, be it with an error:
\* neither locks, expired or kept, nor the wait for a connection hangs it.
EveryPurchaseIsAnswered ==
  \A r \in Requests :
    phase[r] \in {"lookup", "running"} ~> phase[r] \in {"answered", "crashed"}
=============================================================================
