---------------------------- MODULE PurchaseProofs ----------------------------
(***************************************************************************)
(* A purchase is a behaviour of the idempotency middleware and of the       *)
(* checkout at once. What is proved of either therefore holds of it, and    *)
(* the link between the two (PurchaseInv) carries it to the payments.       *)
(***************************************************************************)
EXTENDS Purchase, CheckoutProofs, TLAPS

\* The middleware with the theorems about it.
Proved == INSTANCE IdempotencyProofs
            WITH Attempts <- Requests, Paths <- {OrdersPath},
                 Routes <- {[method |-> "POST", path |-> OrdersPath]},
                 Silent <- {}, Limited <- {}

LEMMA ProvedAssumption == Proved!AttemptsAssumption
  BY PurchaseAssumption, RequestsAssumption
     DEF Proved!AttemptsAssumption, IsFiniteSet, Proved!IsFiniteSet, Proved!Request,
         Guard!Request, Proved!Methods, Guard!Methods

\* Guard and Proved are two instances of one module.
LEMMA SameMiddleware == Guard!Spec => Proved!Spec
  BY DEF Guard!Spec, Proved!Spec, Guard!Init, Proved!Init, Guard!Next, Proved!Next,
     Guard!vars, Proved!vars, Guard!history, Proved!history, Guard!Arrive, Proved!Arrive,
     Guard!Serve, Proved!Serve, Guard!Settle, Proved!Settle, Guard!Execute, Proved!Execute,
     Guard!Crash, Proved!Crash, Guard!RedisNext, Proved!RedisNext, Guard!Replay,
     Proved!Replay, Guard!Miss, Proved!Miss, Guard!AcquireLock, Proved!AcquireLock,
     Guard!Conflict, Proved!Conflict, Guard!Bypass, Proved!Bypass, Guard!Respond,
     Proved!Respond, Guard!SettleSet, Proved!SettleSet, Guard!SettleUnlock,
     Proved!SettleUnlock, Guard!ReplyLost, Proved!ReplyLost, Guard!ExpireLock,
     Proved!ExpireLock, Guard!ExpireRecord, Proved!ExpireRecord, Guard!StorageKeys,
     Proved!StorageKeys, Guard!KeyOf, Proved!KeyOf, Guard!StorageKey, Proved!StorageKey,
     Guard!GoTo, Proved!GoTo, Guard!Fails, Proved!Fails, Guard!Forget, Proved!Forget,
     Guard!InFlight, Proved!InFlight, Guard!UsesJson, Proved!UsesJson,
     Guard!Protected, Proved!Protected, Guard!UnderWay, Proved!UnderWay, Guard!Outcomes,
     Proved!Outcomes, Guard!Endpoint, Proved!Endpoint, Guard!Guarded, Proved!Guarded

LEMMA SameRunInv == Proved!RunInv => Guard!RunInv
  BY DEF Proved!RunInv, Guard!RunInv, Proved!TypeOK, Guard!TypeOK, Proved!Entered,
     Guard!Entered, Proved!Request, Guard!Request, Guard!StorageKeys, Proved!StorageKeys,
     Guard!KeyOf, Proved!KeyOf, Guard!StorageKey, Proved!StorageKey, Guard!Protected,
     Proved!Protected, Guard!UnderWay, Proved!UnderWay, Guard!Methods, Proved!Methods,
     Guard!Guarded, Proved!Guarded

\* Every step of a purchase is a step of the middleware, or none.
LEMMA GuardStep == [PurchaseNext]_purchaseVars => [Guard!Next]_(Guard!vars)
<1>1. UNCHANGED guardVars => UNCHANGED Guard!vars
  BY DEF guardVars, Guard!vars, Guard!history
<1>2. ASSUME NEW r \in Requests,
             Guard!Arrive(r) \/ MiddlewareStep(r) \/ Refuse(r) \/ HandlerReturns(r)
      PROVE  Guard!Next
  BY <1>2 DEF MiddlewareStep, Refuse, HandlerReturns, Guard!Next
<1>3. ASSUME NEW r \in Requests, HandlerStep(r) \/ Elsewhere(r)
      PROVE  UNCHANGED Guard!vars
  BY <1>1, <1>3 DEF HandlerStep, Elsewhere
<1>4. ASSUME NEW r \in Requests, ProcessDies(r)
      PROVE  Guard!Next \/ UNCHANGED Guard!vars
  BY <1>1, <1>4 DEF ProcessDies, Guard!Next
<1> QED
  BY <1>1, <1>2, <1>3, <1>4 DEF PurchaseNext, RedisStep, Guard!Next, purchaseVars

\* The purchase implements the middleware's specification.
THEOREM PurchaseIsGuarded == PurchaseSpec => Guard!Spec
<1>1. PurchaseInit => Guard!Init
  BY DEF PurchaseInit
<1> QED
  BY <1>1, GuardStep, PTL DEF PurchaseSpec, Guard!Spec

\* Every step of a purchase is a step of the checkout, or none.
LEMMA CheckoutStep == [PurchaseNext]_purchaseVars => [Next]_vars
<1>1. ASSUME NEW r \in Requests, HandlerStep(r) \/ Elsewhere(r) \/ ProcessDies(r)
      PROVE  [Next]_vars
  BY <1>1 DEF HandlerStep, Elsewhere, ProcessDies, Next
<1>2. ASSUME NEW r \in Requests, MiddlewareStep(r) \/ Refuse(r) \/ HandlerReturns(r)
      PROVE  UNCHANGED vars
  BY <1>2 DEF MiddlewareStep, Refuse, HandlerReturns
<1> QED
  BY <1>1, <1>2 DEF PurchaseNext, RedisStep, Next, purchaseVars

\* The purchase implements the checkout's specification, and with it the stock ledger.
THEOREM PurchaseIsCheckout == PurchaseSpec => Spec
<1>1. PurchaseInit => Init
  BY DEF PurchaseInit
<1> QED
  BY <1>1, CheckoutStep, PTL DEF PurchaseSpec, Spec

\* What is known of both machines in every state of a purchase.
LEMMA MachinesInvariant == PurchaseSpec => [](CheckoutInv /\ Guard!RunInv)
<1>1. PurchaseSpec => []Proved!RunInv
  BY PurchaseIsGuarded, SameMiddleware, Proved!RunInvariant, ProvedAssumption, PTL
<1> QED
  BY <1>1, SameRunInv, PurchaseIsCheckout, CheckoutInvariant, PTL

-----------------------------------------------------------------------------
\* A step of the middleware alone leaves every attempt that had entered where it is, or
\* remembers that no response of it is kept.
LEMMA EnteredStays ==
  ASSUME Guard!RunInv, Guard!RunInv', [Guard!Next]_(Guard!vars), NEW r \in Requests,
         Guard!Entered(r), phase[r] # "locking"
  PROVE  Guard!Entered(r)' \/ Guard!KeyOf(r) \in forgotten'
<1> USE DEF Guard!Entered, Guard!UnderWay, Guard!GoTo, Guard!RunInv, Guard!TypeOK,
            Guard!Forget, Guard!Fails
<1> USE PurchaseAssumption
<1>1. ASSUME NEW a \in Requests, Guard!Arrive(a) \/ Guard!Execute(a) \/ Guard!Crash(a)
      PROVE  Guard!Entered(r)' \/ Guard!KeyOf(r) \in forgotten'
  BY <1>1 DEF Guard!Arrive, Guard!Execute, Guard!Crash
<1>2. ASSUME NEW a \in Requests, Guard!Serve(a)
      PROVE  Guard!Entered(r)' \/ Guard!KeyOf(r) \in forgotten'
  BY <1>2 DEF Guard!Serve, Guard!Replay, Guard!Miss, Guard!AcquireLock, Guard!Conflict,
              Guard!Bypass, Guard!Respond
<1>3. ASSUME NEW a \in Requests, Guard!Settle(a)
      PROVE  Guard!Entered(r)' \/ Guard!KeyOf(r) \in forgotten'
  BY <1>3 DEF Guard!Settle, Guard!SettleSet, Guard!SettleUnlock
<1>4. ASSUME Guard!RedisNext
      PROVE  Guard!Entered(r)' \/ Guard!KeyOf(r) \in forgotten'
  BY <1>4 DEF Guard!RedisNext, Guard!ReplyLost, Guard!ExpireLock, Guard!ExpireRecord
<1>5. CASE UNCHANGED Guard!vars
  BY <1>5 DEF Guard!vars, Guard!history
<1> QED
  BY <1>1, <1>2, <1>3, <1>4, <1>5 DEF Guard!Next

\* An attempt is before its handler only if it was there before, unless it just arrived.
LEMMA BeforeHandler ==
  ASSUME Guard!RunInv, [Guard!Next]_(Guard!vars), NEW r \in Requests,
         phase'[r] \in {"idle", "lookup", "locking"}
  PROVE  phase[r] \in {"idle", "lookup", "locking"}
<1> USE DEF Guard!GoTo, Guard!RunInv, Guard!TypeOK
<1>1. ASSUME NEW a \in Requests, Guard!Arrive(a) \/ Guard!Execute(a) \/ Guard!Crash(a)
      PROVE  phase[r] \in {"idle", "lookup", "locking"}
  BY <1>1 DEF Guard!Arrive, Guard!Execute, Guard!Crash
<1>2. ASSUME NEW a \in Requests, Guard!Serve(a) \/ Guard!Settle(a)
      PROVE  phase[r] \in {"idle", "lookup", "locking"}
  BY <1>2 DEF Guard!Serve, Guard!Replay, Guard!Miss, Guard!AcquireLock, Guard!Conflict,
              Guard!Bypass, Guard!Respond, Guard!Settle, Guard!SettleSet, Guard!SettleUnlock
<1>3. ASSUME Guard!RedisNext
      PROVE  phase[r] \in {"idle", "lookup", "locking"}
  BY <1>3 DEF Guard!RedisNext, Guard!ReplyLost, Guard!ExpireLock, Guard!ExpireRecord
<1>4. CASE UNCHANGED Guard!vars
  BY <1>4 DEF Guard!vars
<1> QED
  BY <1>1, <1>2, <1>3, <1>4 DEF Guard!Next

\* The requests themselves, and what was forgotten, stay.
LEMMA RequestsStay ==
  ASSUME [Guard!Next]_(Guard!vars)
  PROVE  UNCHANGED input /\ forgotten \subseteq forgotten'
<1> USE DEF Guard!Forget
<1>1. ASSUME NEW a \in Requests, Guard!Arrive(a) \/ Guard!Execute(a) \/ Guard!Crash(a)
      PROVE  UNCHANGED input /\ forgotten \subseteq forgotten'
  BY <1>1 DEF Guard!Arrive, Guard!Execute, Guard!Crash, Guard!history
<1>2. ASSUME NEW a \in Requests, Guard!Serve(a) \/ Guard!Settle(a)
      PROVE  UNCHANGED input /\ forgotten \subseteq forgotten'
  BY <1>2 DEF Guard!Serve, Guard!Replay, Guard!Miss, Guard!AcquireLock, Guard!Conflict,
              Guard!Bypass, Guard!Respond, Guard!Settle, Guard!SettleSet,
              Guard!SettleUnlock, Guard!history
<1>3. ASSUME Guard!RedisNext
      PROVE  UNCHANGED input /\ forgotten \subseteq forgotten'
  BY <1>3 DEF Guard!RedisNext, Guard!ReplyLost, Guard!ExpireLock, Guard!ExpireRecord
<1>4. CASE UNCHANGED Guard!vars
  BY <1>4 DEF Guard!vars, Guard!history
<1> QED
  BY <1>1, <1>2, <1>3, <1>4 DEF Guard!Next

\* A committed transaction stays committed, and createOrder leaves idle requests alone.
LEMMA CommittedStays ==
  ASSUME CheckoutInv, [Next]_vars, NEW r \in Requests, tx[r] = "committed"
  PROVE  tx'[r] = "committed"
<1>1. ASSUME NEW q \in Requests, Submit(q) \/ EnqueueJob(q) \/ ProcessJob(q)
                                  \/ TransactionExpires(q) \/ Crash(q)
      PROVE  tx'[r] = "committed"
  BY <1>1 DEF Submit, EnqueueJob, ProcessJob, TransactionExpires, Crash, Rollback,
     CheckoutInv, TypeOK
<1>2. ASSUME NEW q \in Requests, Progress(q) PROVE tx'[r] = "committed"
  BY <1>2 DEF Progress, LoadProducts, RejectUnknown, FailBeforeTransaction,
     OpenTransaction, DecrementStock, DeadlockVictim, AbortReservation, StripeAccepts,
     StripeReplies, StripeFails, CommitTransaction, AnswerCreated, CommitFails, Rollback,
     CheckoutInv, TypeOK, PhaseOK
<1>3. ASSUME NEW p \in Products, UpdateProduct(p) PROVE tx'[r] = "committed"
  BY <1>3 DEF UpdateProduct, requestVars
<1> QED
  BY <1>1, <1>2, <1>3 DEF Next, vars, requestVars

\* The link between the two machines is inductive.
THEOREM PurchaseInvStep ==
  ASSUME CheckoutInv, CheckoutInv', Guard!RunInv, Guard!RunInv', PurchaseInv,
         [PurchaseNext]_purchaseVars
  PROVE  PurchaseInv'
<1>1. [Guard!Next]_(Guard!vars) /\ [Next]_vars
  BY GuardStep, CheckoutStep
<1> SUFFICES ASSUME NEW r \in Requests
             PROVE  /\ phase'[r] \in {"idle", "lookup", "locking"} => pc'[r] = "idle"
                    /\ pc'[r] \notin {"idle"} \cup Ended => phase'[r] = "running"
                    /\ outcome'[r] = "effect" => tx'[r] = "committed"
                    /\ r \in intents' /\ Guard!Protected(r)' =>
                         Guard!Entered(r)' \/ Guard!KeyOf(r)' \in forgotten'
  BY DEF PurchaseInv
<1>t. /\ pc[r] = "idle" => job[r] = "none" /\ r \notin intents
      /\ pc[r] = "created" => tx[r] = "committed"
      /\ DOMAIN pc = Requests /\ outcome \in [Requests -> {Absent, "effect", "error", "limited"}]
  BY DEF CheckoutInv, PhaseOK, TypeOK, Guard!RunInv, Guard!TypeOK, InTransaction, Ended, Answered
<1>2. phase'[r] \in {"idle", "lookup", "locking"} => pc'[r] = "idle"
  <2> SUFFICES ASSUME phase'[r] \in {"idle", "lookup", "locking"} PROVE pc'[r] = "idle"
    OBVIOUS
  <2>1. phase[r] \in {"idle", "lookup", "locking"} /\ pc[r] = "idle"
    BY <1>1, BeforeHandler DEF PurchaseInv
  <2>2. ASSUME NEW q \in Requests, HandlerStep(q) PROVE pc'[r] = "idle"
    <3>1. q # r
      BY <2>1, <2>2 DEF HandlerStep
    <3> QED
      BY <1>t, <2>1, <2>2, <3>1 DEF HandlerStep, Submit, Progress, LoadProducts, RejectUnknown,
         FailBeforeTransaction, OpenTransaction, DecrementStock, DeadlockVictim,
         AbortReservation, StripeAccepts, StripeReplies, StripeFails, CommitTransaction,
         AnswerCreated, CommitFails, GoTo
  <2>3. ASSUME NEW q \in Requests, ProcessDies(q) PROVE pc'[r] = "idle"
    BY <1>t, <2>1, <2>3 DEF ProcessDies, Crash, InProcess, vars, requestVars
  <2>4. ASSUME NEW q \in Requests, Elsewhere(q) PROVE pc'[r] = "idle"
    BY <2>1, <2>4 DEF Elsewhere, TransactionExpires, EnqueueJob
  <2> QED
    BY <2>1, <2>2, <2>3, <2>4 DEF PurchaseNext, RedisStep, MiddlewareStep, Refuse,
       HandlerReturns, purchaseVars, vars, requestVars
<1>3. outcome'[r] = "effect" => tx'[r] = "committed"
  <2> SUFFICES ASSUME outcome'[r] = "effect", tx[r] # "committed"
               PROVE  FALSE
    BY <1>1, CommittedStays
  <2>1. outcome[r] # "effect"
    BY DEF PurchaseInv
  <2>2. ASSUME NEW q \in Requests, Refuse(q) \/ HandlerReturns(q) PROVE FALSE
    BY <1>t, <2>1, <2>2 DEF Refuse, HandlerReturns, Guard!Execute
  <2>3. ASSUME NEW q \in Requests, Guard!Arrive(q) \/ MiddlewareStep(q) PROVE FALSE
    BY <2>1, <2>3 DEF MiddlewareStep, Guard!Arrive, Guard!Serve, Guard!Settle,
       Guard!Replay, Guard!Miss, Guard!AcquireLock, Guard!Conflict, Guard!Bypass,
       Guard!Respond, Guard!SettleSet, Guard!SettleUnlock
  <2>4. ASSUME NEW q \in Requests, HandlerStep(q) \/ Elsewhere(q) \/ ProcessDies(q) PROVE FALSE
    BY <2>1, <2>4 DEF HandlerStep, Elsewhere, ProcessDies, Guard!Crash, guardVars
  <2>5. ASSUME RedisStep PROVE FALSE
    BY <2>1, <2>5 DEF RedisStep, Guard!RedisNext, Guard!ReplyLost, Guard!ExpireLock,
       Guard!ExpireRecord
  <2> QED
    BY <2>1, <2>2, <2>3, <2>4, <2>5 DEF PurchaseNext, purchaseVars, guardVars
<1>4. ASSUME r \in intents', Guard!Protected(r)'
      PROVE  Guard!Entered(r)' \/ Guard!KeyOf(r)' \in forgotten'
  <2>1. Guard!Protected(r) /\ Guard!KeyOf(r)' = Guard!KeyOf(r) /\ forgotten \subseteq forgotten'
    BY <1>1, <1>4, RequestsStay DEF Guard!Protected, Guard!KeyOf
  <2>2. CASE r \in intents
    <3>1. phase[r] # "locking"
      BY <1>t, <2>2 DEF PurchaseInv
    <3>2. Guard!Entered(r) \/ Guard!KeyOf(r) \in forgotten
      BY <2>1, <2>2 DEF PurchaseInv
    <3> QED
      BY <1>1, <2>1, <3>1, <3>2, EnteredStays
  <2>3. CASE r \notin intents
    <3>1. HandlerStep(r)
      BY <1>4, <2>3 DEF PurchaseNext, RedisStep, MiddlewareStep, Refuse, HandlerReturns,
         HandlerStep, Elsewhere, ProcessDies, Submit, Progress, LoadProducts, RejectUnknown,
         FailBeforeTransaction, OpenTransaction, DecrementStock, DeadlockVictim,
         AbortReservation, StripeAccepts, StripeReplies, StripeFails, CommitTransaction,
         AnswerCreated, CommitFails, TransactionExpires, EnqueueJob, Crash,
         purchaseVars, vars, requestVars
    <3> QED
      BY <3>1 DEF HandlerStep, guardVars, Guard!Entered, Guard!UnderWay
  <2> QED
    BY <2>2, <2>3
<1>5. pc'[r] \notin {"idle"} \cup Ended => phase'[r] = "running"
  <2> SUFFICES ASSUME pc'[r] \notin {"idle"} \cup Ended PROVE phase'[r] = "running"
    OBVIOUS
  <2>d. phase \in [Requests -> {"idle", "lookup", "locking", "running", "responding",
                               "answered", "crashed"}]
    BY DEF Guard!RunInv, Guard!TypeOK
  <2>1. ASSUME NEW q \in Requests, HandlerStep(q) PROVE phase'[r] = "running"
    <3>1. CASE q = r
      BY <2>1, <3>1 DEF HandlerStep, guardVars
    <3>2. CASE q # r
      <4>1. pc'[r] = pc[r] /\ phase'[r] = phase[r]
        BY <1>t, <2>1, <3>2 DEF HandlerStep, guardVars, Submit, Progress, LoadProducts,
           RejectUnknown, FailBeforeTransaction, OpenTransaction, DecrementStock,
           DeadlockVictim, AbortReservation, StripeAccepts, StripeReplies, StripeFails,
           CommitTransaction, AnswerCreated, CommitFails, GoTo
      <4> QED
        BY <4>1 DEF PurchaseInv
    <3> QED
      BY <3>1, <3>2
  <2>2. ASSUME NEW q \in Requests, Elsewhere(q) PROVE phase'[r] = "running"
    BY <2>2 DEF PurchaseInv, Elsewhere, TransactionExpires, EnqueueJob, guardVars
  <2>3. ASSUME NEW q \in Requests, ProcessDies(q) PROVE phase'[r] = "running"
    <3>1. pc'[r] = pc[r] /\ ~(q = r /\ InProcess(q))
      BY <1>t, <2>3 DEF ProcessDies, Crash, InProcess, Ended, vars, requestVars
    <3>2. q # r
      BY <2>3, <3>1 DEF ProcessDies, InProcess, Crash
    <3>3. phase'[r] = phase[r]
      BY <2>d, <2>3, <3>2 DEF ProcessDies, Guard!Crash, guardVars
    <3> QED
      BY <3>1, <3>3 DEF PurchaseInv
  <2>4. ASSUME NEW q \in Requests, Refuse(q) \/ HandlerReturns(q) PROVE phase'[r] = "running"
    BY <2>d, <2>4 DEF PurchaseInv, Refuse, HandlerReturns, Guard!Execute, Guard!GoTo, vars,
       requestVars, Ended
  <2>5. ASSUME NEW q \in Requests, Guard!Arrive(q) \/ MiddlewareStep(q), UNCHANGED vars
        PROVE  phase'[r] = "running"
    BY <2>d, <2>5 DEF PurchaseInv, MiddlewareStep, Guard!GoTo, Guard!Arrive, Guard!Serve,
       Guard!Settle, Guard!Replay, Guard!Miss, Guard!AcquireLock, Guard!Conflict,
       Guard!Bypass, Guard!Respond, Guard!SettleSet, Guard!SettleUnlock, vars, requestVars
  <2>6. ASSUME RedisStep PROVE phase'[r] = "running"
    BY <2>6 DEF PurchaseInv, RedisStep, Guard!RedisNext, Guard!ReplyLost, Guard!ExpireLock,
       Guard!ExpireRecord, vars, requestVars
  <2>7. CASE UNCHANGED purchaseVars
    BY <2>7 DEF PurchaseInv, purchaseVars, guardVars, vars, requestVars
  <2> QED
    BY <2>1, <2>2, <2>3, <2>4, <2>5, <2>6, <2>7 DEF PurchaseNext, MiddlewareStep
<1> QED
  BY <1>2, <1>3, <1>4, <1>5

\* createOrder runs only behind the middleware, a 201 stands for a committed order, and
\* whatever has a PaymentIntent is accounted for.
THEOREM PurchaseInvariant == PurchaseSpec => []PurchaseInv
<1>1. PurchaseInit => PurchaseInv
  BY PurchaseAssumption DEF PurchaseInit, PurchaseInv, Init, Guard!Init
<1>2. (CheckoutInv /\ Guard!RunInv) /\ (CheckoutInv /\ Guard!RunInv)' /\ PurchaseInv
      /\ [PurchaseNext]_purchaseVars => PurchaseInv'
  BY PurchaseInvStep
<1> QED
  BY <1>1, <1>2, MachinesInvariant, PTL DEF PurchaseSpec

\* A 201, own or replayed, stands for a committed order.
THEOREM ConfirmedOrders == PurchaseSpec => []ConfirmedOrderExists
<1>1. PurchaseInv => ConfirmedOrderExists
  BY DEF PurchaseInv, ConfirmedOrderExists
<1> QED
  BY <1>1, PurchaseInvariant, PTL

\* Two payments under one storage key need an overlap or a response that was not kept.
THEOREM SecondPaymentsOverlap == PurchaseSpec => []SecondPaymentNeedsOverlap
<1>1. CheckoutInv /\ Guard!RunInv /\ PurchaseInv => SecondPaymentNeedsOverlap
  BY DEF CheckoutInv, TypeOK, Guard!RunInv, PurchaseInv, SecondPaymentNeedsOverlap
<1> QED
  BY <1>1, MachinesInvariant, PurchaseInvariant, PTL
-----------------------------------------------------------------------------
(* What the two machines promise separately, they promise together.        *)

\* Orders and stock move together, whatever the middleware and Redis do.
THEOREM PurchasesKeepTheLedger == PurchaseSpec => ImplementsLedger
  BY PurchaseIsCheckout, CheckoutImplementsLedger, PTL

\* Purchases that wait for each other's rows are never stuck.
THEOREM PurchasesResolveWaits == PurchaseSpec => []WaitsAreResolved
  BY PurchaseIsCheckout, WaitsResolved, PTL

\* The two attempts met before either was answered, or no response was kept of one.
Overlapped(r, s) ==
  s \in met[r] \/ r \in met[s] \/ Guard!KeyOf(r) \in forgotten

\* Two requests that the middleware takes for one.
SamePurchase(r, s) ==
  Guard!Protected(r) /\ Guard!Protected(s) /\ Guard!KeyOf(r) = Guard!KeyOf(s)

SecondOrderNeedsOverlap ==
  \A r, s \in Requests :
    /\ r # s /\ SamePurchase(r, s)
    /\ tx[r] = "committed" /\ tx[s] = "committed"
    => Overlapped(r, s)

\* One storage key (header, path and request id) buys twice only if the requests overlapped
\* or the response of one was not kept: the bound on payments holds of the orders, for
\* there is none without a payment.
THEOREM SecondOrdersOverlap == PurchaseSpec => []SecondOrderNeedsOverlap
<1>1. PurchaseSpec => []CommittedOrderIsComplete
  BY PurchaseIsCheckout, OrdersAreComplete, PTL
<1>2. CommittedOrderIsComplete /\ SecondPaymentNeedsOverlap => SecondOrderNeedsOverlap
  BY DEF CommittedOrderIsComplete, SecondPaymentNeedsOverlap, SecondOrderNeedsOverlap,
     SamePurchase, Overlapped
<1> QED
  BY <1>1, <1>2, SecondPaymentsOverlap, PTL

\* POST /orders is an idempotent service: a request gets its own result, that of an earlier
\* one with its key and request id or a refusal, and the last two never enter createOrder.
THEOREM PurchasesImplementService == PurchaseSpec => Guard!ImplementsService
<1>1. PurchaseSpec => Proved!ImplementsService
  BY PurchaseIsGuarded, SameMiddleware, Proved!MiddlewareImplementsService,
     ProvedAssumption, PTL
<1>2. Proved!ImplementsService => Guard!ImplementsService
  BY DEF Proved!ImplementsService, Guard!ImplementsService, Guard!Service!ServiceSpec,
     Proved!Service!ServiceSpec, Guard!Service!ServiceInit, Proved!Service!ServiceInit,
     Guard!Service!ServiceNext, Proved!Service!ServiceNext, Guard!Service!serviceVars,
     Proved!Service!serviceVars, Guard!Service!TakeEffect, Proved!Service!TakeEffect,
     Guard!Service!AnswerOwn, Proved!Service!AnswerOwn, Guard!Service!AnswerAgain,
     Proved!Service!AnswerAgain, Guard!Service!Refuse, Proved!Service!Refuse,
     Guard!Service!Answers, Proved!Service!Answers, Guard!Service!Open,
     Proved!Service!Open
<1> QED
  BY <1>1, <1>2, PTL

\* createOrder is under way for r.
InCheckout(r) == pc[r] \notin {"idle"} \cup Ended

OneCheckout ==
  \A r, s \in Requests :
    SamePurchase(r, s) /\ InCheckout(r) /\ InCheckout(s) => r = s

\* Where no lock times out and Redis neither fails nor loses a reply, a request and its
\* retry are never in createOrder at once, even if processes crash.
THEOREM CheckoutsExclude ==
  ASSUME Faults \subseteq {"crash"}
  PROVE  PurchaseSpec => []OneCheckout
<1>1. PurchaseSpec => []Proved!OneHandler
  BY PurchaseIsGuarded, SameMiddleware, Proved!HandlersExclude, ProvedAssumption, PTL
<1>2. Proved!OneHandler /\ PurchaseInv => OneCheckout
  BY DEF Proved!OneHandler, Proved!InHandler, PurchaseInv, OneCheckout, InCheckout,
     SamePurchase, Guard!Protected, Proved!Protected, Guard!Guarded, Proved!Guarded,
     Guard!KeyOf, Proved!KeyOf, Guard!StorageKey, Proved!StorageKey
<1> QED
  BY <1>1, <1>2, PurchaseInvariant, PTL
=============================================================================
