--------------------------- MODULE CheckoutProofs ---------------------------
(***************************************************************************)
(* The inductive invariant of Checkout, what follows from it, and the      *)
(* refinement of StockLedger, for every set of requests, products, carts,  *)
(* and restocks and every pool size.                                       *)
(***************************************************************************)
EXTENDS Checkout, FiniteSetTheorems, WellFoundedInduction, TLAPS

LEMMA IndexCount ==
  ASSUME NEW n \in Nat
  PROVE  IsFiniteSet(1..n) /\ Cardinality(1..n) = n
<1>1. IsFiniteSet(1..n) /\ Cardinality(1..n) = IF 1 > n THEN 0 ELSE n - 1 + 1
  BY FS_Interval
<1> QED
  BY <1>1

\* A function onto a set S, as many indices as S has members in a subset T, is
\* one to one and S is within T.
LEMMA PigeonHole ==
  ASSUME NEW n \in Nat, NEW S, NEW T, NEW f \in Surjection(1..n, S),
         Cardinality(S \cap T) = n
  PROVE  f \in Injection(1..n, S) /\ S \subseteq T
<1>1. IsFiniteSet(1..n) /\ Cardinality(1..n) = n
  BY IndexCount
<1>2. /\ IsFiniteSet(S)
      /\ Cardinality(S) <= n
      /\ Cardinality(S) = n <=> f \in Injection(1..n, S)
  BY <1>1, FS_Surjection
<1>3. S \cap T \in SUBSET S
  OBVIOUS
<1>4. /\ Cardinality(S \cap T) <= Cardinality(S)
      /\ Cardinality(S) = Cardinality(S \cap T) => S = S \cap T
  BY <1>2, <1>3, FS_Subset
<1>5. Cardinality(S) \in Nat
  BY <1>2, FS_CardinalityType
<1>6. Cardinality(S) = n
  BY <1>2, <1>4, <1>5
<1> QED
  BY <1>2, <1>4, <1>6

\* The count check of createOrder admits a cart only if its lines name
\* distinct products, all of them known.
LEMMA CountCheck ==
  ASSUME NEW c \in Seq(Lines),
         Cardinality({c[i].product : i \in DOMAIN c} \cap Products) = Len(c)
  PROVE  ValidCart(c)
<1>1. DOMAIN c = 1..Len(c) /\ Len(c) \in Nat
  OBVIOUS
<1>2. PICK S : S = {c[i].product : i \in DOMAIN c}
  OBVIOUS
<1>3. PICK f : f = [i \in 1..Len(c) |-> c[i].product]
  OBVIOUS
<1>4. f \in Surjection(1..Len(c), S)
  BY <1>1, <1>2, <1>3 DEF Surjection
<1>5. f \in Injection(1..Len(c), S) /\ S \subseteq Products
  BY <1>1, <1>2, <1>4, PigeonHole
<1>6. \A i, j \in DOMAIN c : c[i].product = c[j].product => i = j
  BY <1>1, <1>3, <1>5 DEF Injection, IsInjective
<1>7. \A i \in DOMAIN c : c[i].product \in Products
  BY <1>2, <1>5
<1> QED
  BY <1>6, <1>7 DEF ValidCart, Ledger!OneLinePerProduct

\* A line's quantity is the units the cart buys of its product.
LEMMA UnitsOfLine ==
  ASSUME NEW c \in Seq(Lines), ValidCart(c), NEW i \in DOMAIN c
  PROVE  Ledger!Units(c, c[i].product) = c[i].quantity
BY DEF ValidCart, Ledger!OneLinePerProduct, Ledger!Units

\* A product on no line of the cart is not sold.
LEMMA UnitsOfOther ==
  ASSUME NEW c \in Seq(Lines), NEW p, \A i \in DOMAIN c : c[i].product # p
  PROVE  Ledger!Units(c, p) = 0
BY DEF Ledger!Units

-----------------------------------------------------------------------------
THEOREM InvInit == Init => CheckoutInv
<1> SUFFICES ASSUME Init PROVE CheckoutInv
  OBVIOUS
<1>1. TypeOK
  BY ProductsAssumption DEF Init, TypeOK, Ended, InTransaction, Answered
<1>2. \A r \in Requests : PhaseOK(r)
  BY DEF Init, PhaseOK, Ended, InTransaction, Answered
<1>3. LocksExclusive /\ WrittenFromStock
  BY DEF Init, LocksExclusive, WrittenFromStock, Locked
<1> QED
  BY <1>1, <1>2, <1>3 DEF CheckoutInv

\* Steps that give back locks or take none leave the rows of open transactions
\* as they are.
LEMMA NoNewLock ==
  ASSUME CheckoutInv,
         UNCHANGED <<done, written, stock>>,
         \A r \in Requests : tx'[r] = "open" => tx[r] = "open" /\ cart'[r] = cart[r]
  PROVE  LocksExclusive' /\ WrittenFromStock'
<1>1. \A r \in Requests : Locked(r)' \subseteq Locked(r)
  BY DEF Locked
<1>2. LocksExclusive'
  BY <1>1 DEF CheckoutInv, LocksExclusive
<1>3. ASSUME NEW r \in Requests, NEW p \in Locked(r)'
      PROVE  written'[r][p] = stock'[p] - Ledger!Units(cart'[r], p)
  <2>1. tx'[r] = "open" /\ p \in Locked(r)
    BY <1>1 DEF Locked
  <2> QED
    BY <2>1 DEF CheckoutInv, WrittenFromStock
<1> QED
  BY <1>2, <1>3 DEF WrittenFromStock

\* What the other actions of a request do not touch.
LEMMA OthersKeepPhase ==
  ASSUME NEW r \in Requests, PhaseOK(r),
         pc'[r] = pc[r], cart'[r] = cart[r], done'[r] = done[r], tx'[r] = tx[r],
         r \in intents' <=> r \in intents, job'[r] = job[r]
  PROVE  PhaseOK(r)'
BY DEF PhaseOK, ValidCart, Ledger!OneLinePerProduct

\* The line a reserving request is at names a product it has not locked yet.
LEMMA CurrentLineFacts ==
  ASSUME CheckoutInv, NEW r \in Requests, pc[r] = "reserving", tx[r] = "open"
  PROVE  /\ cart[r] \in Seq(Lines) /\ ValidCart(cart[r])
         /\ done[r] \in Nat /\ done[r] + 1 \in DOMAIN cart[r]
         /\ CurrentLine(r).product \in Products \ Locked(r)
         /\ CurrentLine(r).quantity \in Nat
         /\ Ledger!Units(cart[r], CurrentLine(r).product) = CurrentLine(r).quantity
<1>1. cart[r] \in Seq(Lines) /\ done[r] \in Nat
  BY CartsAssumption DEF CheckoutInv, TypeOK, PhaseOK
<1>2. ValidCart(cart[r]) /\ done[r] + 1 \in DOMAIN cart[r]
  BY <1>1 DEF CheckoutInv, PhaseOK
<1>3. cart[r][done[r] + 1] \in Lines
  BY <1>1, <1>2
<1>4. CurrentLine(r).product \in Products /\ CurrentLine(r).quantity \in Nat
  BY <1>2, <1>3 DEF CurrentLine, ValidCart, Lines
<1>5. CurrentLine(r).product \notin Locked(r)
  <2> SUFFICES ASSUME NEW i \in 1..done[r],
                      cart[r][i].product = cart[r][done[r] + 1].product
               PROVE  FALSE
    BY DEF Locked, CurrentLine
  <2>1. i \in DOMAIN cart[r] /\ i # done[r] + 1
    BY <1>1, <1>2
  <2> QED
    BY <1>2, <2>1 DEF ValidCart, Ledger!OneLinePerProduct
<1> QED
  BY <1>1, <1>2, <1>4, <1>5, UnitsOfLine DEF CurrentLine

THEOREM InvStep == CheckoutInv /\ [Next]_vars => CheckoutInv'
<1> SUFFICES ASSUME CheckoutInv, [Next]_vars PROVE CheckoutInv'
  OBVIOUS
<1> USE DEF requestVars, rowVars, Answered, Ended, InTransaction
<1>t. TypeOK /\ \A r \in Requests : PhaseOK(r)
  BY DEF CheckoutInv
<1>1. CASE UNCHANGED vars
  <2>1. TypeOK' /\ \A r \in Requests : PhaseOK(r)'
    BY <1>1, <1>t, OthersKeepPhase DEF vars, TypeOK
  <2>2. LocksExclusive' /\ WrittenFromStock'
    BY <1>1, NoNewLock DEF vars
  <2> QED
    BY <2>1, <2>2 DEF CheckoutInv
<1>2. ASSUME NEW r \in Requests, Submit(r) PROVE CheckoutInv'
  <2>1. TypeOK'
    BY <1>2, <1>t DEF Submit, GoTo, TypeOK
  <2>2. ASSUME NEW s \in Requests PROVE PhaseOK(s)'
    <3>1. CASE s = r
      <4>1. tx[r] = "none" /\ done[r] = 0 /\ r \notin intents /\ job[r] = "none"
        BY <1>2, <1>t DEF Submit, PhaseOK
      <4>2. pc'[r] = "submitted" /\ cart'[r] \in Carts
        BY <1>2, <1>t DEF Submit, GoTo, TypeOK
      <4>3. Len(cart'[r]) >= 0
        BY <4>2, CartsAssumption
      <4> QED
        BY <1>2, <3>1, <4>1, <4>2, <4>3 DEF Submit, PhaseOK
    <3>2. CASE s # r
      BY <1>2, <1>t, <3>2, OthersKeepPhase DEF Submit, GoTo, TypeOK
    <3> QED
      BY <3>1, <3>2
  <2>3. LocksExclusive' /\ WrittenFromStock'
    <3>1. tx[r] = "none"
      BY <1>2, <1>t DEF Submit, PhaseOK
    <3> QED
      BY <1>2, <1>t, <3>1, NoNewLock DEF Submit, TypeOK
  <2> QED
    BY <2>1, <2>2, <2>3 DEF CheckoutInv
<1>3. ASSUME NEW r \in Requests, LoadProducts(r) PROVE CheckoutInv'
  <2>1. TypeOK'
    BY <1>3, <1>t DEF LoadProducts, GoTo, TypeOK
  <2>2. ASSUME NEW s \in Requests PROVE PhaseOK(s)'
    <3>1. CASE s = r
      <4>1. cart[r] \in Seq(Lines)
        BY <1>3, <1>t, CartsAssumption DEF LoadProducts, PhaseOK
      <4>2. ValidCart(cart[r])
        BY <1>3, <4>1, CountCheck DEF LoadProducts, Found
      <4>3. ValidCart(cart[r])'
        BY <1>3, <4>2 DEF LoadProducts, ValidCart, Ledger!OneLinePerProduct
      <4> QED
        BY <1>3, <1>t, <3>1, <4>3 DEF LoadProducts, GoTo, PhaseOK, TypeOK
    <3>2. CASE s # r
      BY <1>3, <1>t, <3>2, OthersKeepPhase DEF LoadProducts, GoTo, TypeOK
    <3> QED
      BY <3>1, <3>2
  <2>3. LocksExclusive' /\ WrittenFromStock'
    BY <1>3, NoNewLock DEF LoadProducts
  <2> QED
    BY <2>1, <2>2, <2>3 DEF CheckoutInv
<1>4. ASSUME NEW r \in Requests, RejectUnknown(r) PROVE CheckoutInv'
  <2>1. TypeOK'
    BY <1>4, <1>t DEF RejectUnknown, GoTo, TypeOK
  <2>2. ASSUME NEW s \in Requests PROVE PhaseOK(s)'
    <3>1. CASE s = r
      BY <1>4, <1>t, <3>1 DEF RejectUnknown, GoTo, PhaseOK, TypeOK, ValidCart,
         Ledger!OneLinePerProduct
    <3>2. CASE s # r
      BY <1>4, <1>t, <3>2, OthersKeepPhase DEF RejectUnknown, GoTo, TypeOK
    <3> QED
      BY <3>1, <3>2
  <2>3. LocksExclusive' /\ WrittenFromStock'
    BY <1>4, NoNewLock DEF RejectUnknown
  <2> QED
    BY <2>1, <2>2, <2>3 DEF CheckoutInv
<1>5. ASSUME NEW r \in Requests, FailBeforeTransaction(r) PROVE CheckoutInv'
  <2>1. TypeOK'
    BY <1>5, <1>t DEF FailBeforeTransaction, GoTo, TypeOK
  <2>2. ASSUME NEW s \in Requests PROVE PhaseOK(s)'
    <3>1. CASE s = r
      BY <1>5, <1>t, <3>1 DEF FailBeforeTransaction, GoTo, PhaseOK, TypeOK, ValidCart,
         Ledger!OneLinePerProduct
    <3>2. CASE s # r
      BY <1>5, <1>t, <3>2, OthersKeepPhase DEF FailBeforeTransaction, GoTo, TypeOK
    <3> QED
      BY <3>1, <3>2
  <2>3. LocksExclusive' /\ WrittenFromStock'
    BY <1>5, NoNewLock DEF FailBeforeTransaction
  <2> QED
    BY <2>1, <2>2, <2>3 DEF CheckoutInv
<1>6. ASSUME NEW r \in Requests, AbortReservation(r) PROVE CheckoutInv'
  <2>1. TypeOK'
    BY <1>6, <1>t DEF AbortReservation, GoTo, TypeOK
  <2>2. ASSUME NEW s \in Requests PROVE PhaseOK(s)'
    <3>1. CASE s = r
      BY <1>6, <1>t, <3>1 DEF AbortReservation, GoTo, PhaseOK, TypeOK, ValidCart,
         Ledger!OneLinePerProduct
    <3>2. CASE s # r
      BY <1>6, <1>t, <3>2, OthersKeepPhase DEF AbortReservation, GoTo, TypeOK
    <3> QED
      BY <3>1, <3>2
  <2>3. LocksExclusive' /\ WrittenFromStock'
    BY <1>6, NoNewLock DEF AbortReservation
  <2> QED
    BY <2>1, <2>2, <2>3 DEF CheckoutInv
<1>7. ASSUME NEW r \in Requests, StripeAccepts(r) PROVE CheckoutInv'
  <2>1. TypeOK'
    BY <1>7, <1>t DEF StripeAccepts, GoTo, TypeOK
  <2>2. ASSUME NEW s \in Requests PROVE PhaseOK(s)'
    <3>1. CASE s = r
      BY <1>7, <1>t, <3>1 DEF StripeAccepts, GoTo, PhaseOK, TypeOK, ValidCart,
         Ledger!OneLinePerProduct
    <3>2. CASE s # r
      BY <1>7, <1>t, <3>2, OthersKeepPhase DEF StripeAccepts, GoTo, TypeOK
    <3> QED
      BY <3>1, <3>2
  <2>3. LocksExclusive' /\ WrittenFromStock'
    BY <1>7, NoNewLock DEF StripeAccepts
  <2> QED
    BY <2>1, <2>2, <2>3 DEF CheckoutInv
<1>8. ASSUME NEW r \in Requests, StripeReplies(r) PROVE CheckoutInv'
  <2>1. TypeOK'
    BY <1>8, <1>t DEF StripeReplies, Emit, GoTo, TypeOK
  <2>2. ASSUME NEW s \in Requests PROVE PhaseOK(s)'
    <3>1. CASE s = r
      BY <1>8, <1>t, <3>1 DEF StripeReplies, Emit, GoTo, PhaseOK, TypeOK, ValidCart,
         Ledger!OneLinePerProduct
    <3>2. CASE s # r
      BY <1>8, <1>t, <3>2, OthersKeepPhase DEF StripeReplies, Emit, GoTo, TypeOK
    <3> QED
      BY <3>1, <3>2
  <2>3. LocksExclusive' /\ WrittenFromStock'
    BY <1>8, NoNewLock DEF StripeReplies
  <2> QED
    BY <2>1, <2>2, <2>3 DEF CheckoutInv
<1>9. ASSUME NEW r \in Requests, AnswerCreated(r) PROVE CheckoutInv'
  <2>1. TypeOK'
    BY <1>9, <1>t DEF AnswerCreated, GoTo, TypeOK
  <2>2. ASSUME NEW s \in Requests PROVE PhaseOK(s)'
    <3>1. CASE s = r
      BY <1>9, <1>t, <3>1 DEF AnswerCreated, GoTo, PhaseOK, TypeOK, ValidCart,
         Ledger!OneLinePerProduct
    <3>2. CASE s # r
      BY <1>9, <1>t, <3>2, OthersKeepPhase DEF AnswerCreated, GoTo, TypeOK
    <3> QED
      BY <3>1, <3>2
  <2>3. LocksExclusive' /\ WrittenFromStock'
    BY <1>9, NoNewLock DEF AnswerCreated
  <2> QED
    BY <2>1, <2>2, <2>3 DEF CheckoutInv
<1>10. ASSUME NEW r \in Requests, CommitFails(r) PROVE CheckoutInv'
  <2>1. TypeOK'
    BY <1>10, <1>t DEF CommitFails, GoTo, TypeOK
  <2>2. ASSUME NEW s \in Requests PROVE PhaseOK(s)'
    <3>1. CASE s = r
      BY <1>10, <1>t, <3>1 DEF CommitFails, GoTo, PhaseOK, TypeOK, ValidCart,
         Ledger!OneLinePerProduct
    <3>2. CASE s # r
      BY <1>10, <1>t, <3>2, OthersKeepPhase DEF CommitFails, GoTo, TypeOK
    <3> QED
      BY <3>1, <3>2
  <2>3. LocksExclusive' /\ WrittenFromStock'
    BY <1>10, NoNewLock DEF CommitFails
  <2> QED
    BY <2>1, <2>2, <2>3 DEF CheckoutInv
<1>11. ASSUME NEW r \in Requests, EnqueueJob(r) PROVE CheckoutInv'
  <2>1. TypeOK'
    BY <1>11, <1>t DEF EnqueueJob, GoTo, TypeOK
  <2>2. ASSUME NEW s \in Requests PROVE PhaseOK(s)'
    <3>1. CASE s = r
      BY <1>11, <1>t, <3>1 DEF EnqueueJob, GoTo, PhaseOK, TypeOK, ValidCart,
         Ledger!OneLinePerProduct
    <3>2. CASE s # r
      BY <1>11, <1>t, <3>2, OthersKeepPhase DEF EnqueueJob, GoTo, TypeOK
    <3> QED
      BY <3>1, <3>2
  <2>3. LocksExclusive' /\ WrittenFromStock'
    BY <1>11, NoNewLock DEF EnqueueJob
  <2> QED
    BY <2>1, <2>2, <2>3 DEF CheckoutInv
<1>12. ASSUME NEW r \in Requests, ProcessJob(r) PROVE CheckoutInv'
  <2>1. TypeOK'
    BY <1>12, <1>t DEF ProcessJob, OrderQueue, GoTo, TypeOK
  <2>2. ASSUME NEW s \in Requests PROVE PhaseOK(s)'
    <3>1. CASE s = r
      BY <1>12, <1>t, <3>1 DEF ProcessJob, OrderQueue, GoTo, PhaseOK, TypeOK, ValidCart,
         Ledger!OneLinePerProduct
    <3>2. CASE s # r
      BY <1>12, <1>t, <3>2, OthersKeepPhase DEF ProcessJob, OrderQueue, GoTo, TypeOK
    <3> QED
      BY <3>1, <3>2
  <2>3. LocksExclusive' /\ WrittenFromStock'
    BY <1>12, NoNewLock DEF ProcessJob
  <2> QED
    BY <2>1, <2>2, <2>3 DEF CheckoutInv
<1>13. ASSUME NEW r \in Requests, DeadlockVictim(r) PROVE CheckoutInv'
  <2>1. TypeOK'
    BY <1>13, <1>t DEF DeadlockVictim, GoTo, Rollback, TypeOK
  <2>2. ASSUME NEW s \in Requests PROVE PhaseOK(s)'
    <3>1. CASE s = r
      <4>1. pc[r] = "reserving" /\ tx[r] = "open"
        BY <1>13 DEF DeadlockVictim, InCircularWait, WaitsFor
      <4>2. /\ pc'[r] = "failed" /\ tx'[r] = "rolledBack"
            /\ UNCHANGED <<cart, done, intents, job>>
        BY <1>13, <1>t, <4>1 DEF DeadlockVictim, GoTo, Rollback, TypeOK
      <4> QED
        BY <1>t, <3>1, <4>1, <4>2 DEF PhaseOK, ValidCart, Ledger!OneLinePerProduct
    <3>2. CASE s # r
      BY <1>13, <1>t, <3>2, OthersKeepPhase DEF DeadlockVictim, GoTo, Rollback, TypeOK
    <3> QED
      BY <3>1, <3>2
  <2>3. LocksExclusive' /\ WrittenFromStock'
    BY <1>13, <1>t, NoNewLock DEF DeadlockVictim, Rollback, TypeOK
  <2> QED
    BY <2>1, <2>2, <2>3 DEF CheckoutInv
<1>14. ASSUME NEW r \in Requests, TransactionExpires(r) PROVE CheckoutInv'
  <2>1. TypeOK'
    BY <1>14, <1>t DEF TransactionExpires, GoTo, Rollback, TypeOK
  <2>2. ASSUME NEW s \in Requests PROVE PhaseOK(s)'
    <3>1. CASE s = r
      BY <1>14, <1>t, <3>1 DEF TransactionExpires, GoTo, Rollback, WaitsFor, PhaseOK, TypeOK,
         ValidCart, Ledger!OneLinePerProduct
    <3>2. CASE s # r
      BY <1>14, <1>t, <3>2, OthersKeepPhase DEF TransactionExpires, GoTo, Rollback, TypeOK
    <3> QED
      BY <3>1, <3>2
  <2>3. LocksExclusive' /\ WrittenFromStock'
    BY <1>14, <1>t, NoNewLock DEF TransactionExpires, Rollback, TypeOK
  <2> QED
    BY <2>1, <2>2, <2>3 DEF CheckoutInv
<1>15. ASSUME NEW r \in Requests, StripeFails(r) PROVE CheckoutInv'
  <2>1. TypeOK'
    BY <1>15, <1>t DEF StripeFails, GoTo, Rollback, TypeOK
  <2>2. ASSUME NEW s \in Requests PROVE PhaseOK(s)'
    <3>1. CASE s = r
      BY <1>15, <1>t, <3>1 DEF StripeFails, GoTo, Rollback, WaitsFor, PhaseOK, TypeOK,
         ValidCart, Ledger!OneLinePerProduct
    <3>2. CASE s # r
      BY <1>15, <1>t, <3>2, OthersKeepPhase DEF StripeFails, GoTo, Rollback, TypeOK
    <3> QED
      BY <3>1, <3>2
  <2>3. LocksExclusive' /\ WrittenFromStock'
    BY <1>15, <1>t, NoNewLock DEF StripeFails, Rollback, TypeOK
  <2> QED
    BY <2>1, <2>2, <2>3 DEF CheckoutInv
<1>16. ASSUME NEW r \in Requests, Crash(r) PROVE CheckoutInv'
  <2>1. TypeOK'
    BY <1>16, <1>t DEF Crash, InProcess, GoTo, Rollback, TypeOK
  <2>2. ASSUME NEW s \in Requests PROVE PhaseOK(s)'
    <3>1. CASE s = r
      BY <1>16, <1>t, <3>1 DEF Crash, InProcess, GoTo, Rollback, WaitsFor, PhaseOK, TypeOK,
         ValidCart, Ledger!OneLinePerProduct
    <3>2. CASE s # r
      BY <1>16, <1>t, <3>2, OthersKeepPhase DEF Crash, InProcess, GoTo, Rollback, TypeOK
    <3> QED
      BY <3>1, <3>2
  <2>3. LocksExclusive' /\ WrittenFromStock'
    BY <1>16, <1>t, NoNewLock DEF Crash, InProcess, Rollback, TypeOK
  <2> QED
    BY <2>1, <2>2, <2>3 DEF CheckoutInv
<1>17. ASSUME NEW r \in Requests, OpenTransaction(r) PROVE CheckoutInv'
  <2>1. TypeOK'
    BY <1>17, <1>t DEF OpenTransaction, GoTo, TypeOK
  <2>2. ASSUME NEW s \in Requests PROVE PhaseOK(s)'
    <3>1. CASE s = r
      <4>1. Len(cart[r]) \in Nat \ {0}
        BY <1>17, <1>t, CartsAssumption DEF OpenTransaction, PhaseOK
      <4> QED
        BY <1>17, <1>t, <3>1, <4>1 DEF OpenTransaction, GoTo, PhaseOK, TypeOK,
           ValidCart, Ledger!OneLinePerProduct
    <3>2. CASE s # r
      BY <1>17, <1>t, <3>2, OthersKeepPhase DEF OpenTransaction, GoTo, TypeOK
    <3> QED
      BY <3>1, <3>2
  <2>3. \A s \in Requests : Locked(s)' = Locked(s)
    <3>1. done[r] = 0 /\ tx[r] = "none"
      BY <1>17, <1>t DEF OpenTransaction, PhaseOK
    <3>2. Locked(r) = {} /\ Locked(r)' = {}
      BY <1>17, <3>1 DEF OpenTransaction, Locked
    <3>3. \A s \in Requests \ {r} : Locked(s)' = Locked(s)
      BY <1>17, <1>t DEF OpenTransaction, Locked, TypeOK
    <3> QED
      BY <3>2, <3>3
  <2>4. LocksExclusive' /\ WrittenFromStock'
    <3>1. UNCHANGED <<cart, written, stock>>
      BY <1>17 DEF OpenTransaction
    <3>2. LocksExclusive'
      BY <2>3 DEF CheckoutInv, LocksExclusive
    <3>3. WrittenFromStock'
      BY <2>3, <3>1 DEF CheckoutInv, WrittenFromStock
    <3> QED
      BY <3>2, <3>3
  <2> QED
    BY <2>1, <2>2, <2>4 DEF CheckoutInv
<1>18. ASSUME NEW r \in Requests, DecrementStock(r) PROVE CheckoutInv'
  <2> DEFINE p == CurrentLine(r).product
             q == CurrentLine(r).quantity
  <2>1. /\ pc[r] = "reserving" /\ tx[r] = "open"
        /\ written' = [written EXCEPT ![r][p] = stock[p] - q]
        /\ done' = [done EXCEPT ![r] = @ + 1]
        /\ GoTo(r, IF done[r] + 1 = Len(cart[r]) THEN "paying" ELSE "reserving")
        /\ UNCHANGED <<cart, tx, intents, job, rowVars>>
        /\ \A s \in Requests \ {r} : p \notin Locked(s)
    BY <1>18 DEF DecrementStock, LockedByOther
  <2>2. /\ cart[r] \in Seq(Lines) /\ ValidCart(cart[r])
        /\ done[r] \in Nat /\ done[r] + 1 \in DOMAIN cart[r]
        /\ p \in Products \ Locked(r)
        /\ q \in Nat
        /\ Ledger!Units(cart[r], p) = q
    BY <2>1, CurrentLineFacts
  <2>3. TypeOK'
    <3>1. written' \in [Requests -> [Products -> Int]]
      <4>1. stock[p] - q \in Int
        BY <1>t, <2>2 DEF TypeOK
      <4> HIDE DEF p, q
      <4> QED
        BY <1>t, <2>1, <2>2, <4>1 DEF TypeOK
    <3> QED
      BY <1>t, <2>1, <2>2, <3>1 DEF TypeOK, GoTo
  <2>4. ASSUME NEW s \in Requests PROVE PhaseOK(s)'
    <3>1. CASE s = r
      BY <1>t, <2>1, <2>2, <3>1 DEF GoTo, PhaseOK, TypeOK,
         ValidCart, Ledger!OneLinePerProduct
    <3>2. CASE s # r
      BY <1>t, <2>1, <3>2, OthersKeepPhase DEF GoTo, TypeOK
    <3> QED
      BY <3>1, <3>2
  <2>5. /\ Locked(r)' = Locked(r) \cup {p}
        /\ \A s \in Requests \ {r} : Locked(s)' = Locked(s)
    <3>1. Locked(r)' = Locked(r) \cup {p}
      <4>1. done'[r] = done[r] + 1 /\ cart'[r] = cart[r] /\ tx'[r] = "open"
        BY <1>t, <2>1 DEF TypeOK
      <4>2. 1..(done[r] + 1) = 1..done[r] \cup {done[r] + 1}
        BY <2>2
      <4> QED
        BY <2>1, <4>1, <4>2 DEF Locked, CurrentLine
    <3>2. \A s \in Requests \ {r} : Locked(s)' = Locked(s)
      BY <1>t, <2>1 DEF Locked, TypeOK
    <3> QED
      BY <3>1, <3>2
  <2>6. LocksExclusive'
    <3> HIDE DEF p
    <3> QED
      BY <2>1, <2>5 DEF CheckoutInv, LocksExclusive
  <2>7. WrittenFromStock'
    <3>1. ASSUME NEW s \in Requests, NEW x \in Locked(s)'
          PROVE  written'[s][x] = stock'[x] - Ledger!Units(cart'[s], x)
      <4>1. UNCHANGED <<stock, cart>>
        BY <2>1
      <4>2. CASE s = r /\ x = p
        <5>1. written'[r][p] = stock[p] - q
          <6> HIDE DEF p, q
          <6> QED
            BY <1>t, <2>1, <2>2 DEF TypeOK
        <5> QED
          BY <2>2, <4>1, <4>2, <5>1
      <4>3. CASE s # r \/ x # p
        <5>1. written'[s][x] = written[s][x] /\ x \in Locked(s)
          <6> HIDE DEF p, q
          <6> QED
            BY <1>t, <2>1, <2>2, <2>5, <4>3 DEF TypeOK
        <5> QED
          BY <4>1, <5>1 DEF CheckoutInv, WrittenFromStock
      <4> QED
        BY <4>2, <4>3
    <3> QED
      BY <3>1 DEF WrittenFromStock
  <2> QED
    BY <2>3, <2>4, <2>6, <2>7 DEF CheckoutInv
<1>19. ASSUME NEW r \in Requests, CommitTransaction(r) PROVE CheckoutInv'
  <2>1. TypeOK'
    BY <1>19, <1>t DEF CommitTransaction, TypeOK
  <2>2. ASSUME NEW s \in Requests PROVE PhaseOK(s)'
    <3>1. CASE s = r
      BY <1>19, <1>t, <3>1 DEF CommitTransaction, PhaseOK, TypeOK, ValidCart,
         Ledger!OneLinePerProduct
    <3>2. CASE s # r
      BY <1>19, <1>t, <3>2, OthersKeepPhase DEF CommitTransaction, TypeOK
    <3> QED
      BY <3>1, <3>2
  <2>3. /\ Locked(r)' = {}
        /\ \A s \in Requests \ {r} : Locked(s)' = Locked(s)
    BY <1>19, <1>t DEF CommitTransaction, Locked, TypeOK
  <2>4. LocksExclusive'
    BY <2>3 DEF CheckoutInv, LocksExclusive
  <2>5. WrittenFromStock'
    <3>1. ASSUME NEW s \in Requests, NEW x \in Locked(s)'
          PROVE  written'[s][x] = stock'[x] - Ledger!Units(cart'[s], x)
      <4>1. s # r /\ x \in Locked(s)
        BY <2>3
      <4>2. x \notin Locked(r)
        BY <4>1 DEF CheckoutInv, LocksExclusive
      <4>3. x \in Products
        <5>1. tx[s] = "open" /\ ValidCart(cart[s]) /\ cart[s] \in Seq(Lines)
          BY <1>t, <4>1, CartsAssumption DEF Locked, PhaseOK
        <5>2. done[s] \in Nat /\ done[s] <= Len(cart[s])
          BY <1>t DEF TypeOK, PhaseOK
        <5> QED
          BY <4>1, <5>1, <5>2 DEF Locked, ValidCart
      <4>4. stock'[x] = stock[x]
        BY <1>19, <4>2, <4>3 DEF CommitTransaction
      <4> QED
        BY <1>19, <4>1, <4>4 DEF CommitTransaction, CheckoutInv, WrittenFromStock
    <3> QED
      BY <3>1 DEF WrittenFromStock
  <2> QED
    BY <2>1, <2>2, <2>4, <2>5 DEF CheckoutInv
<1>20. ASSUME NEW p \in Products, UpdateProduct(p) PROVE CheckoutInv'
  <2>1. TypeOK'
    BY <1>20, <1>t, ProductsAssumption DEF UpdateProduct, TypeOK
  <2>2. \A r \in Requests : PhaseOK(r)'
    BY <1>20, <1>t, OthersKeepPhase DEF UpdateProduct
  <2>3. \A r \in Requests : Locked(r)' = Locked(r)
    BY <1>20 DEF UpdateProduct, Locked
  <2>4. LocksExclusive'
    BY <2>3 DEF CheckoutInv, LocksExclusive
  <2>5. WrittenFromStock'
    <3>1. ASSUME NEW r \in Requests, NEW x \in Locked(r)'
          PROVE  written'[r][x] = stock'[x] - Ledger!Units(cart'[r], x)
      <4>1. x # p /\ x \in Locked(r)
        BY <1>20, <2>3 DEF UpdateProduct
      <4>2. stock'[x] = stock[x]
        BY <1>20, <1>t, <4>1 DEF UpdateProduct, TypeOK
      <4> QED
        BY <1>20, <4>1, <4>2 DEF UpdateProduct, CheckoutInv, WrittenFromStock
    <3> QED
      BY <3>1 DEF WrittenFromStock
  <2> QED
    BY <2>1, <2>2, <2>4, <2>5 DEF CheckoutInv
<1> QED
  BY <1>1, <1>2, <1>3, <1>4, <1>5, <1>6, <1>7, <1>8, <1>9, <1>10, <1>11, <1>12,
     <1>13, <1>14, <1>15, <1>16, <1>17, <1>18, <1>19, <1>20
     DEF Next, Progress

\* The invariant holds throughout every behaviour of the checkout.
THEOREM CheckoutInvariant == Spec => []CheckoutInv
<1> QED
  BY InvInit, InvStep, PTL DEF Spec

\* An order that exists has had every line decremented, was accepted by Stripe
\* and has a job.
THEOREM OrdersAreComplete == Spec => []CommittedOrderIsComplete
<1>1. CheckoutInv => CommittedOrderIsComplete
  BY DEF CheckoutInv, PhaseOK, CommittedOrderIsComplete
<1> QED
  BY <1>1, CheckoutInvariant, PTL

\* A 201 stands for an order, a 404 for nothing.
THEOREM AnswersMatchOutcomes == Spec => []AnswerMatchesOutcome
<1>1. CheckoutInv => AnswerMatchesOutcome
  BY DEF CheckoutInv, PhaseOK, AnswerMatchesOutcome
<1> QED
  BY <1>1, CheckoutInvariant, PTL

-----------------------------------------------------------------------------
\* A commit takes exactly the units of the cart off the stock.
LEMMA CommitSellsTheCart ==
  ASSUME CheckoutInv, NEW r \in Requests, CommitTransaction(r)
  PROVE  stock' = [p \in Products |-> stock[p] - Ledger!Units(cart[r], p)]
<1>1. /\ tx[r] = "open" /\ cart[r] \in Seq(Lines) /\ ValidCart(cart[r])
      /\ done[r] = Len(cart[r])
  BY CartsAssumption DEF CommitTransaction, CheckoutInv, PhaseOK, InTransaction
<1>2. Locked(r) = {cart[r][i].product : i \in DOMAIN cart[r]}
  BY <1>1 DEF Locked
<1>3. ASSUME NEW p \in Products
      PROVE  (IF p \in Locked(r) THEN written[r][p] ELSE stock[p])
               = stock[p] - Ledger!Units(cart[r], p)
  <2>1. CASE p \in Locked(r)
    BY <2>1 DEF CheckoutInv, WrittenFromStock
  <2>2. CASE p \notin Locked(r)
    <3>1. Ledger!Units(cart[r], p) = 0
      BY <1>1, <1>2, <2>2, UnitsOfOther
    <3> QED
      BY <2>2, <3>1 DEF CheckoutInv, TypeOK
  <2> QED
    BY <2>1, <2>2
<1> QED
  BY <1>3 DEF CommitTransaction

\* A step that commits nothing places no order.
LEMMA PlacedUnchanged ==
  ASSUME CheckoutInv,
         \A r \in Requests : /\ tx'[r] = "committed" <=> tx[r] = "committed"
                             /\ tx[r] = "committed" => cart'[r] = cart[r]
  PROVE  [r \in Requests |-> Placed(r)]' = [r \in Requests |-> Placed(r)]
BY DEF Placed

LEMMA LedgerStep ==
  CheckoutInv /\ [Next]_vars => [Ledger!LedgerNext]_(Ledger!ledgerVars)
<1> SUFFICES ASSUME CheckoutInv, [Next]_vars
             PROVE  Ledger!LedgerNext \/ UNCHANGED Ledger!ledgerVars
  OBVIOUS
<1>t. TypeOK /\ \A r \in Requests : PhaseOK(r)
  BY DEF CheckoutInv
<1>1. ASSUME NEW r \in Requests, CommitTransaction(r) PROVE Ledger!LedgerNext
  <2>1. /\ tx[r] = "open" /\ cart[r] \in Carts /\ ValidCart(cart[r])
        /\ tx' = [tx EXCEPT ![r] = "committed"] /\ cart' = cart
    BY <1>1, <1>t DEF CommitTransaction, PhaseOK, InTransaction
  <2>2. [s \in Requests |-> Placed(s)]' =
          [[s \in Requests |-> Placed(s)] EXCEPT ![r] = cart[r]]
    BY <1>t, <2>1 DEF Placed, TypeOK
  <2>3. [s \in Requests |-> Placed(s)][r] = <<>>
    BY <2>1 DEF Placed
  <2>4. stock' = [p \in Products |-> stock[p] - Ledger!Units(cart[r], p)]
    BY <1>1, CommitSellsTheCart
  <2>5. Ledger!PlaceOrder(r)
    BY <2>1, <2>2, <2>3, <2>4 DEF Ledger!PlaceOrder, ValidCart
  <2> QED
    BY <2>5 DEF Ledger!LedgerNext
<1>2. ASSUME NEW p \in Products, UpdateProduct(p)
      PROVE  Ledger!LedgerNext \/ UNCHANGED Ledger!ledgerVars
  <2>1. [r \in Requests |-> Placed(r)]' = [r \in Requests |-> Placed(r)]
    BY <1>2, PlacedUnchanged DEF UpdateProduct, requestVars
  <2>2. PICK s \in Restocks \cup {stock[p]} : stock' = [stock EXCEPT ![p] = s]
    BY <1>2 DEF UpdateProduct
  <2>3. CASE s = stock[p]
    <3>1. stock' = stock
      BY <1>t, <2>2, <2>3 DEF TypeOK
    <3> QED
      BY <2>1, <3>1 DEF Ledger!ledgerVars
  <2>4. CASE s \in Restocks
    <3>1. stock'[p] = s /\ s \in Nat
      BY <1>t, <2>2, <2>4, ProductsAssumption DEF TypeOK
    <3>2. Ledger!WriteStock(p)
      BY <2>1, <2>2, <3>1 DEF Ledger!WriteStock
    <3> QED
      BY <3>2 DEF Ledger!LedgerNext
  <2> QED
    BY <2>2, <2>3, <2>4
<1>3. ASSUME stock' = stock,
             \A r \in Requests : /\ tx'[r] = "committed" <=> tx[r] = "committed"
                                 /\ tx[r] = "committed" => cart'[r] = cart[r]
      PROVE  UNCHANGED Ledger!ledgerVars
  BY <1>3, PlacedUnchanged DEF Ledger!ledgerVars
<1>4. ASSUME NEW r \in Requests, Submit(r) PROVE UNCHANGED Ledger!ledgerVars
  <2>1. tx[r] = "none"
    BY <1>4, <1>t DEF Submit, PhaseOK
  <2> QED
    BY <1>3, <1>4, <1>t, <2>1 DEF Submit, rowVars, TypeOK
<1>5. ASSUME NEW r \in Requests, TransactionExpires(r) \/ Crash(r) \/ StripeFails(r)
                                 \/ DeadlockVictim(r)
      PROVE  UNCHANGED Ledger!ledgerVars
  <2>1. Rollback(r) /\ UNCHANGED <<cart, stock>>
    BY <1>5 DEF TransactionExpires, Crash, InProcess, StripeFails, DeadlockVictim, rowVars
  <2>2. \A s \in Requests : tx'[s] = "committed" <=> tx[s] = "committed"
    BY <1>t, <2>1 DEF Rollback, TypeOK
  <2> QED
    BY <1>3, <2>1, <2>2
<1>6. ASSUME NEW r \in Requests, OpenTransaction(r)
      PROVE  UNCHANGED Ledger!ledgerVars
  <2>1. tx[r] = "none"
    BY <1>6, <1>t DEF OpenTransaction, PhaseOK
  <2> QED
    BY <1>3, <1>6, <1>t, <2>1 DEF OpenTransaction, rowVars, TypeOK
<1>7. ASSUME UNCHANGED <<tx, cart, stock>> PROVE UNCHANGED Ledger!ledgerVars
  BY <1>3, <1>7
<1>8. ASSUME NEW r \in Requests,
             \/ LoadProducts(r) \/ RejectUnknown(r) \/ FailBeforeTransaction(r)
             \/ DecrementStock(r) \/ AbortReservation(r) \/ StripeAccepts(r)
             \/ StripeReplies(r) \/ AnswerCreated(r) \/ CommitFails(r)
             \/ EnqueueJob(r) \/ ProcessJob(r)
      PROVE  UNCHANGED Ledger!ledgerVars
  BY <1>7, <1>8 DEF LoadProducts, RejectUnknown, FailBeforeTransaction,
     DecrementStock, AbortReservation, StripeAccepts, StripeReplies, AnswerCreated,
     CommitFails, EnqueueJob, ProcessJob, rowVars
<1>9. CASE UNCHANGED vars
  BY <1>7, <1>9 DEF vars, requestVars, rowVars
<1> QED
  BY <1>1, <1>2, <1>4, <1>5, <1>6, <1>8, <1>9 DEF Next, Progress

\* The checkout implements the stock ledger.
THEOREM CheckoutImplementsLedger == Spec => ImplementsLedger
<1>1. Init => Ledger!LedgerInit
  BY ProductsAssumption DEF Init, Ledger!LedgerInit, Placed
<1> QED
  BY <1>1, CheckoutInvariant, LedgerStep, PTL
     DEF Spec, ImplementsLedger, Ledger!LedgerSpec

\* Nobody changes the stock of a row that an order's transaction holds.
THEOREM LockedStockStable == Spec => LockedStockIsStable
<1>1. ASSUME CheckoutInv, [Next]_vars, NEW r \in Requests, NEW p \in Locked(r),
             p \in Locked(r)'
      PROVE  stock'[p] = stock[p]
  <2>1. CASE stock' = stock
    BY <2>1
  <2>2. ASSUME NEW s \in Requests, CommitTransaction(s) PROVE stock'[p] = stock[p]
    <3>1. r # s
      BY <1>1, <2>2 DEF Locked, CommitTransaction, CheckoutInv, TypeOK
    <3>2. p \notin Locked(s)
      BY <1>1, <3>1 DEF CheckoutInv, LocksExclusive
    <3>3. tx[r] = "open" /\ cart[r] \in Seq(Lines) /\ ValidCart(cart[r])
      BY <1>1, CartsAssumption DEF Locked, CheckoutInv, PhaseOK, InTransaction
    <3>4. done[r] \in Nat /\ done[r] <= Len(cart[r])
      BY <1>1 DEF CheckoutInv, TypeOK, PhaseOK
    <3>5. p \in Products
      BY <1>1, <3>3, <3>4 DEF Locked, ValidCart
    <3> QED
      BY <2>2, <3>2, <3>5 DEF CommitTransaction
  <2>3. ASSUME NEW x \in Products, UpdateProduct(x) PROVE stock'[p] = stock[p]
    BY <1>1, <2>3 DEF UpdateProduct, CheckoutInv, TypeOK
  <2> QED
    BY <1>1, <2>1, <2>2, <2>3 DEF Next, Progress, Submit, LoadProducts, RejectUnknown,
       FailBeforeTransaction, OpenTransaction, DecrementStock, DeadlockVictim,
       TransactionExpires, AbortReservation, StripeAccepts, StripeReplies, StripeFails,
       AnswerCreated, CommitFails, Crash, EnqueueJob, ProcessJob, vars, rowVars
<1>2. CheckoutInv /\ [Next]_vars =>
        [\A r \in Requests : \A p \in Locked(r) :
           p \in Locked(r)' => stock'[p] = stock[p]]_vars
  BY <1>1
<1> QED
  BY <1>2, CheckoutInvariant, PTL DEF Spec, LockedStockIsStable
-----------------------------------------------------------------------------
(* The waits for row locks.                                                *)

\* A set of requests in which each waits for one of the set.
Entangled(T) == T # {} /\ \A s \in T : \E t \in T : WaitsFor(s, t)

\* One of an entangled set that no other waits for can be left out.
LEMMA EntangledWithout ==
  ASSUME NEW T, Entangled(T), NEW x \in T, \A t \in T : ~WaitsFor(t, x)
  PROVE  Entangled(T \ {x})
<1>1. PICK y \in T : WaitsFor(x, y)
  BY DEF Entangled
<1>2. y \in T \ {x}
  BY <1>1 DEF WaitsFor
<1>3. \A s \in T \ {x} : \E t \in T \ {x} : WaitsFor(s, t)
  BY DEF Entangled
<1> QED
  BY <1>2, <1>3 DEF Entangled

\* Postgres finds every deadlock: orders that wait for each other only contain a
\* circular wait. A smallest entangled set is one, for it has none to leave out.
LEMMA EntangledIsCircular ==
  ASSUME NEW W \in SUBSET Requests, Entangled(W)
  PROVE  \E s \in W : InCircularWait(s)
<1> DEFINE E == {T \in SUBSET W : Entangled(T)}
           R == StrictSubsetOrdering(W)
<1>1. IsFiniteSet(W)
  BY RequestsAssumption, FS_Subset
<1>2. E \subseteq FiniteSubsetsOf(W)
  BY <1>1, FS_Subset DEF FiniteSubsetsOf
<1>3. W \in E
  OBVIOUS
<1>4. IsWellFoundedOn(R, FiniteSubsetsOf(W))
  BY FS_StrictSubsetOrderingWellFounded
<1>5. PICK T \in E : \A U \in E : <<U, T>> \notin R
  <2> HIDE DEF E, R
  <2> QED
    BY <1>2, <1>3, <1>4, WFMin
<1>6. \A x \in T : \E t \in T : WaitsFor(t, x)
  <2> SUFFICES ASSUME NEW x \in T, \A t \in T : ~WaitsFor(t, x) PROVE FALSE
    OBVIOUS
  <2>1. T \ {x} \in E
    BY EntangledWithout
  <2>2. <<T \ {x}, T>> \in R
    BY DEF StrictSubsetOrdering
  <2> QED
    BY <1>5, <2>1, <2>2
<1>7. \A s \in T : InCircularWait(s)
  BY <1>6 DEF Entangled, InCircularWait
<1> QED
  BY <1>7 DEF Entangled

\* Only orders in progress hold locks, so whoever waits can be waited out.
THEOREM WaitsResolved == Spec => []WaitsAreResolved
<1>1. ASSUME CheckoutInv PROVE WaitsAreResolved
  <2> SUFFICES ASSUME NEW S \in SUBSET Requests,
                      NEW r \in S, Waiting(r),
                      \A x \in S, y \in Requests : WaitsFor(x, y) => y \in S,
                      \A s \in S : ~CanStep(s)
               PROVE  FALSE
    BY DEF WaitsAreResolved
  <2> DEFINE W == {s \in S : Waiting(s)}
  <2>1. ASSUME NEW x \in W PROVE \E y \in W : WaitsFor(x, y)
    <3>1. PICK y \in Requests : WaitsFor(x, y)
      BY DEF Waiting
    <3>2. y \in S /\ tx[y] = "open"
      BY <3>1 DEF WaitsFor, Locked
    <3>3. pc[y] \in InTransaction
      BY <1>1, <3>1, <3>2 DEF CheckoutInv, PhaseOK
    <3>4. y \in W
      BY <3>2, <3>3 DEF CanStep
    <3> QED
      BY <3>1, <3>4
  <2>2. Entangled(W)
    BY <2>1 DEF Entangled
  <2>3. PICK s \in W : InCircularWait(s)
    BY <2>2, EntangledIsCircular
  <2>4. pc[s] \in InTransaction
    BY DEF Waiting, WaitsFor, InTransaction
  <2> QED
    BY <2>3, <2>4 DEF CanStep
<1> QED
  BY <1>1, CheckoutInvariant, PTL
=============================================================================
