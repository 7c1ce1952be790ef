----------------------------- MODULE StockLedger -----------------------------
(***************************************************************************)
(* What an order promises about the stock, whatever the checkout does to   *)
(* get there: an order appears together with the decrement of every unit   *)
(* it sells, in one step, at most once per request, and nothing else moves *)
(* the stock except a seller who writes a new value.                       *)
(***************************************************************************)
EXTENDS Integers, Sequences

CONSTANTS
  Requests,  \* POST /orders requests
  Products,  \* rows of the Product table
  Carts      \* bodies a buyer may post

VARIABLES
  placed,    \* placed[r]: the cart of the order r created, <<>> if none
  stock      \* stock[p]: the stock column

ledgerVars == <<placed, stock>>

\* No product appears on two lines of the cart c.
OneLinePerProduct(c) ==
  \A i, j \in DOMAIN c : c[i].product = c[j].product => i = j

\* The units of product p that the cart c buys.
Units(c, p) ==
  LET lines == {i \in DOMAIN c : c[i].product = p}
  IN  IF lines = {} THEN 0 ELSE c[CHOOSE i \in lines : TRUE].quantity

LedgerInit ==
  /\ placed = [r \in Requests |-> <<>>]
  /\ stock \in [Products -> Nat]

PlaceOrder(r) ==
  \E c \in Carts :
    /\ placed[r] = <<>>
    /\ OneLinePerProduct(c)
    /\ \A i \in DOMAIN c : c[i].product \in Products
    /\ placed' = [placed EXCEPT ![r] = c]
    /\ stock' = [p \in Products |-> stock[p] - Units(c, p)]

WriteStock(p) ==
  /\ stock'[p] \in Nat
  /\ stock' = [stock EXCEPT ![p] = stock'[p]]
  /\ UNCHANGED placed

LedgerNext == \/ \E r \in Requests : PlaceOrder(r)
              \/ \E p \in Products : WriteStock(p)

LedgerSpec == LedgerInit /\ [][LedgerNext]_ledgerVars
==============================================================================
