----------------------------- MODULE MCCheckout -----------------------------
(* Instances of Checkout for TLC: two products bought in both orders (the  *)
(* deadlock), a repeated line, and an id that is no product.               *)
EXTENDS Checkout, TLC

CONSTANTS lamp, rug, ghost

Line(p, q) == [product |-> p, quantity |-> q]

MCProductIds == {lamp, rug, ghost}
MCProducts == {lamp, rug}
MCCarts == {<<Line(lamp, 2), Line(rug, 1)>>, <<Line(rug, 1), Line(lamp, 1)>>,
            <<Line(lamp, 1), Line(lamp, 1)>>, <<Line(ghost, 1)>>}
MCOneLine == {<<Line(lamp, 2)>>}
MCStock == [p \in MCProducts |-> 2]
=============================================================================
