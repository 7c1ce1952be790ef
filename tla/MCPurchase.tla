------------------------------ MODULE MCPurchase ------------------------------
(* An instance of Purchase for TLC: a request of one buyer for one lamp and   *)
(* its retry, under one storage key, with one connection to the primary.      *)
EXTENDS Purchase, TLC

CONSTANTS lamp, k1, id1

MCProducts == {lamp}
MCCarts == {<<[product |-> lamp, quantity |-> 1]>>}
MCStock == [p \in MCProducts |-> 2]
MCInputs == {[key |-> k1, method |-> "POST", path |-> OrdersPath, requestId |-> id1]}
=============================================================================
