------------------------- MODULE MCSellerOnboarding -------------------------
(* Three requests of one seller, one of another and one of a buyer.         *)
EXTENDS SellerOnboarding, TLC

CONSTANTS r1, r2, r3, other, buys, alice, bob, carol

MCUserOf == (r1 :> alice) @@ (r2 :> alice) @@ (r3 :> alice)
            @@ (other :> bob) @@ (buys :> carol)

MCSymmetry == Permutations({r1, r2, r3})
=============================================================================
