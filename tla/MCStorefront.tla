---------------------------- MODULE MCStorefront ----------------------------
(* Instances of Storefront for TLC. *)
EXTENDS Storefront

CONSTANTS soup, rice, cake, thai, bakery, g1, g2

MCOf == [d \in Dishes |-> IF d = cake THEN bakery ELSE thai]
=============================================================================
