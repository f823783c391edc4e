------------------------------- MODULE MCCart -------------------------------
(* Instances of Cart for TLC. *)
EXTENDS Cart

CONSTANTS soup, rice, cake, thai, bakery, c1, c2

MCOf == [d \in Dishes |-> IF d = cake THEN bakery ELSE thai]
=============================================================================
