----------------------------- MODULE MCCheckout -----------------------------
(* Small instances of Checkout: the baskets, stocks and symmetry of its runs. *)
EXTENDS Checkout, TLC

CONSTANTS r1, r2, r3, soup, rice, k1

Line(i, q) == [item |-> i, qty |-> q]

\* One dish, both dishes in either order, and one dish on two lines.
MCBaskets == {<<Line(soup, 1)>>, <<Line(soup, 1), Line(rice, 1)>>,
              <<Line(rice, 1), Line(soup, 1)>>, <<Line(rice, 1), Line(rice, 1)>>}
\* Both dishes, in either order.
MCCrossed == {<<Line(soup, 1), Line(rice, 1)>>, <<Line(rice, 1), Line(soup, 1)>>}
MCSoup == {<<Line(soup, 1)>>}

MCStock == (soup :> 2) @@ (rice :> 1)
MCPlenty == (soup :> 3) @@ (rice :> 3)

\* Every step whose call can fail.
MCAllSteps == Steps \ {"rollback", "end"}

MCSymmetry == Permutations(Requests)
=============================================================================
