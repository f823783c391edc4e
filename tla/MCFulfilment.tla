---------------------------- MODULE MCFulfilment ----------------------------
(* An instance of Fulfilment for TLC. *)
EXTENDS Fulfilment, TLC

CONSTANTS o1, w1, p1, p2, c1, c2

\* Who acts is interchangeable; there is one order and one worker.
MCSymmetry == Permutations(Partners) \cup Permutations(Calls)
=============================================================================
