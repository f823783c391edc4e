---------------------------- MODULE MCConcierge -----------------------------
(* An instance of Concierge for TLC: dishes of one restaurant. *)
EXTENDS Concierge

CONSTANTS soup, rice, thai

MCOf == [d \in Dishes |-> thai]
=============================================================================
