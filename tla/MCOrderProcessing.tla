------------------------- MODULE MCOrderProcessing -------------------------
(* Small instances of OrderProcessing. *)
EXTENDS OrderProcessing

CONSTANTS o1, o2, w1

\* Owners accept and admins cancel; nobody sets PENDING or CONFIRMED by hand.
MCDecisions == {"PREPARING", "CANCELLED"}

MCFailing == Steps \ {"idle", "finish"}
MCLosing == {"charge", "confirm"}
=============================================================================
