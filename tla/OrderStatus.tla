---------------------------- MODULE OrderStatus ----------------------------
(***************************************************************************)
(* orders.status and the handlers that set it to whatever the restaurant's *)
(* owner or an admin asks for.  They neither read the old status nor       *)
(* exclude any transition.                                                 *)
(***************************************************************************)
CONSTANTS
    Orders,      \* committed orders
    Decisions    \* bound: the statuses owners and admins set in an instance

VARIABLE status

Statuses == {"PENDING", "CONFIRMED", "PREPARING", "OUT_FOR_DELIVERY", "DELIVERED",
             "CANCELLED"}

ASSUME DecisionsAssumption == Decisions \subseteq Statuses

Placed == status = [o \in Orders |-> "PENDING"]

SetStatus(o, s) == status' = [status EXCEPT ![o] = s]

\* The statuses that say an order was paid, or more.
Ahead == {"CONFIRMED", "PREPARING", "OUT_FOR_DELIVERY", "DELIVERED"}

\* updateOrderStatus of the owner and adminUpdateOrderStatus.
Decide(o) == \E s \in Decisions : SetStatus(o, s)
=============================================================================
