----------------------------- MODULE OrderLife -----------------------------
(***************************************************************************)
(* What fulfilment promises of an order, whoever acts on it at whatever    *)
(* moment: the customer's money comes first, then the restaurant accepts,  *)
(* and only then does the order leave the kitchen, unless the restaurant   *)
(* gave it to a partner by hand.  A cancellation may come at any time, and *)
(* be overtaken by what was already under way.  Only an admin who sets the *)
(* status by hand overrules this, for the orders he does it to.            *)
(***************************************************************************)
EXTENDS OrderStatus

VARIABLES
    paid,       \* orders the customer was charged for
    accepted,   \* orders the restaurant has accepted
    assigned,   \* orders it gave to a partner by hand
    overruled   \* orders an admin put ahead by hand
vars == <<status, paid, accepted, assigned, overruled>>

Init ==
    /\ Placed
    /\ paid = {} /\ accepted = {} /\ assigned = {} /\ overruled = {}

Charge(o) == paid' = paid \cup {o} /\ UNCHANGED <<status, accepted, assigned, overruled>>

Confirm(o) ==
    /\ status[o] = "PENDING"
    /\ o \in paid
    /\ SetStatus(o, "CONFIRMED")
    /\ UNCHANGED <<paid, accepted, assigned, overruled>>

Accept(o) ==
    /\ o \in paid \cup overruled
    /\ SetStatus(o, "PREPARING")
    /\ accepted' = accepted \cup {o}
    /\ UNCHANGED <<paid, assigned, overruled>>

Leave(o) ==
    /\ o \in accepted \cup assigned \cup overruled
    /\ SetStatus(o, "OUT_FOR_DELIVERY") \/ SetStatus(o, "DELIVERED")
    /\ UNCHANGED <<paid, accepted, assigned, overruled>>

Assign(o) == assigned' = assigned \cup {o} /\ UNCHANGED <<status, paid, accepted, overruled>>

\* To take an order back, or to cancel it, overrules nobody.
Overrule(o) ==
    /\ \E s \in Decisions :
          /\ SetStatus(o, s)
          /\ overruled' = IF s \in Ahead THEN overruled \cup {o} ELSE overruled
    /\ UNCHANGED <<paid, accepted, assigned>>

Next == \E o \in Orders :
    Charge(o) \/ Confirm(o) \/ Accept(o) \/ Assign(o) \/ Leave(o) \/ Overrule(o)

Spec == Init /\ [][Next]_vars
=============================================================================
