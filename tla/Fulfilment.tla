----------------------------- MODULE Fulfilment -----------------------------
(***************************************************************************)
(* From the committed order to the door: the worker (OrderProcessing), the *)
(* partners (Delivery) and the pages of the restaurant's owner and of the  *)
(* admins act on the same orders.status, none of them aware of the others. *)
(* The owner's page offers to accept what it believes to be CONFIRMED: it  *)
(* is told of new orders only, so its list may be old, and a list fetched  *)
(* earlier may arrive later.                                               *)
(***************************************************************************)
EXTENDS Integers, OrderStatus

CONSTANTS
    None,
    Workers, MaxAttempts, MaxStalls, Failing, Losing, LocksLapse, MayCrash,
    Calls, Partners, Ops, Reports, MayFail

ASSUME FulfilmentAssumption ==
    /\ None \notin Orders \cup Workers \cup Partners
    /\ Losing \subseteq {"charge", "confirm"}
    /\ Ops \subseteq {"claim", "assign", "report", "locate"}
    /\ Reports \subseteq {"UNASSIGNED", "ASSIGNED", "PICKED_UP", "DELIVERED"}
    /\ MayFail \in BOOLEAN

VARIABLES
    job, holder, attempts, stalls, at, on, paid, charges, emails, notices,
    step, call, partner, progress, trips, assigned,
    fetched,      \* the orders a list under way to the owner's page has as CONFIRMED
    shown,        \* the orders that page offers to accept
    accepted,     \* history: the orders the owner has accepted
    overruled     \* history: the orders an admin put ahead by hand

Processing == INSTANCE OrderProcessing
Courier == INSTANCE Delivery

workVars == <<job, holder, attempts, stalls, at, on, paid, charges, emails, notices>>
deliveryVars == <<step, call, partner, progress, trips, assigned>>
pageVars == <<fetched, shown>>
ownerVars == <<pageVars, accepted, overruled>>
vars == <<status, workVars, deliveryVars, ownerVars>>

\* The worker's part is OrderProcessing's.
TypeOK ==
    /\ Courier!TypeOK
    /\ fetched \subseteq Orders /\ shown \subseteq Orders /\ accepted \subseteq Orders
    /\ overruled \subseteq Orders

Init ==
    /\ Processing!Init
    /\ Courier!Init
    /\ fetched = {} /\ shown = {} /\ accepted = {} /\ overruled = {}

-----------------------------------------------------------------------------
Offered == {o \in Orders : status[o] = "CONFIRMED"}

\* getOrdersForRestaurant reads the orders; the page draws them when they arrive.
Fetch ==
    /\ fetched' = Offered
    /\ UNCHANGED <<status, workVars, deliveryVars, shown, accepted, overruled>>

Arrive ==
    /\ shown' = fetched
    /\ UNCHANGED <<status, workVars, deliveryVars, fetched, accepted, overruled>>

\* acceptOrder: the PATCH takes effect; without its answer the page keeps the button.
Accept(o) ==
    /\ o \in shown
    /\ SetStatus(o, "PREPARING")
    /\ accepted' = accepted \cup {o}
    /\ shown' \in {shown, shown \ {o}}
    /\ UNCHANGED <<workVars, deliveryVars, fetched, overruled>>

Owner == Fetch \/ Arrive \/ \E o \in Orders : Accept(o)

\* The list of statuses on the admins' page: whatever is chosen is written.
Admin ==
    /\ \E o \in Orders, s \in Decisions :
          /\ SetStatus(o, s)
          /\ overruled' = IF s \in Ahead THEN overruled \cup {o} ELSE overruled
    /\ UNCHANGED <<workVars, deliveryVars, pageVars, accepted>>

Next ==
    \/ Processing!Process /\ UNCHANGED <<deliveryVars, ownerVars>>
    \/ Courier!Deliver /\ UNCHANGED <<workVars, ownerVars>>
    \/ Owner
    \/ Admin

Spec == Init /\ [][Next]_vars
-----------------------------------------------------------------------------
\* No kitchen cooks an order that was not charged, and no partner carries one, unless an
\* owner assigned it to him, or an admin put it ahead, by hand: payment is the worker's,
\* acceptance the owner's and the trip the partners', and no handler of the three checks what
\* the others did.
PaidBeforePrepared ==
    \A o \in Orders \ overruled : CASE status[o] \in {"CONFIRMED", "PREPARING"} -> o \in paid
                         [] status[o] \in {"OUT_FOR_DELIVERY", "DELIVERED"} ->
                                o \in paid \cup assigned
                         [] OTHER -> TRUE

\* The owner's page, however old, offers to accept only orders that were charged, or
\* that an admin put ahead by hand.
OffersPaid == shown \cup fetched \subseteq paid \cup overruled

\* An order leaves the kitchen only after the owner accepted it, or assigned it by hand, or an
\* admin put it ahead: a claim or a report that is under way, or a row it left, belongs to such
\* an order.
LeavesAccepted ==
    \A o \in Orders : partner[o] # None \/ status[o] \in {"OUT_FOR_DELIVERY", "DELIVERED"}
        => o \in accepted \cup assigned \cup overruled

\* Of all the partners whose claims race, also with one that failed half way, only one
\* is told that the trip is his, and the row says so ("This trip was already taken",
\* delivery.service.ts:102), unless an owner assigns it to another.
OneCourier == Courier!OneCourier

\* No order travels or is delivered without a partner's name on it, unless an admin put it
\* there by hand.
NoPartnerlessTrip == \A o \in Orders \ overruled : Courier!HasPartner(o)

\* A delivered order that no claim is under way for stays so until an admin sets another
\* status or the owner accepts it from an old page: no call or job that comes later takes it
\* out again.  (While partners report nothing but DELIVERED, as their dashboard does.)
DeliveredStays ==
    [][\A o \in Orders : Courier!Settled(o) => Courier!Settled(o)' \/ Accept(o) \/ Admin]_vars

\* The three parts together do what OrderLife promises.
Life == INSTANCE OrderLife
ImplementsLife == Life!Spec
=============================================================================
