------------------------------ MODULE Delivery ------------------------------
(***************************************************************************)
(* The handlers of /delivery: claimDelivery, assignPartner, updateStatus   *)
(* and updateLocation, one action per await, over delivery_assignments and *)
(* orders.status.  A call is a slot for one request in flight; it is used  *)
(* again when its request has been answered.                               *)
(***************************************************************************)
EXTENDS OrderStatus

CONSTANTS
    Calls,       \* bound: requests in flight at a time
    Partners,    \* users with role DELIVERY
    None,
    Ops,         \* the handlers used: "claim", "assign", "report", "locate"
    Reports,     \* bound: the statuses partners send to updateStatus
    MayFail      \* whether a call may throw, or its process die, at any await

Progress == {"UNASSIGNED", "ASSIGNED", "PICKED_UP", "DELIVERED"}

Requests == [op : Ops, order : Orders, who : Partners, to : Reports]

VARIABLES
    step, call,         \* per call: its next await, and the request it serves
    partner, progress,  \* delivery_assignments: partner_id and status, None without a row
    trips,              \* history: the claims that were answered with success
    assigned            \* history: the orders that an owner assigned to a partner by hand

callVars == <<step, call>>
rowVars == <<partner, progress>>
historyVars == <<trips, assigned>>
deliveryVars == <<callVars, rowVars, historyVars>>
vars == <<status, deliveryVars>>

TypeOK ==
    /\ status \in [Orders -> Statuses]
    /\ step \in [Calls -> {"idle", "check", "write", "publish"}]
    /\ call \in [Calls -> Requests \cup {None}]
    /\ \A c \in Calls : step[c] # "idle" => call[c] \in Requests
    /\ partner \in [Orders -> Partners \cup {None}]
    /\ progress \in [Orders -> Progress \cup {None}]
    /\ \A o \in Orders : partner[o] # None => progress[o] \in Progress
    /\ trips \subseteq Orders \X Partners
    /\ assigned \subseteq Orders

Init ==
    /\ Placed
    /\ step = [c \in Calls |-> "idle"] /\ call = [c \in Calls |-> None]
    /\ partner = [o \in Orders |-> None] /\ progress = [o \in Orders |-> None]
    /\ trips = {} /\ assigned = {}

-----------------------------------------------------------------------------
At(c, op, here) == step[c] = here /\ call[c].op = op
Goto(c, next) == step' = [step EXCEPT ![c] = next] /\ UNCHANGED call
Answer(c) == step' = [step EXCEPT ![c] = "idle"] /\ call' = [call EXCEPT ![c] = None]

\* A request passes its guards, or is refused with a 4xx.
Check(c, ok) ==
    /\ IF ok THEN Goto(c, "write") ELSE Answer(c)
    /\ UNCHANGED <<status, rowVars, historyVars>>

WriteRow(o, p, s) ==
    /\ partner' = [partner EXCEPT ![o] = p]
    /\ progress' = [progress EXCEPT ![o] = s]

Start(c) ==
    /\ step[c] = "idle"
    /\ step' = [step EXCEPT ![c] = "check"]
    /\ \E r \in Requests : call' = [call EXCEPT ![c] = r]
    /\ UNCHANGED <<status, rowVars, historyVars>>

NotCancelled(o) == status[o] # "CANCELLED"
Claimable(o) == status[o] = "PREPARING"

CheckClaim(c) ==
    /\ At(c, "claim", "check")
    /\ Check(c, Claimable(call[c].order))

FirstComeUnchecked(o, p) == TRUE
Free(o, p) == partner[o] \in {None, p}

\* The upsert of claimDelivery, which only takes a trip that is free or one's own.
TakeTrip(c) ==
    LET o == call[c].order
        p == call[c].who
    IN
    /\ At(c, "claim", "write")
    /\ IF Free(o, p)
       THEN WriteRow(o, p, "PICKED_UP") /\ Goto(c, "publish")
       ELSE Answer(c) /\ UNCHANGED rowVars
    /\ UNCHANGED <<status, historyVars>>

Depart(c) ==
    /\ At(c, "claim", "publish")
    /\ SetStatus(call[c].order, "OUT_FOR_DELIVERY")
    /\ trips' = trips \cup {<<call[c].order, call[c].who>>}
    /\ Answer(c)
    /\ UNCHANGED <<rowVars, assigned>>

CheckAssign(c) ==
    /\ At(c, "assign", "check")
    /\ Check(c, status[call[c].order] \notin {"DELIVERED", "CANCELLED"})

Assign(c) ==
    /\ At(c, "assign", "write")
    /\ WriteRow(call[c].order, call[c].who, "ASSIGNED")
    /\ assigned' = assigned \cup {call[c].order}
    /\ Answer(c)
    /\ UNCHANGED <<status, trips>>

NobodyElses(c) == partner[call[c].order] \in {None, call[c].who}
OwnTrip(c) == partner[call[c].order] = call[c].who

\* getAssignment and what follows: 404 without a row, 403 for another partner's.
CheckPartner(c) ==
    /\ At(c, "report", "check")
    /\ Check(c, OwnTrip(c))

\* The order status that follows from a reported progress, None if none does.
OrderStatusOf(s) ==
    CASE s = "PICKED_UP" -> "OUT_FOR_DELIVERY"
      [] s = "DELIVERED" -> "DELIVERED"
      [] OTHER -> None

Report(c) ==
    /\ At(c, "report", "write")
    /\ progress' = [progress EXCEPT ![call[c].order] = call[c].to]
    /\ IF OrderStatusOf(call[c].to) = None THEN Answer(c) ELSE Goto(c, "publish")
    /\ UNCHANGED <<status, partner, historyVars>>

Publish(c) ==
    /\ At(c, "report", "publish")
    /\ SetStatus(call[c].order, OrderStatusOf(call[c].to))
    /\ Answer(c)
    /\ UNCHANGED <<rowVars, historyVars>>

\* updateLocation: whether it is refused or not, it writes only where the partner is, in
\* columns of their own that nothing here reads.
Locate(c) ==
    /\ At(c, "locate", "check")
    /\ Answer(c)
    /\ UNCHANGED <<status, rowVars, historyVars>>

\* A query throws or the process dies: what was written stays written.
Fail(c) ==
    /\ MayFail
    /\ step[c] # "idle"
    /\ Answer(c)
    /\ UNCHANGED <<status, rowVars, historyVars>>

Handle(c) ==
    \/ CheckClaim(c) \/ TakeTrip(c) \/ Depart(c)
    \/ CheckAssign(c) \/ Assign(c)
    \/ CheckPartner(c) \/ Report(c) \/ Publish(c) \/ Locate(c)

Deliver == \E c \in Calls : Start(c) \/ Handle(c) \/ Fail(c)

-----------------------------------------------------------------------------
\* Unless an owner assigns partners, at most one partner is told that a trip is his, the
\* row says so, and it stays so: "This trip was already taken" (delivery.service.ts:102).
OneCourier == \A t \in trips : partner[t[1]] = t[2] \/ t[1] \in assigned

\* An order that delivery moved on has a partner: OUT_FOR_DELIVERY and DELIVERED are
\* written after the row, and no handler takes a row back.
HasPartner(o) == status[o] \in {"OUT_FOR_DELIVERY", "DELIVERED"} => partner[o] # None

\* A delivered order that no claim is under way for.
Settled(o) ==
    /\ status[o] = "DELIVERED"
    /\ \A c \in Calls :
          step[c] \in {"write", "publish"} /\ call[c].order = o => call[c].op # "claim"
=============================================================================
