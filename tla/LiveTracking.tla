---------------------------- MODULE LiveTracking ----------------------------
(***************************************************************************)
(* What the customer's tracking page shows of an order.  It asks for the   *)
(* order every ten seconds and after each event, and in between shows the  *)
(* status of the last event.  Events reach it through a room of its        *)
(* socket: the API joins it when the page opens, and never again after the *)
(* connection was lost.  The order itself behaves as OrderLife says, with  *)
(* admins who set any status; a handler emits in a step after its UPDATE,  *)
(* the worker through the notification queue, at any time after it charged *)
(* the customer.                                                           *)
(***************************************************************************)
EXTENDS Integers, Sequences, OrderStatus

CONSTANTS
    None,
    Active,        \* bound: the orders that get anywhere; the others stay PENDING, their
                   \* rooms silent, and nobody needs to know who is in them
    Calls,         \* bound: handlers of the API in flight at a time
    MaxNotices,    \* bound: how often "CONFIRMED" is emitted for an order, reruns included
    MaxWire,       \* bound: events on their way to the page
    MayDrop        \* whether the connection may break and the API may crash

ASSUME LiveAssumption ==
    /\ None \notin Orders \cup Statuses /\ Active \subseteq Orders
    /\ MaxNotices \in Nat /\ MaxWire \in Nat \ {0}
    /\ MayDrop \in BOOLEAN

VARIABLES
    paid, accepted, assigned, overruled,
    emitting,      \* per handler: the event it emits next
    notices,       \* per order: its jobs in the notification queue
    runs,          \* per order: runs of the order worker that may still add one
    connected, joins, rooms, wire,    \* the page's socket
    open,          \* the order whose page is open
    cached,        \* per order: what the query of it returned last
    fetch,         \* that query: "idle", "sent", or the status in the answer
    shown,         \* the status the page shows
    late           \* history: the last event came after a query had told otherwise

Life == INSTANCE OrderLife
Events == [order : Orders, status : Statuses]

lifeVars == <<status, paid, accepted, assigned, overruled>>
sendVars == <<emitting, notices, runs>>
socketVars == <<connected, joins, rooms>>
pageVars == <<open, cached, fetch, shown, late>>
vars == <<lifeVars, sendVars, socketVars, wire, pageVars>>

TypeOK ==
    /\ status \in [Orders -> Statuses]
    /\ paid \subseteq Orders /\ accepted \subseteq Orders
    /\ assigned \subseteq Orders /\ overruled \subseteq Orders
    /\ emitting \in [Calls -> Events \cup {None}]
    /\ notices \in [Orders -> Nat]
    /\ runs \in [Orders -> 0 .. MaxNotices]
    /\ \A o \in Orders : notices[o] + runs[o] <= MaxNotices
    /\ connected \in BOOLEAN
    /\ joins \subseteq Orders /\ rooms \subseteq Orders
    /\ wire \in Seq(Events) /\ Len(wire) <= MaxWire
    /\ open \in Orders \cup {None}
    /\ cached \in [Orders -> Statuses \cup {None}]
    /\ fetch \in {"idle", "sent"} \cup Statuses
    /\ shown \in Statuses
    /\ late \in BOOLEAN

Init ==
    /\ Life!Init
    /\ emitting = [c \in Calls |-> None]
    /\ notices = [o \in Orders |-> 0] /\ runs = [o \in Orders |-> MaxNotices]
    /\ connected = FALSE /\ joins = {} /\ rooms = {} /\ wire = <<>>
    /\ open = None
    /\ cached = [o \in Orders |-> None]
    /\ fetch = "idle" /\ shown = "PENDING" /\ late = FALSE

-----------------------------------------------------------------------------
(* The server.                                                             *)

\* To the sockets in the room of the order.
Emit(o, s) ==
    /\ Len(wire) < MaxWire
    /\ wire' = IF o \in rooms THEN Append(wire, [order |-> o, status |-> s]) ELSE wire

Charge(o) == Life!Charge(o) /\ UNCHANGED <<sendVars, socketVars, wire, pageVars>>
Assign(o) == Life!Assign(o) /\ UNCHANGED <<sendVars, socketVars, wire, pageVars>>

\* The order worker's UPDATE, which finds a PENDING order only, and the add that follows it
\* whatever it found.
Confirm(o) ==
    /\ o \in paid
    /\ IF status[o] = "PENDING" THEN Life!Confirm(o) ELSE UNCHANGED lifeVars
    /\ runs[o] > 0
    /\ runs' = [runs EXCEPT ![o] = @ - 1]
    /\ notices' = [notices EXCEPT ![o] = @ + 1]
    /\ UNCHANGED <<emitting, socketVars, wire, pageVars>>

\* The owner's, a partner's or an admin's UPDATE; the handler has not emitted yet.
Change(c, o) ==
    /\ emitting[c] = None
    /\ Life!Accept(o) \/ Life!Leave(o) \/ Life!Overrule(o)
    /\ emitting' = [emitting EXCEPT ![c] = [order |-> o, status |-> status'[o]]]
    /\ UNCHANGED <<notices, runs, socketVars, wire, pageVars>>

Tell(c) ==
    /\ emitting[c] # None
    /\ Emit(emitting[c].order, emitting[c].status)
    /\ emitting' = [emitting EXCEPT ![c] = None]
    /\ UNCHANGED <<lifeVars, notices, runs, socketVars, pageVars>>

\* The notification worker.  Its job says CONFIRMED, whatever became of the order since.
Notice(o) ==
    /\ notices[o] > 0
    /\ Emit(o, "CONFIRMED")
    /\ notices' = [notices EXCEPT ![o] = @ - 1]
    /\ UNCHANGED <<lifeVars, emitting, runs, socketVars, pageVars>>

\* JOIN_ORDER; when its query fails the socket stays outside, and the page ignores that.
Join(o) ==
    /\ connected /\ o \in joins
    /\ joins' = joins \ {o}
    /\ rooms' \in {rooms, rooms \cup {o}}
    /\ UNCHANGED <<lifeVars, sendVars, connected, wire, pageVars>>

-----------------------------------------------------------------------------
(* The page.                                                               *)

\* What useOrderTracking is given as initialStatus.
AsCached(o, c) == c[o]
InitialOf(o, c) == IF c[o] = None THEN "PENDING" ELSE c[o]

\* The page of o is opened: it starts its query and asks to join the room.
Open(o) ==
    /\ open # o
    /\ open' = o
    /\ shown' = InitialOf(o, cached)
    /\ fetch' = "sent"
    /\ joins' = joins \cup ({o} \cap Active)
    /\ late' = FALSE
    /\ UNCHANGED <<lifeVars, sendVars, connected, rooms, wire, cached>>

\* refetchInterval.
Refetch ==
    /\ open # None
    /\ fetch = "idle"
    /\ fetch' = "sent"
    /\ UNCHANGED <<lifeVars, sendVars, socketVars, wire, open, cached, shown, late>>

Read ==
    /\ fetch = "sent"
    /\ fetch' = status[open]
    /\ UNCHANGED <<lifeVars, sendVars, socketVars, wire, open, cached, shown, late>>

\* The steps the page ticks: statusMap of what is shown; before the first answer it spins.
StepOf == [s \in Statuses |->
    CASE s = "PENDING" -> 0 [] s = "CONFIRMED" -> 1 [] s = "PREPARING" -> 2
      [] s = "OUT_FOR_DELIVERY" -> 3 [] s = "DELIVERED" -> 4 [] s = "CANCELLED" -> -1]
Ticked == {n \in 1 .. 4 : open # None /\ cached[open] # None /\ StepOf[shown] >= n}

FirstAnswer(s) == shown' = IF cached[open] # None THEN shown ELSE s
\* The effect on initialStatus runs only when initialStatus is another one than before.
Follow(s) == shown' = IF s = InitialOf(open, cached) THEN shown ELSE s
Arrive ==
    /\ fetch \in Statuses
    /\ cached' = [cached EXCEPT ![open] = fetch]
    /\ Follow(fetch)
    /\ late' = (late /\ fetch = InitialOf(open, cached))
    /\ fetch' = "idle"
    /\ UNCHANGED <<lifeVars, sendVars, socketVars, wire, open>>

FetchFails ==
    /\ fetch # "idle"
    /\ fetch' = "idle"
    /\ UNCHANGED <<lifeVars, sendVars, socketVars, wire, open, cached, shown, late>>

\* invalidateQueries: the query starts anew, unless it has never returned yet.
Invalidated == IF cached[open] = None /\ fetch # "idle" THEN fetch ELSE "sent"
AnyOrder(e) == TRUE
ForThisPage(e) == e.order = open
Receive ==
    /\ wire # <<>>
    /\ wire' = Tail(wire)
    /\ LET e == Head(wire) IN
       IF ForThisPage(e)
       THEN /\ shown' = e.status
            /\ fetch' = Invalidated
            /\ late' = (e.status # InitialOf(open, cached))
       ELSE UNCHANGED <<shown, fetch, late>>
    /\ UNCHANGED <<lifeVars, sendVars, socketVars, open, cached>>

-----------------------------------------------------------------------------
(* The connection.                                                         *)

\* A join asked for while there was no connection is sent now; no other one is.
Connect ==
    /\ ~connected
    /\ connected' = TRUE
    /\ UNCHANGED <<lifeVars, sendVars, joins, rooms, wire, pageVars>>

Lost ==
    /\ MayDrop
    /\ connected
    /\ connected' = FALSE
    /\ joins' = {} /\ rooms' = {} /\ wire' = <<>>
    /\ UNCHANGED <<lifeVars, notices, runs, pageVars>>

Disconnect == Lost /\ UNCHANGED emitting

\* The API process dies: handlers that have not emitted never will.
Crash == Lost /\ emitting' = [c \in Calls |-> None]

Order == \E o \in Active : Charge(o) \/ Confirm(o) \/ Assign(o) \/ \E c \in Calls : Change(c, o)

Page == Refetch \/ Read \/ Arrive \/ FetchFails \/ Receive \/ \E o \in Orders : Open(o)

Network ==
    \/ \E c \in Calls : Tell(c)
    \/ \E o \in Orders : Notice(o) \/ Join(o)
    \/ Connect \/ Disconnect \/ Crash

Next == Order \/ Page \/ Network

Spec == Init /\ [][Next]_vars

\* The timer fires and its query is answered by the database; of the answers that come
\* back, not all are lost; the page's event loop goes on; handlers go on after an await.
Fairness ==
    /\ WF_vars(Refetch) /\ SF_vars(Read) /\ SF_vars(Arrive)
    /\ WF_vars(Receive)
    /\ \A c \in Calls : WF_vars(Tell(c))

FairSpec == Spec /\ Fairness
-----------------------------------------------------------------------------
\* The page never ticks a step (confirmed, cooking, on its way, delivered) of an order that
\* was neither charged nor moved on by hand, by an owner who assigned it to a partner or an admin
\* who put it ahead: neither from an event of another order, whose room its socket never leaves
\* (useOrderTracking.ts:37), nor from a late one.
TickedIsEarned ==
    Ticked # {} => open \in paid \cup assigned \cup overruled

\* From some moment on the order keeps its status and the customer stays on its page.
Settled == <>[][FALSE]_<<status, open>>

\* Whatever events were lost, an open page ends with the order's status, unless an event came
\* later than a query that had already told otherwise, and none has told anything new since.
ShownConverges == Settled => <>[](open # None => shown = status[open] \/ late)

\* A page left open ends with the order's status.
LiveStatus == Settled => <>[](open # None => shown = status[open])
=============================================================================
