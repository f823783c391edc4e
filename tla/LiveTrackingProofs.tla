------------------------- MODULE LiveTrackingProofs -------------------------
(***************************************************************************)
(* The customer's tracking page, for any number of orders, of handlers     *)
(* under way and of events on the wire, and any losses.                    *)
(***************************************************************************)
EXTENDS LiveTracking, TLAPS

\* Which orders may be shown as ahead of PENDING, a set that only grows.
Cleared == paid \cup assigned \cup overruled
Earned(o, s) == s \in Ahead => o \in Cleared

\* Wherever a status is on its way from the row to the page, its order was cleared: in the row,
\* in a handler that has yet to emit it, in the notification queue, on the wire, and in what the
\* page has.
RowsBacked == accepted \subseteq Cleared /\ \A o \in Orders : Earned(o, status[o])
NoticesBacked == \A o \in Orders : notices[o] > 0 => o \in Cleared
EmittingBacked ==
    \A c \in Calls : emitting[c] # None => Earned(emitting[c].order, emitting[c].status)
WireBacked == \A n \in 1 .. Len(wire) : Earned(wire[n].order, wire[n].status)
PageBacked ==
    /\ \A o \in Orders : cached[o] # None => Earned(o, cached[o])
    /\ open = None => fetch = "idle"
    /\ open # None => Earned(open, shown)
    /\ fetch \in Statuses => Earned(open, fetch)

Backed == RowsBacked /\ NoticesBacked /\ EmittingBacked /\ WireBacked /\ PageBacked

IInv == TypeOK /\ Backed

\* Two parts of TypeOK: the orders, and the jobs of the notification queue.
LifeTyped ==
    /\ status \in [Orders -> Statuses]
    /\ paid \subseteq Orders /\ accepted \subseteq Orders
    /\ assigned \subseteq Orders /\ overruled \subseteq Orders

Counted ==
    /\ notices \in [Orders -> Nat]
    /\ runs \in [Orders -> 0 .. MaxNotices]
    /\ \A o \in Orders : notices[o] + runs[o] <= MaxNotices

-----------------------------------------------------------------------------
(* The life of the orders and the wire. *)

\* Which variables an order's own steps change; money is never taken back.
LEMMA LifeSteps ==
    ASSUME IInv, NEW o \in Orders,
           \/ Life!Charge(o) \/ Life!Confirm(o) \/ Life!Accept(o) \/ Life!Leave(o)
           \/ Life!Assign(o) \/ Life!Overrule(o) \/ UNCHANGED lifeVars
    PROVE  LifeTyped' /\ Cleared \subseteq Cleared' /\ RowsBacked'
<1> USE DEF IInv, TypeOK, LifeTyped, Backed, RowsBacked, Earned, Cleared
<1>1. CASE Life!Charge(o)
  BY <1>1 DEF Life!Charge
<1>2. CASE Life!Confirm(o)
  BY <1>2 DEF Life!Confirm, Life!SetStatus, Statuses, Ahead
<1>3. CASE Life!Accept(o)
  BY <1>3 DEF Life!Accept, Life!SetStatus, Statuses
<1>4. CASE Life!Leave(o)
  BY <1>4 DEF Life!Leave, Life!SetStatus, Statuses
<1>5. CASE Life!Overrule(o)
  <2>1. PICK s \in Decisions :
            /\ status' = [status EXCEPT ![o] = s]
            /\ overruled' = IF s \in Ahead THEN overruled \cup {o} ELSE overruled
    BY <1>5 DEF Life!Overrule, Life!SetStatus, Life!Ahead, Ahead
  <2>2. s \in Statuses /\ UNCHANGED <<paid, accepted, assigned>>
    BY <1>5, DecisionsAssumption DEF Life!Overrule
  <2>3. QED  BY <2>1, <2>2
<1>6. CASE Life!Assign(o)
  BY <1>6 DEF Life!Assign
<1>7. CASE UNCHANGED lifeVars
  BY <1>7 DEF lifeVars
<1>8. QED  BY <1>1, <1>2, <1>3, <1>4, <1>5, <1>6, <1>7

\* What the page and the wire had stays right when more orders are cleared.
LEMMA PageKeeps ==
    ASSUME IInv, LifeTyped', Cleared \subseteq Cleared', RowsBacked',
           Counted', NoticesBacked',
           emitting' \in [Calls -> Events \cup {None}], EmittingBacked',
           UNCHANGED <<socketVars, wire, pageVars>>
    PROVE  IInv'
<1> USE DEF IInv, socketVars, pageVars
<1>1. TypeOK'
  BY DEF TypeOK, LifeTyped, Counted
<1>2. Backed'
  BY DEF Backed, WireBacked, PageBacked, Earned
<1>3. QED  BY <1>1, <1>2

LEMMA AppendToWire ==
    ASSUME NEW w \in Seq(Events), NEW e \in Events
    PROVE  /\ Append(w, e) \in Seq(Events) /\ Len(Append(w, e)) = Len(w) + 1
           /\ \A n \in 1 .. Len(Append(w, e)) :
                  Append(w, e)[n] = e \/ (n \in 1 .. Len(w) /\ Append(w, e)[n] = w[n])
<1>1. Append(w, e) \in Seq(Events)
  OBVIOUS
<1>2. Len(Append(w, e)) = Len(w) + 1
  OBVIOUS
<1>3. ASSUME NEW n \in 1 .. Len(w)  PROVE Append(w, e)[n] = w[n]
  OBVIOUS
<1>4. ASSUME NEW n \in 1 .. Len(Append(w, e))
      PROVE Append(w, e)[n] = e \/ (n \in 1 .. Len(w) /\ Append(w, e)[n] = w[n])
  <2>1. CASE n \in 1 .. Len(w)
    BY <1>3, <2>1, Zenon
  <2>2. CASE n \notin 1 .. Len(w)
    <3>1. n = Len(w) + 1
      BY <1>2, <2>2
    <3>2. Append(w, e)[n] = e
      BY <3>1
    <3>3. QED  BY <3>2
  <2>3. QED  BY <2>1, <2>2
<1>5. QED  BY <1>1, <1>2, <1>4, Zenon

LEMMA TailOfWire ==
    ASSUME NEW w \in Seq(Events), w # << >>
    PROVE  /\ Head(w) \in Events /\ Head(w) = w[1] /\ 1 \in 1 .. Len(w)
           /\ Tail(w) \in Seq(Events) /\ Len(Tail(w)) = Len(w) - 1
           /\ \A n \in 1 .. Len(Tail(w)) : Tail(w)[n] = w[n + 1] /\ n + 1 \in 1 .. Len(w)
  OBVIOUS

\* What an emission leaves on the wire.
LEMMA EmitKeeps ==
    ASSUME IInv, NEW o \in Orders, NEW s \in Statuses, Emit(o, s), Earned(o, s), UNCHANGED Cleared
    PROVE  /\ wire' \in Seq(Events) /\ Len(wire') <= MaxWire
           /\ WireBacked'
<1> DEFINE e == [order |-> o, status |-> s]
<1>1. e \in Events
  BY DEF Events
<1>2. wire \in Seq(Events) /\ Len(wire) < MaxWire /\ MaxWire \in Nat
  BY LiveAssumption DEF IInv, TypeOK, Emit
<1>3. \A n \in 1 .. Len(wire) : Earned(wire[n].order, wire[n].status)
  BY DEF IInv, Backed, WireBacked
<1>4. CASE o \in rooms
  <2>1. wire' = Append(wire, e)
    BY <1>4 DEF Emit
  <2>2. e.order = o /\ e.status = s
    OBVIOUS
  <2> HIDE DEF e
  <2>3. wire' \in Seq(Events) /\ Len(wire') <= MaxWire
    BY <1>1, <1>2, <2>1, AppendToWire
  <2>4. \A n \in 1 .. Len(wire') : wire'[n] = e \/ (n \in 1 .. Len(wire) /\ wire'[n] = wire[n])
    BY <1>1, <1>2, <2>1, AppendToWire
  <2>5. \A n \in 1 .. Len(wire') : Earned(wire'[n].order, wire'[n].status)
    BY <1>3, <2>2, <2>4
  <2>6. QED  BY <2>3, <2>5 DEF WireBacked, Earned
<1>5. CASE o \notin rooms
  BY <1>2, <1>3, <1>5 DEF Emit, WireBacked, Earned
<1>6. QED  BY <1>4, <1>5

-----------------------------------------------------------------------------
(* One lemma for each part of Next. *)

LEMMA OrderKeeps == ASSUME IInv, Order PROVE IInv'
<1>1. Active \subseteq Orders
  BY LiveAssumption
<1>2. ASSUME UNCHANGED <<notices, runs>>, Cleared \subseteq Cleared'
      PROVE  Counted' /\ NoticesBacked'
  BY <1>2 DEF IInv, TypeOK, Counted, Backed, NoticesBacked
<1>3. ASSUME UNCHANGED emitting, Cleared \subseteq Cleared'
      PROVE  emitting' \in [Calls -> Events \cup {None}] /\ EmittingBacked'
  BY <1>3 DEF IInv, TypeOK, Backed, EmittingBacked, Earned
<1>4. ASSUME NEW o \in Active, Charge(o) \/ Assign(o)  PROVE IInv'
  <2>1. /\ Life!Charge(o) \/ Life!Assign(o)
        /\ UNCHANGED <<emitting, notices, runs, socketVars, wire, pageVars>>
    BY <1>4 DEF Charge, Assign, sendVars
  <2>2. QED  BY <1>1, <1>2, <1>3, <2>1, LifeSteps, PageKeeps
<1>5. ASSUME NEW o \in Active, Confirm(o)  PROVE IInv'
  <2>1. /\ Life!Confirm(o) \/ UNCHANGED lifeVars
        /\ o \in paid /\ runs[o] > 0
        /\ runs' = [runs EXCEPT ![o] = @ - 1] /\ notices' = [notices EXCEPT ![o] = @ + 1]
        /\ UNCHANGED <<emitting, socketVars, wire, pageVars>>
    BY <1>5 DEF Confirm
  <2>2. Counted'
    <3>1. Counted /\ MaxNotices \in Nat /\ o \in Orders
      BY <1>1, LiveAssumption DEF IInv, TypeOK, Counted
    <3>2. /\ notices' \in [Orders -> Nat] /\ runs' \in [Orders -> 0 .. MaxNotices]
          /\ notices'[o] = notices[o] + 1 /\ runs'[o] = runs[o] - 1
          /\ \A x \in Orders \ {o} : notices'[x] = notices[x] /\ runs'[x] = runs[x]
      BY <2>1, <3>1 DEF Counted
    <3>3. ASSUME NEW x \in Orders  PROVE notices'[x] + runs'[x] <= MaxNotices
      BY <3>1, <3>2 DEF Counted
    <3>4. QED  BY <3>2, <3>3 DEF Counted
  <2>3. LifeTyped' /\ Cleared \subseteq Cleared' /\ RowsBacked'
    BY <1>1, <2>1, LifeSteps
  <2>4. \A x \in Orders : x # o => notices'[x] = notices[x]
    BY <1>1, <2>1 DEF IInv, TypeOK
  <2>5. NoticesBacked'
    <3>1. o \in Cleared  BY <2>1 DEF Cleared
    <3>2. QED  BY <2>3, <2>4, <3>1 DEF IInv, Backed, NoticesBacked
  <2>6. QED  BY <1>3, <2>1, <2>2, <2>3, <2>5, PageKeeps
<1>6. ASSUME NEW o \in Active, NEW c \in Calls, Change(c, o)  PROVE IInv'
  <2> DEFINE e == [order |-> o, status |-> status'[o]]
  <2>1. /\ Life!Accept(o) \/ Life!Leave(o) \/ Life!Overrule(o)
        /\ emitting' = [emitting EXCEPT ![c] = e]
        /\ UNCHANGED <<notices, runs, socketVars, wire, pageVars>>
    BY <1>6 DEF Change
  <2>2. LifeTyped' /\ Cleared \subseteq Cleared' /\ RowsBacked'
    BY <1>1, <2>1, LifeSteps
  <2>3. e \in Events /\ (e.status \in Ahead => e.order \in Cleared')
    BY <1>1, <2>2 DEF Events, RowsBacked, Earned, LifeTyped
  <2>4. emitting' \in [Calls -> Events \cup {None}]
    BY <2>1, <2>3 DEF IInv, TypeOK
  <2>5. EmittingBacked'
    <3>1. \A d \in Calls : emitting'[d] = IF d = c THEN e ELSE emitting[d]
      BY <2>1 DEF IInv, TypeOK
    <3> HIDE DEF e
    <3>2. QED  BY <2>2, <2>3, <3>1 DEF IInv, Backed, EmittingBacked, Earned
  <2>6. QED  BY <1>2, <2>1, <2>2, <2>4, <2>5, PageKeeps
<1>7. QED  BY <1>4, <1>5, <1>6 DEF Order

LEMMA NetworkKeeps == ASSUME IInv, Network PROVE IInv'
<1> USE DEF lifeVars, sendVars, socketVars, pageVars
<1>1. ASSUME NEW c \in Calls, Tell(c)  PROVE IInv'
  <2>1. emitting[c] # None /\ emitting[c] \in Events
    BY <1>1 DEF Tell, IInv, TypeOK
  <2>2. /\ emitting[c].order \in Orders /\ emitting[c].status \in Statuses
        /\ Earned(emitting[c].order, emitting[c].status)
    BY <2>1 DEF Events, IInv, Backed, EmittingBacked
  <2>3. /\ Emit(emitting[c].order, emitting[c].status)
        /\ emitting' = [emitting EXCEPT ![c] = None]
        /\ UNCHANGED <<lifeVars, notices, runs, connected, joins, rooms, open, cached,
                       fetch, shown, late>>
    BY <1>1 DEF Tell
  <2>4. /\ wire' \in Seq(Events) /\ Len(wire') <= MaxWire
        /\ WireBacked'
    BY <2>2, <2>3, EmitKeeps DEF Cleared
  <2>5. TypeOK'
    BY <2>3, <2>4 DEF IInv, TypeOK
  <2>6. \A d \in Calls : emitting'[d] # None => emitting'[d] = emitting[d]
    BY <2>3 DEF IInv, TypeOK
  <2>7. Backed'
    BY <2>3, <2>4, <2>6
    DEF IInv, Backed, RowsBacked, NoticesBacked, EmittingBacked, WireBacked, PageBacked, Earned,
        Cleared
  <2>8. QED  BY <2>5, <2>7 DEF IInv
<1>2. ASSUME NEW o \in Orders, Notice(o)  PROVE IInv'
  <2>1. /\ Emit(o, "CONFIRMED") /\ o \in Cleared /\ notices[o] > 0
        /\ notices' = [notices EXCEPT ![o] = @ - 1]
        /\ UNCHANGED <<lifeVars, emitting, runs, connected, joins, rooms, open, cached,
                       fetch, shown, late>>
    BY <1>2 DEF Notice, IInv, Backed, NoticesBacked
  <2>2. /\ wire' \in Seq(Events) /\ Len(wire') <= MaxWire
        /\ WireBacked'
    BY <2>1, EmitKeeps DEF Statuses, Earned, Cleared
  <2>3. /\ notices' \in [Orders -> Nat]
        /\ \A x \in Orders : notices'[x] + runs'[x] <= MaxNotices /\ notices'[x] <= notices[x]
    <3>1. notices \in [Orders -> Nat] /\ runs \in [Orders -> 0 .. MaxNotices] /\ MaxNotices \in Nat
      BY LiveAssumption DEF IInv, TypeOK
    <3>2. notices' \in [Orders -> Nat]
      BY <2>1, <3>1
    <3>3. \A x \in Orders : notices'[x] <= notices[x]
      BY <2>1, <3>1
    <3>4. runs' = runs
      BY <2>1
    <3>5. \A x \in Orders : notices'[x] + runs'[x] <= MaxNotices
      BY <3>1, <3>2, <3>3, <3>4 DEF IInv, TypeOK
    <3>6. QED  BY <3>2, <3>3, <3>5
  <2>4. TypeOK'
    BY <2>1, <2>2, <2>3 DEF IInv, TypeOK
  <2>5. Backed'
    BY <2>1, <2>2
    DEF IInv, Backed, RowsBacked, NoticesBacked, EmittingBacked, WireBacked, PageBacked, Earned,
        Cleared
  <2>6. QED  BY <2>4, <2>5 DEF IInv
<1>3. ASSUME NEW o \in Orders, Join(o)  PROVE IInv'
  BY <1>3
  DEF Join, IInv, TypeOK, Backed, RowsBacked, NoticesBacked, EmittingBacked, WireBacked,
      PageBacked, Earned, Cleared
<1>4. CASE Connect
  BY <1>4
  DEF Connect, IInv, TypeOK, Backed, RowsBacked, NoticesBacked, EmittingBacked, WireBacked,
      PageBacked, Earned, Cleared
<1>5. CASE Disconnect \/ Crash
  <2>1. /\ UNCHANGED <<lifeVars, notices, runs, open, cached, fetch, shown, late>>
        /\ connected' = FALSE /\ joins' = {} /\ rooms' = {} /\ wire' = << >>
        /\ emitting' = emitting \/ emitting' = [c \in Calls |-> None]
    BY <1>5 DEF Disconnect, Crash, Lost
  <2>2. << >> \in Seq(Events) /\ Len(<< >>) = 0 /\ MaxWire \in Nat
    BY LiveAssumption
  <2>3. /\ emitting' \in [Calls -> Events \cup {None}]
        /\ EmittingBacked'
    BY <2>1 DEF IInv, TypeOK, Backed, EmittingBacked, Earned, Cleared
  <2>4. wire' \in Seq(Events) /\ Len(wire') <= MaxWire /\ WireBacked'
    BY <2>1, <2>2 DEF WireBacked
  <2>5. TypeOK'
    BY <2>1, <2>3, <2>4 DEF IInv, TypeOK
  <2>6. Backed'
    BY <2>1, <2>3, <2>4 DEF IInv, Backed, RowsBacked, NoticesBacked, PageBacked, Earned, Cleared
  <2>7. QED  BY <2>5, <2>6 DEF IInv
<1>6. QED  BY <1>1, <1>2, <1>3, <1>4, <1>5 DEF Network

LEMMA PageStepKeeps == ASSUME IInv, Page PROVE IInv'
<1> USE DEF lifeVars, sendVars, socketVars, pageVars
<1>1. /\ None \notin Orders
      /\ "idle" \notin Statuses /\ "sent" \notin Statuses /\ "PENDING" \in Statuses \ Ahead
  BY LiveAssumption DEF Statuses, Ahead
<1>2. ASSUME NEW o \in Orders, Open(o)  PROVE IInv'
  <2>1. InitialOf(o, cached) \in Statuses /\ Earned(o, InitialOf(o, cached))
    BY <1>1
    DEF InitialOf, IInv, TypeOK, Backed, RowsBacked, NoticesBacked, EmittingBacked, WireBacked,
        PageBacked, Earned, Cleared
  <2>2. QED  BY <1>1, <1>2, <2>1
  DEF Open, IInv, TypeOK, Backed, RowsBacked, NoticesBacked, EmittingBacked, WireBacked,
      PageBacked, Earned, Cleared
<1>3. CASE Refetch \/ Read \/ FetchFails
  <2>1. /\ UNCHANGED <<lifeVars, emitting, notices, runs, connected, joins, rooms, wire,
                       open, cached, shown, late>>
        /\ open # None /\ fetch' \in {"idle", "sent", status[open]}
    BY <1>3 DEF Refetch, Read, FetchFails, IInv, Backed, PageBacked
  <2>2. open \in Orders
    BY <2>1 DEF IInv, TypeOK
  <2>3. QED  BY <1>1, <2>1, <2>2
  DEF IInv, TypeOK, Backed, RowsBacked, NoticesBacked, EmittingBacked, WireBacked, PageBacked,
      Earned, Cleared
<1>4. CASE Arrive
  <2>1. open \in Orders /\ fetch \in Statuses /\ Earned(open, fetch)
    BY <1>1, <1>4 DEF Arrive, IInv, TypeOK, Backed, PageBacked
  <2>2. shown' = shown \/ shown' = fetch
    BY <1>4 DEF Arrive, Follow
  <2>3. late' \in BOOLEAN
    BY <1>4 DEF Arrive, IInv, TypeOK
  <2>4. /\ UNCHANGED <<lifeVars, emitting, notices, runs, connected, joins, rooms, wire,
                       open>>
        /\ cached' = [cached EXCEPT ![open] = fetch] /\ fetch' = "idle"
    BY <1>4 DEF Arrive
  <2>5. TypeOK'
    BY <2>1, <2>2, <2>3, <2>4 DEF IInv, TypeOK
  <2>6. Backed'
    BY <1>1, <2>1, <2>2, <2>4
    DEF IInv, TypeOK, Backed, RowsBacked, NoticesBacked, EmittingBacked, WireBacked, PageBacked,
        Earned, Cleared
  <2>7. QED  BY <2>5, <2>6 DEF IInv
<1>5. CASE Receive
  <2> DEFINE e == Head(wire)
  <2>1. wire \in Seq(Events) /\ wire # << >> /\ wire' = Tail(wire)
    BY <1>5 DEF Receive, IInv, TypeOK
  <2>2. e \in Events /\ Earned(e.order, e.status)
    <3>1. Head(wire) \in Events /\ Head(wire) = wire[1] /\ 1 \in 1 .. Len(wire)
      BY <2>1, TailOfWire
    <3>2. QED  BY <3>1 DEF IInv, Backed, WireBacked
  <2>3. /\ wire' \in Seq(Events) /\ Len(wire') <= MaxWire
        /\ \A n \in 1 .. Len(wire') : Earned(wire'[n].order, wire'[n].status)
    <3>1. Len(wire') = Len(wire) - 1 /\ Len(wire) \in Nat /\ Len(wire) <= MaxWire /\ MaxWire \in Nat
      BY <2>1, TailOfWire, LiveAssumption DEF IInv, TypeOK
    <3>2. \A n \in 1 .. Len(wire') : wire'[n] = wire[n + 1] /\ n + 1 \in 1 .. Len(wire)
      BY <2>1, TailOfWire
    <3>3. wire' \in Seq(Events)
      BY <2>1, TailOfWire
    <3>4. QED  BY <3>1, <3>2, <3>3 DEF IInv, Backed, WireBacked
  <2>4. /\ UNCHANGED <<lifeVars, emitting, notices, runs, connected, joins, rooms, open,
                       cached>>
        /\ \/ UNCHANGED <<shown, fetch, late>>
           \/ /\ e.order = open /\ shown' = e.status
              /\ fetch' \in {fetch, "sent"} /\ late' \in BOOLEAN
    BY <1>5 DEF Receive, ForThisPage, Invalidated
  <2>5. e.order \in Orders /\ e.status \in Statuses
    BY <2>2 DEF Events
  <2> HIDE DEF e
  <2>6. TypeOK'
    BY <2>3, <2>4, <2>5 DEF IInv, TypeOK
  <2>7. Backed'
    BY <1>1, <2>2, <2>3, <2>4, <2>5
    DEF IInv, Backed, RowsBacked, NoticesBacked, EmittingBacked, WireBacked, PageBacked, Earned,
        Cleared
  <2>8. QED  BY <2>6, <2>7 DEF IInv
<1>6. QED  BY <1>2, <1>3, <1>4, <1>5 DEF Page

LEMMA Invariant == Spec => []IInv
<1>1. Init => IInv
  <2> SUFFICES ASSUME Init  PROVE IInv
    OBVIOUS
  <2>1. << >> \in Seq(Events) /\ Len(<< >>) = 0 /\ MaxWire \in Nat /\ MaxNotices \in Nat
    BY LiveAssumption
  <2>2. /\ status \in [Orders -> Statuses]
        /\ emitting \in [Calls -> Events \cup {None}]
        /\ cached \in [Orders -> Statuses \cup {None}]
        /\ paid = {} /\ accepted = {} /\ assigned = {} /\ overruled = {}
    BY DEF Init, Life!Init, Life!Placed, Statuses
  <2>7. Counted
    BY <2>1 DEF Init, Counted
  <2>5. wire \in Seq(Events) /\ Len(wire) <= MaxWire
    BY <2>1 DEF Init
  <2>6. TypeOK
    BY <2>2, <2>5, <2>7 DEF Init, TypeOK, Counted, Statuses
  <2>3. Backed
    BY <2>1
    DEF Init, Life!Init, Life!Placed, Backed, RowsBacked, NoticesBacked, EmittingBacked,
        WireBacked, PageBacked, Earned, Cleared, Ahead, Statuses
  <2>4. QED  BY <2>3, <2>6 DEF IInv
<1>2. IInv /\ [Next]_vars => IInv'
  <2> SUFFICES ASSUME IInv, [Next]_vars  PROVE IInv'
    OBVIOUS
  <2>1. CASE UNCHANGED vars
    BY <2>1
    DEF IInv, TypeOK, Backed, RowsBacked, NoticesBacked, EmittingBacked, WireBacked, PageBacked,
        Earned, Cleared, vars, lifeVars, sendVars, socketVars, pageVars
  <2>2. QED  BY <2>1, OrderKeeps, NetworkKeeps, PageStepKeeps DEF Next
<1>3. QED  BY <1>1, <1>2, PTL DEF Spec

\* Type correctness of LiveTracking: the status a page shows is always one, and a query
\* answers only a page that is open.
THEOREM TypeCorrect == Spec => []TypeOK
  BY Invariant, PTL DEF IInv

\* The tracking page (useOrderTracking.ts) never ticks a step of an order that was neither
\* charged, nor assigned by hand, nor put ahead by an admin: not from a late or foreign event, a
\* cached answer or a query under way.
THEOREM OnlyEarnedIsTicked == Spec => []TickedIsEarned
<1>1. IInv => TickedIsEarned
  <2> SUFFICES ASSUME IInv, NEW n \in Ticked  PROVE open \in Cleared
    BY DEF TickedIsEarned, Cleared
  <2>1. open # None /\ n \in 1 .. 4 /\ StepOf[shown] >= n /\ shown \in Statuses
    BY DEF Ticked, IInv, TypeOK
  <2>2. shown \in Ahead
    BY <2>1 DEF StepOf, Statuses, Ahead
  <2>3. QED  BY <2>1, <2>2
  DEF IInv, Backed, RowsBacked, NoticesBacked, EmittingBacked, WireBacked, PageBacked, Earned,
      Cleared
<1>2. QED  BY Invariant, <1>1, PTL

-----------------------------------------------------------------------------
(* What a page owes to its query and what to the last event. *)

ShownIsAnswered == open = None \/ late \/ shown = InitialOf(open, cached)

LEMMA AnsweredKeeps == IInv /\ ShownIsAnswered /\ [Next]_vars => ShownIsAnswered'
<1> SUFFICES ASSUME IInv, ShownIsAnswered, [Next]_vars  PROVE ShownIsAnswered'
  OBVIOUS
<1>1. CASE UNCHANGED <<open, cached, shown, late>>
  BY <1>1 DEF ShownIsAnswered, InitialOf
<1>2. ASSUME NEW o \in Orders, Open(o)  PROVE ShownIsAnswered'
  BY <1>2 DEF Open, ShownIsAnswered, InitialOf
<1>3. CASE Arrive
  <2>1. /\ cached' = [cached EXCEPT ![open] = fetch] /\ UNCHANGED open /\ fetch \in Statuses
        /\ shown' = IF fetch = InitialOf(open, cached) THEN shown ELSE fetch
    BY <1>3 DEF Arrive, Follow
  <2>2. late' = (late /\ fetch = InitialOf(open, cached))
    BY <1>3 DEF Arrive
  <2>3. open \in Orders => InitialOf(open, cached)' = fetch
    BY <2>1, LiveAssumption DEF InitialOf, IInv, TypeOK
  <2>4. CASE late /\ fetch = InitialOf(open, cached)
    BY <2>2, <2>4, Zenon DEF ShownIsAnswered
  <2>5. CASE ~late \/ fetch # InitialOf(open, cached)
    <3>1. open = None \/ shown' = fetch
      BY <2>1, <2>5 DEF ShownIsAnswered
    <3>2. open \in Orders \cup {None}
      BY DEF IInv, TypeOK
    <3>3. open' = None \/ shown' = InitialOf(open, cached)'
      BY <2>1, <2>3, <3>1, <3>2
    <3>4. QED  BY <2>1, <3>3 DEF ShownIsAnswered, InitialOf
  <2>6. QED  BY <2>4, <2>5
<1>4. CASE Receive
  <2>1. CASE UNCHANGED <<shown, late>>
    BY <1>1, <1>4, <2>1 DEF Receive
  <2>2. CASE ~UNCHANGED <<shown, late>>
    <3>1. /\ UNCHANGED <<open, cached>> /\ shown' = Head(wire).status
          /\ late' = (Head(wire).status # InitialOf(open, cached))
      BY <1>4, <2>2 DEF Receive
    <3>2. late' \/ shown' = InitialOf(open, cached)
      BY <3>1, Zenon
    <3>3. QED  BY <3>1, <3>2 DEF ShownIsAnswered, InitialOf
  <2>3. QED  BY <2>1, <2>2
<1>5. CASE Order \/ Network \/ UNCHANGED vars
  BY <1>1, <1>5
  DEF Order, Charge, Assign, Confirm, Change, Network, Tell, Notice, Join, Connect, Disconnect,
                    Crash, Lost, vars, pageVars
<1>6. CASE Refetch \/ Read \/ FetchFails
  BY <1>1, <1>6 DEF Refetch, Read, FetchFails
<1>7. QED  BY <1>2, <1>3, <1>4, <1>5, <1>6 DEF Next, Page

\* The page shows what its query returned last, unless the event after it told otherwise
\* (useOrderTracking.ts:17): the safety part of ShownConverges, and the only way to LiveStatus'
\* counterexample, whatever is lost, for any number of orders and events.
THEOREM OnlyEventsOverrule == Spec => []ShownIsAnswered
<1>1. Init => ShownIsAnswered
  BY DEF Init, ShownIsAnswered
<1>2. QED  BY <1>1, Invariant, AnsweredKeeps, PTL DEF Spec
=============================================================================
