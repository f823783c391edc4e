-------------------------- MODULE DashboardsProofs --------------------------
(***************************************************************************)
(* The tab of an owner and a partner, for any number of orders and events  *)
(* on their way: after any sequence of logins, pages, lost connections and *)
(* crashes, the page in front is in its room, and no new order slips past  *)
(* the kitchen.                                                            *)
(***************************************************************************)
EXTENDS Dashboards, FiniteSetTheorems, TLAPS

IInv == TypeOK /\ IsFiniteSet(wire) /\ InItsRoom

\* What the tab may be told now.
WireOK ==
    /\ wire \subseteq Events /\ IsFiniteSet(wire) /\ Cardinality(wire) <= MaxWire
    /\ \A e \in wire : e.room \in rooms

\* Everything but the room and the wire.
RestOK ==
    /\ status \in [Orders -> {"none", "placed", "cooking", "gone"}]
    /\ emitting \subseteq Events
    /\ cookie \in Users \cup {None} /\ loggedIn \in BOOLEAN
    /\ loggedIn => cookie # None
    /\ page \in Pages \cup {"other"} /\ mine \in BOOLEAN
    /\ missed \subseteq Orders

SocketOK ==
    /\ socket \in Users \cup {Guest, None} /\ connected \in BOOLEAN
    /\ connected => socket \in Users
    /\ joins \subseteq Pages
    /\ rooms \subseteq {p \in Pages : connected /\ Worker(p) = socket}

QueryOK ==
    /\ data \in [Pages -> (SUBSET Orders) \cup {None}]
    /\ fetch \in [Pages -> {"idle", "sent", "refused", "answered"}]
    /\ answer \in [Pages -> SUBSET Orders]
    /\ \A p \in Pages : fetch[p] # "answered" => answer[p] = {}

Parts == RestOK /\ SocketOK /\ WireOK /\ QueryOK /\ InItsRoom

LEMMA PartsMakeIInv == IInv <=> Parts
BY DEF IInv, TypeOK, Parts, RestOK, SocketOK, WireOK, QueryOK

LEMMA EmptyWire ==
    ASSUME wire' = {}
    PROVE  WireOK'
BY FS_EmptySet, DashboardsAssumption DEF WireOK

LEMMA SmallerWire ==
    ASSUME WireOK, NEW e \in wire, wire' = wire \ {e}, rooms \subseteq rooms'
    PROVE  WireOK'
<1>1. /\ IsFiniteSet(wire') /\ Cardinality(wire') <= Cardinality(wire)
      /\ Cardinality(wire) \in Nat /\ Cardinality(wire') \in Nat
  <2>1. wire' \in SUBSET wire  OBVIOUS
  <2>2. QED  BY <2>1, FS_Subset, FS_CardinalityType DEF WireOK
<1>2. Cardinality(wire') <= MaxWire  BY <1>1, DashboardsAssumption DEF WireOK
<1>3. QED  BY <1>1, <1>2 DEF WireOK

LEMMA SameWire ==
    ASSUME WireOK, UNCHANGED wire, rooms \subseteq rooms'
    PROVE  WireOK'
BY DEF WireOK

LEMMA SendOK ==
    ASSUME QueryOK, NEW p \in Pages, NEW user, Send(p, user), UNCHANGED data
    PROVE  QueryOK'
BY DEF QueryOK, Send

LEMMA OverOK ==
    ASSUME QueryOK, NEW p \in Pages, Over(p), data' = data \/ data' = [data EXCEPT ![p] = answer[p]]
    PROVE  QueryOK'
BY DEF QueryOK, Over

-----------------------------------------------------------------------------
(* A page that is mounted asks for its room. *)

LEMMA MountAsks ==
    ASSUME Parts, NEW p \in Pages, NEW user, NEW token \in Users \cup {Guest},
           Mount(p, user, token), UNCHANGED <<connected, rooms, data>>
    PROVE  /\ SocketOK' /\ QueryOK'
           /\ socket' = Worker(p) => p \in joins'
<1>1. SocketOK'
  BY DashboardsAssumption DEF Mount, Parts, SocketOK
<1>2. QueryOK'
  BY SendOK DEF Mount, Parts, QueryOK
<1>3. Worker(p) # Guest  BY DashboardsAssumption DEF Worker, Users
<1>4. QED  BY <1>1, <1>2, <1>3 DEF Mount

LEMMA ShowAsks ==
    ASSUME Parts, NEW p \in Pages \cup {"other"}, NEW user, NEW token \in Users \cup {Guest},
           Show(p, user, token), UNCHANGED <<connected, rooms, data, mine>>
    PROVE  SocketOK' /\ QueryOK' /\ InItsRoom' /\ page' \in Pages \cup {"other"}
<1> DEFINE mounted == p \in Pages /\ (p = "kitchen" => mine)
<1>1. CASE mounted
  <2>1. Mount(p, user, token)  BY <1>1 DEF Show
  <2>2. /\ SocketOK' /\ QueryOK'
        /\ socket' = Worker(p) => p \in joins'
    BY <1>1, <2>1, MountAsks
  <2>3. QED  BY <2>2 DEF Show, InItsRoom, Mounted, Worker
<1>2. CASE ~mounted
  <2>1. UNCHANGED <<socket, joins, fetch, answer>>  BY <1>2 DEF Show
  <2>2. SocketOK' /\ QueryOK'  BY <2>1 DEF Parts, SocketOK, QueryOK
  <2>3. QED  BY <1>2, <2>2 DEF Show, InItsRoom, Mounted
<1>3. QED  BY <1>1, <1>2

LEMMA TokenTyped == RestOK => Token \in Users \cup {Guest}
BY DEF RestOK, Token

-----------------------------------------------------------------------------
(* The API. *)

LEMMA ApiStep ==
    ASSUME Parts, Api
    PROVE  Parts'
<1> USE DEF Parts
<1>1. ASSUME NEW o \in Orders, Place(o) \/ Accept(o) \/ Leave(o)
      PROVE  Parts'
  <2>1. UNCHANGED <<sessionVars, page, mine, socketVars, queryVars, missed>>
    BY <1>1 DEF Place, Accept, Leave, Commit
  <2>2. RestOK'
    BY <1>1, <2>1 DEF RestOK, Place, Accept, Leave, Commit, sessionVars, Events, Pages
  <2>3. SocketOK' /\ WireOK' /\ QueryOK' /\ InItsRoom'
    BY <2>1, SameWire DEF SocketOK, QueryOK, InItsRoom, Mounted, socketVars, queryVars
  <2>4. QED  BY <2>2, <2>3
<1>2. ASSUME NEW e \in emitting, Emit(e)
      PROVE  Parts'
  <2>1. e \in Events  BY DEF RestOK
  <2>2. RestOK'
    BY <1>2, <2>1 DEF Emit, RestOK, New, Events, sessionVars
  <2>3. SocketOK' /\ QueryOK' /\ InItsRoom'
    BY <1>2 DEF Emit, SocketOK, QueryOK, InItsRoom, Mounted, queryVars
  <2>4. WireOK'
    <3>1. CASE e.room \in rooms
      <4>1. IsFiniteSet(wire \cup {e})  BY FS_AddElement DEF WireOK
      <4>2. QED  BY <1>2, <2>1, <3>1, <4>1 DEF Emit, WireOK
    <3>2. CASE e.room \notin rooms
      BY <1>2, <3>2, SameWire DEF Emit
    <3>3. QED  BY <3>1, <3>2
  <2>5. QED  BY <2>2, <2>3, <2>4
<1>3. ASSUME NEW p \in joins, Join(p)
      PROVE  Parts'
  <2>1. p \in Pages  BY DEF SocketOK
  <2>2. RestOK' /\ QueryOK'
    BY <1>3 DEF Join, RestOK, QueryOK, serverVars, sessionVars, queryVars
  <2>3. SocketOK' /\ InItsRoom'
    BY <1>3, <2>1 DEF Join, SocketOK, InItsRoom, Mounted
  <2>4. WireOK'  BY <1>3, SameWire DEF Join
  <2>5. QED  BY <2>2, <2>3, <2>4
<1>4. QED  BY <1>1, <1>2, <1>3 DEF Api

-----------------------------------------------------------------------------
(* The tab. *)

LEMMA QueryStep ==
    ASSUME Parts, NEW p \in Pages,
           Focus(p) \/ Read(p) \/ Arrive(p) \/ FetchFails(p) \/ Forget(p) \/ Refetch(p)
    PROVE  Parts'
<1> USE DEF Parts
<1>1. UNCHANGED <<serverVars, sessionVars, page, socketVars>>
  BY DEF Focus, Refetch, Read, Arrive, FetchFails, Forget
<1>2. QueryOK'
  <2>1. CASE Focus(p) \/ Refetch(p)  BY <2>1, SendOK DEF Focus, Refetch
  <2>2. CASE Read(p)
    <3>1. Listed(p) \subseteq Orders  BY DEF Listed
    <3>2. QED  BY <2>2, <3>1 DEF Read, QueryOK
  <2>3. CASE Arrive(p) \/ FetchFails(p)  BY <2>3, OverOK DEF Arrive, FetchFails
  <2>4. CASE Forget(p)  BY <2>4 DEF Forget, QueryOK
  <2>5. QED  BY <2>1, <2>2, <2>3, <2>4
<1>3. mine' \in BOOLEAN /\ (mine' => mine)
  <2>1. CASE Forget(p)  BY <2>1, Zenon DEF Forget, RestOK
  <2>2. CASE ~Forget(p)
    <3>1. UNCHANGED mine  BY <2>2 DEF Focus, Refetch, Read, Arrive, FetchFails
    <3>2. QED  BY <3>1, Zenon DEF RestOK
  <2>3. QED  BY <2>1, <2>2
<1>4. missed' \subseteq Orders
  <2>1. Listed(p) \subseteq Orders  BY DEF Listed
  <2>2. QED  BY <2>1 DEF Focus, Refetch, Read, Arrive, FetchFails, Forget, RestOK
<1>5. RestOK'  BY <1>1, <1>3, <1>4 DEF RestOK, serverVars, sessionVars
<1>6. SocketOK' /\ WireOK'  BY <1>1, SameWire DEF SocketOK, socketVars
<1>7. InItsRoom'  BY <1>1, <1>3 DEF InItsRoom, Mounted, socketVars
<1>8. QED  BY <1>2, <1>5, <1>6, <1>7

LEMMA ReceiveStep ==
    ASSUME Parts, NEW e \in wire, Receive(e)
    PROVE  Parts'
<1> USE DEF Parts
<1>1. e \in Events  BY DEF WireOK
<1>2. QueryOK'
  BY <1>1, SendOK DEF Receive, QueryOK, Events
<1>3. RestOK'
  BY <1>1 DEF Receive, RestOK, New, Events, serverVars, sessionVars
<1>4. SocketOK' /\ InItsRoom'
  BY DEF Receive, SocketOK, InItsRoom, Mounted
<1>5. WireOK'  BY SmallerWire DEF Receive
<1>6. QED  BY <1>2, <1>3, <1>4, <1>5

LEMMA PageStep ==
    ASSUME Parts,
           \/ \E p \in Pages \cup {"other"} : Visit(p)
           \/ \E u \in Users : Login(u)
           \/ LearnRestaurant
    PROVE  Parts'
<1> USE DEF Parts
<1>1. ASSUME NEW p \in Pages \cup {"other"}, Visit(p)
      PROVE  Parts'
  <2>1. SocketOK' /\ QueryOK' /\ InItsRoom' /\ page' \in Pages \cup {"other"}
    BY <1>1, ShowAsks, TokenTyped DEF Visit
  <2>2. RestOK'  BY <1>1, <2>1 DEF Visit, RestOK, serverVars, sessionVars
  <2>3. WireOK'  BY <1>1, SameWire DEF Visit
  <2>4. QED  BY <2>1, <2>2, <2>3
<1>2. ASSUME NEW u \in Users, Login(u)
      PROVE  Parts'
  <2>1. HomeOf(u) \in Pages  BY DEF HomeOf, Pages
  <2>2. SocketOK' /\ QueryOK' /\ InItsRoom' /\ page' \in Pages \cup {"other"}
    BY <1>2, <2>1, ShowAsks DEF Login
  <2>3. RestOK'
    BY <1>2, <2>2, DashboardsAssumption DEF Login, RestOK, serverVars
  <2>4. WireOK'  BY <1>2, SameWire DEF Login
  <2>5. QED  BY <2>2, <2>3, <2>4
<1>3. CASE LearnRestaurant
  <2>1. "kitchen" \in Pages  BY DEF Pages
  <2>2. /\ SocketOK' /\ QueryOK'
        /\ socket' = Worker("kitchen") => "kitchen" \in joins'
    BY <1>3, <2>1, MountAsks, TokenTyped DEF LearnRestaurant
  <2>3. RestOK'  BY <1>3 DEF LearnRestaurant, RestOK, serverVars, sessionVars
  <2>4. InItsRoom'  BY <1>3, <2>2 DEF LearnRestaurant, InItsRoom, Mounted
  <2>5. WireOK'  BY <1>3, SameWire DEF LearnRestaurant
  <2>6. QED  BY <2>2, <2>3, <2>4, <2>5
<1>4. QED  BY <1>1, <1>2, <1>3

-----------------------------------------------------------------------------
(* The connection. *)

LEMMA NewTyped == \A events \in SUBSET Events : New(events) \subseteq Orders
BY DEF New, Events

LEMMA ConnectionStep ==
    ASSUME Parts, Logout \/ Connect \/ Disconnect \/ Crash
    PROVE  Parts'
<1> USE DEF Parts
<1>1. CASE Logout \/ Disconnect \/ Crash
  <2>1. ~connected' /\ rooms' = {} /\ wire' = {} /\ UNCHANGED queryVars
    BY <1>1 DEF Logout, Disconnect, Crash, Disconnected
  <2>2. SocketOK'
    BY <1>1, <2>1 DEF SocketOK, Logout, Disconnect, Crash, Disconnected
  <2>3. New(wire) \subseteq Orders /\ ToBeTold \subseteq Orders
    BY NewTyped DEF WireOK, RestOK, ToBeTold
  <2>4. RestOK'
    <3>1. missed' \subseteq Orders
      BY <1>1, <2>3 DEF RestOK, Logout, Disconnect, Crash
    <3>2. /\ UNCHANGED status /\ UNCHANGED cookie /\ UNCHANGED mine
          /\ emitting' \subseteq emitting /\ page' \in {page, "other"}
      BY <1>1 DEF Logout, Disconnect, Crash, serverVars, sessionVars
    <3>3. loggedIn' = FALSE \/ UNCHANGED loggedIn
      BY <1>1 DEF Logout, Disconnect, Crash, sessionVars
    <3>4. loggedIn' \in BOOLEAN /\ (loggedIn' => cookie' # None)
      <4>1. CASE UNCHANGED loggedIn  BY <3>2, <4>1, Zenon DEF RestOK
      <4>2. QED  BY <3>3, <4>1
    <3>5. QED  BY <3>1, <3>2, <3>4 DEF RestOK
  <2>5. QueryOK' /\ InItsRoom'  BY <2>1 DEF QueryOK, InItsRoom, queryVars
  <2>6. QED  BY <2>1, <2>2, <2>4, <2>5, EmptyWire
<1>2. CASE Connect
  <2>1. RestOK' /\ QueryOK'
    BY <1>2 DEF Connect, RestOK, QueryOK, serverVars, sessionVars, queryVars
  <2>2. SocketOK' /\ InItsRoom'
    BY <1>2 DEF Connect, SocketOK, InItsRoom, Mounted
  <2>3. WireOK'  BY <1>2, SameWire DEF Connect
  <2>4. QED  BY <2>1, <2>2, <2>3
<1>3. QED  BY <1>1, <1>2

LEMMA StepKeepsIInv == IInv /\ [Next]_vars => IInv'
<1> SUFFICES ASSUME Parts, [Next]_vars PROVE Parts'  BY PartsMakeIInv, PTL
<1>1. CASE Api  BY <1>1, ApiStep
<1>2. CASE Tab
  <2>1. Poll => Parts'  BY QueryStep DEF Poll, Pages
  <2>2. QED  BY <1>2, <2>1, QueryStep, ReceiveStep, PageStep, ConnectionStep DEF Tab
<1>3. CASE Connect \/ Disconnect \/ Crash  BY <1>3, ConnectionStep
<1>4. CASE UNCHANGED vars
  <2>1. UNCHANGED <<serverVars, sessionVars, page, mine, socketVars, queryVars, missed>>
    BY <1>4 DEF vars
  <2>2. RestOK' /\ SocketOK' /\ QueryOK' /\ InItsRoom'
    BY <2>1 DEF Parts, RestOK, SocketOK, QueryOK, InItsRoom, Mounted, serverVars, sessionVars,
                socketVars, queryVars
  <2>3. WireOK'  BY <2>1, SameWire DEF Parts, socketVars
  <2>4. QED  BY <2>2, <2>3 DEF Parts
<1>5. QED  BY <1>1, <1>2, <1>3, <1>4 DEF Next

LEMMA InitIsRight == Init => IInv
<1> SUFFICES ASSUME Init PROVE Parts  BY PartsMakeIInv
<1>1. WireOK
  BY FS_EmptySet, DashboardsAssumption DEF Init, WireOK
<1>2. RestOK /\ SocketOK /\ QueryOK /\ InItsRoom
  BY DashboardsAssumption DEF Init, RestOK, SocketOK, QueryOK, InItsRoom
<1>3. QED  BY <1>1, <1>2 DEF Parts

LEMMA Invariant == Spec => []IInv
BY InitIsRight, StepKeepsIInv, PTL DEF Spec

-----------------------------------------------------------------------------
\* Rows, session, socket and queries keep their types; in particular a socket is in no room
\* that the role in its token does not open, and is told nothing of another room.
THEOREM TypeCorrect == Spec => []TypeOK
<1>1. IInv => TypeOK  BY DEF IInv
<1>2. QED  BY <1>1, Invariant, PTL

\* A connected socket of the right user is in the room of the page in front, or has asked to
\* be, after any sequence of pages, logins, lost connections and crashes
\* (dashboard/restaurant/page.tsx:37, dashboard/delivery/page.tsx).
THEOREM PagesAreInTheirRooms == Spec => []InItsRoom
<1>1. IInv => InItsRoom  BY DEF IInv
<1>2. QED  BY <1>1, Invariant, PTL

-----------------------------------------------------------------------------
(* The news of the kitchen. *)

\* A list that the kitchen has, or is about to get, names orders that are on its list still,
\* and the next one names all of the last.
ListsGrow ==
    /\ Shown("kitchen") \subseteq Listed("kitchen")
    /\ answer["kitchen"] \subseteq Listed("kitchen")
    /\ fetch["kitchen"] = "answered" => Shown("kitchen") \subseteq answer["kitchen"]

\* The kitchen's query is on its way to the database.
Asked == fetch["kitchen"] \in {"sent", "refused"}

\* The page is in front, or what its query has returned is kept, or is to come.
Watches == Mounted("kitchen") \/ data["kitchen"] # None \/ fetch["kitchen"] # "idle"

Known == Shown("kitchen") \cup answer["kitchen"] \cup ToBeTold \cup missed
Told == Watches /\ ~Asked => Listed("kitchen") \subseteq Known

NewsInv == IInv /\ ListsGrow /\ Told

LEMMA OrdersStayListed ==
    ASSUME TypeOK, [Next]_vars
    PROVE  Listed("kitchen") \subseteq Listed("kitchen")'
<1>1. ASSUME NEW o \in Orders, Place(o) \/ Accept(o) \/ Leave(o)
      PROVE  Listed("kitchen") \subseteq Listed("kitchen")'
  BY <1>1 DEF TypeOK, Listed, Place, Accept, Leave, Commit
<1>2. CASE UNCHANGED status
  BY <1>2 DEF Listed
<1>3. QED
  BY <1>1, <1>2 DEF Next, Api, Tab, Emit, Join, Focus, Poll, Refetch, Read, Arrive, FetchFails, Forget,
     LearnRestaurant, Receive, Visit, Login, Logout, Connect, Disconnect, Crash, vars, serverVars

\* A step that leaves the kitchen's query alone, and forgets no news.
LEMMA NewsKept ==
    ASSUME ListsGrow, Told, Listed("kitchen") \subseteq Listed("kitchen")',
           data'["kitchen"] = data["kitchen"], fetch'["kitchen"] = fetch["kitchen"],
           answer'["kitchen"] = answer["kitchen"],
           Mounted("kitchen")' => Watches,
           Listed("kitchen")' \subseteq Listed("kitchen") \cup ToBeTold',
           ToBeTold \cup missed \subseteq ToBeTold' \cup missed'
    PROVE  ListsGrow' /\ Told'
<1>1. Shown("kitchen")' = Shown("kitchen")
  BY DEF Shown
<1>2. ListsGrow'
  BY <1>1 DEF ListsGrow
<1>3. Watches' => Watches
  BY DEF Watches
<1>4. Known \subseteq Known'
  BY <1>1 DEF Known
<1>5. ToBeTold' \subseteq Known'
  BY DEF Known
<1>6. QED  BY <1>2, <1>3, <1>4, <1>5 DEF Told, Asked

\* A query that is sent will tell whatever there is.
LEMMA SendTells ==
    ASSUME QueryOK, ListsGrow, NEW user, Send("kitchen", user), UNCHANGED data,
           Listed("kitchen") \subseteq Listed("kitchen")'
    PROVE  ListsGrow' /\ Told'
<1>1. fetch'["kitchen"] \in {"sent", "refused"} /\ answer'["kitchen"] = {}
  BY DEF Send, QueryOK, Pages
<1>2. Shown("kitchen")' = Shown("kitchen")
  BY DEF Shown
<1>3. QED  BY <1>1, <1>2 DEF ListsGrow, Told, Asked

LEMMA NewsParts ==
    ASSUME NEW A \in SUBSET Events, NEW B \in SUBSET Events
    PROVE  New(A \cup B) = New(A) \cup New(B)
BY DEF New

LEMMA ApiNews ==
    ASSUME NewsInv, Api, Listed("kitchen") \subseteq Listed("kitchen")'
    PROVE  ListsGrow' /\ Told'
<1>1. emitting \subseteq Events /\ wire \subseteq Events /\ ListsGrow /\ Told /\ TypeOK
  BY DEF NewsInv, IInv, TypeOK
<1>2. UNCHANGED <<page, mine, data, fetch, answer>>
  BY DEF Api, Place, Accept, Leave, Commit, Emit, Join, queryVars
<1>3. Mounted("kitchen")' => Watches
  BY <1>2 DEF Mounted, Watches
<1>4. ASSUME NEW o \in Orders, Place(o) \/ Accept(o) \/ Leave(o)
      PROVE  ListsGrow' /\ Told'
  <2>1. emitting \subseteq emitting' /\ UNCHANGED <<wire, missed>>
    BY <1>4 DEF Place, Accept, Leave, Commit, socketVars
  <2>2. ToBeTold \subseteq ToBeTold'
    BY <2>1 DEF ToBeTold, New
  <2>3. Listed("kitchen")' \subseteq Listed("kitchen") \cup ToBeTold'
    <3>1. CASE Place(o)
      <4>1. Listed("kitchen")' \subseteq Listed("kitchen") \cup {o}
        BY <1>1, <3>1 DEF Place, Commit, Listed, TypeOK
      <4>2. [room |-> "kitchen", order |-> o] \in emitting'
        BY <3>1 DEF Place, Commit
      <4>3. o \in ToBeTold'
        BY <4>2 DEF ToBeTold, New
      <4>4. QED  BY <4>1, <4>3
    <3>2. CASE Accept(o) \/ Leave(o)
      BY <1>1, <3>2 DEF Accept, Leave, Commit, Listed, TypeOK
    <3>3. QED  BY <1>4, <3>1, <3>2
  <2>4. QED  BY <1>1, <1>2, <1>3, <2>1, <2>2, <2>3, NewsKept
<1>5. ASSUME NEW e \in emitting, Emit(e)  PROVE ListsGrow' /\ Told'
  <2>1. Listed("kitchen")' = Listed("kitchen")
    BY <1>5 DEF Emit, Listed
  <2>2. ToBeTold \cup missed \subseteq ToBeTold' \cup missed'
    BY <1>5 DEF Emit, ToBeTold, New
  <2>3. QED  BY <1>1, <1>2, <1>3, <2>1, <2>2, NewsKept
<1>6. ASSUME NEW p \in joins, Join(p)  PROVE ListsGrow' /\ Told'
  <2>1. Listed("kitchen")' = Listed("kitchen") /\ ToBeTold' = ToBeTold /\ UNCHANGED missed
    BY <1>6 DEF Join, Listed, serverVars, ToBeTold
  <2>2. QED  BY <1>1, <1>2, <1>3, <2>1, NewsKept
<1>7. QED  BY <1>4, <1>5, <1>6 DEF Api

\* Nothing happens to the rows, the wire and what is missed.
LEMMA QuietNews ==
    ASSUME UNCHANGED <<serverVars, wire, missed>>
    PROVE  Listed("kitchen")' = Listed("kitchen") /\ ToBeTold' = ToBeTold
BY DEF Listed, serverVars, ToBeTold

LEMMA QueryNews ==
    ASSUME NewsInv, NEW p \in Pages,
           Focus(p) \/ Read(p) \/ Arrive(p) \/ FetchFails(p) \/ Forget(p) \/ Refetch(p)
    PROVE  ListsGrow' /\ Told'
<1>1. /\ UNCHANGED <<serverVars, wire, page>>
      /\ missed \subseteq missed'
  BY DEF Focus, Refetch, Read, Arrive, FetchFails, Forget, socketVars
<1>2. Listed("kitchen")' = Listed("kitchen") /\ ToBeTold' = ToBeTold
  BY <1>1 DEF Listed, serverVars, ToBeTold
<1>3. QueryOK /\ ListsGrow /\ Told
  BY PartsMakeIInv DEF NewsInv, Parts
<1>4. mine' => mine
  <2>1. CASE Forget(p)  BY <2>1, Zenon DEF Forget
  <2>2. CASE ~Forget(p)
    <3>1. UNCHANGED mine  BY <2>2 DEF Focus, Refetch, Read, Arrive, FetchFails
    <3>2. QED  BY <3>1, Zenon
  <2>3. QED  BY <2>1, <2>2
<1>5. Mounted("kitchen")' => Mounted("kitchen")
  BY <1>1, <1>4 DEF Mounted
<1>6. CASE p # "kitchen"
  <2>1. /\ data'["kitchen"] = data["kitchen"] /\ fetch'["kitchen"] = fetch["kitchen"]
        /\ answer'["kitchen"] = answer["kitchen"]
    BY <1>3, <1>6 DEF Focus, Refetch, Read, Arrive, FetchFails, Forget, Send, Over, QueryOK, Pages
  <2>2. QED  BY <1>1, <1>2, <1>3, <1>5, <2>1, NewsKept DEF Watches
<1>7. CASE p = "kitchen"
  <2>1. CASE Focus(p) \/ Refetch(p)
    BY <1>2, <1>3, <1>7, <2>1, SendTells DEF Focus, Refetch
  <2>2. CASE Read(p)
    <3>1. /\ fetch'["kitchen"] = "answered" /\ answer'["kitchen"] = Listed("kitchen")
          /\ UNCHANGED data
      BY <1>3, <1>7, <2>2 DEF Read, QueryOK
    <3>2. Shown("kitchen")' = Shown("kitchen")
      BY <3>1 DEF Shown
    <3>3. QED  BY <1>2, <1>3, <3>1, <3>2 DEF ListsGrow, Told, Known
  <2>3. CASE Arrive(p)
    <3>1. /\ fetch["kitchen"] = "answered" /\ fetch'["kitchen"] = "idle"
          /\ data'["kitchen"] = answer["kitchen"] /\ answer'["kitchen"] = {}
          /\ UNCHANGED missed /\ answer["kitchen"] \in SUBSET Orders
      BY <1>3, <1>7, <2>3 DEF Arrive, Over, QueryOK
    <3>2. Shown("kitchen")' = answer["kitchen"] /\ Shown("kitchen") \subseteq answer["kitchen"]
      BY <1>3, <3>1, DashboardsAssumption DEF Shown, ListsGrow
    <3>3. Listed("kitchen") \subseteq Known
      BY <1>3, <3>1 DEF Told, Watches, Asked
    <3>4. QED  BY <1>2, <1>3, <3>1, <3>2, <3>3 DEF ListsGrow, Told, Known
  <2>4. CASE FetchFails(p)
    <3>1. /\ fetch'["kitchen"] = "idle" /\ answer'["kitchen"] = {} /\ UNCHANGED data
          /\ missed' = missed \cup (Listed("kitchen") \ (Shown("kitchen") \cup ToBeTold))
      BY <1>3, <1>7, <2>4 DEF FetchFails, Over, QueryOK
    <3>2. Shown("kitchen")' = Shown("kitchen")
      BY <3>1 DEF Shown
    <3>3. QED  BY <1>2, <1>3, <3>1, <3>2 DEF ListsGrow, Told, Known
  <2>5. CASE Forget(p)
    <3>1. /\ page # "kitchen" /\ fetch["kitchen"] = "idle" /\ data'["kitchen"] = None
          /\ UNCHANGED <<fetch, answer>>
      BY <1>3, <1>7, <2>5 DEF Forget, QueryOK
    <3>2. ~Watches' /\ Shown("kitchen")' = {}
      BY <1>1, <3>1 DEF Watches, Mounted, Shown
    <3>3. QED  BY <1>2, <1>3, <3>1, <3>2 DEF ListsGrow, Told
  <2>6. QED  BY <2>1, <2>2, <2>3, <2>4, <2>5
<1>8. QED  BY <1>6, <1>7

LEMMA ReceiveNews ==
    ASSUME NewsInv, NEW e \in wire, Receive(e)
    PROVE  ListsGrow' /\ Told'
<1>1. QueryOK /\ ListsGrow /\ Told /\ e \in Events
  BY PartsMakeIInv DEF NewsInv, Parts, WireOK
<1>2. /\ UNCHANGED <<status, emitting, page, mine, data>> /\ wire' = wire \ {e}
      /\ missed' = IF InTime(e.room) THEN missed ELSE missed \cup New({e})
  BY DEF Receive, serverVars
<1>3. Listed("kitchen")' = Listed("kitchen")
  BY <1>2 DEF Listed
<1>4. CASE e.room = "kitchen" /\ Mounted("kitchen") /\ ~KeepsOn("kitchen")
  <2>1. Send("kitchen", cookie)
    BY <1>4 DEF Receive
  <2>2. QED  BY <1>1, <1>2, <1>3, <2>1, SendTells
<1>5. CASE ~(e.room = "kitchen" /\ Mounted("kitchen") /\ ~KeepsOn("kitchen"))
  <2>1. fetch'["kitchen"] = fetch["kitchen"] /\ answer'["kitchen"] = answer["kitchen"]
    BY <1>1, <1>5 DEF Receive, Send, QueryOK, Events, Pages
  <2>2. e.room = "kitchen" => ~InTime(e.room)
    BY <1>5 DEF InTime, KeepsOn
  <2>3. ToBeTold \cup missed \subseteq ToBeTold' \cup missed'
    BY <1>2, <2>2 DEF ToBeTold, New
  <2>4. Mounted("kitchen")' => Watches
    BY <1>2 DEF Mounted, Watches
  <2>5. QED  BY <1>1, <1>2, <1>3, <2>1, <2>3, <2>4, NewsKept
<1>6. QED  BY <1>4, <1>5

LEMMA MountTells ==
    ASSUME NewsInv, NEW p \in Pages, NEW user, NEW token, Mount(p, user, token),
           UNCHANGED <<serverVars, wire, missed, data>>,
           p # "kitchen" => (Mounted("kitchen")' => Watches)
    PROVE  ListsGrow' /\ Told'
<1>1. QueryOK /\ ListsGrow /\ Told
  BY PartsMakeIInv DEF NewsInv, Parts
<1>2. CASE p = "kitchen" /\ fetch["kitchen"] = "idle"
  BY <1>1, <1>2, SendTells, QuietNews DEF Mount
<1>3. CASE ~(p = "kitchen" /\ fetch["kitchen"] = "idle")
  <2>1. fetch'["kitchen"] = fetch["kitchen"] /\ answer'["kitchen"] = answer["kitchen"]
    BY <1>1, <1>3 DEF Mount, Send, QueryOK, Pages
  <2>2. Mounted("kitchen")' => Watches
    BY <1>3 DEF Watches
  <2>3. QED  BY <1>1, <2>1, <2>2, NewsKept, QuietNews
<1>4. QED  BY <1>2, <1>3

LEMMA ShowTells ==
    ASSUME NewsInv, NEW p \in Pages \cup {"other"}, NEW user, NEW token, Show(p, user, token),
           UNCHANGED <<serverVars, wire, missed, data, mine>>
    PROVE  ListsGrow' /\ Told'
<1>1. CASE p \in Pages /\ (p = "kitchen" => mine)
  <2>1. Mount(p, user, token) /\ page' = p
    BY <1>1 DEF Show
  <2>2. p # "kitchen" => ~Mounted("kitchen")'
    BY <2>1 DEF Mounted
  <2>3. QED  BY <1>1, <2>1, <2>2, MountTells
<1>2. CASE ~(p \in Pages /\ (p = "kitchen" => mine))
  <2>1. UNCHANGED <<fetch, answer>> /\ ~Mounted("kitchen")'
    BY <1>2 DEF Show, Mounted, Pages
  <2>2. QED  BY <2>1, NewsKept, QuietNews DEF NewsInv
<1>3. QED  BY <1>1, <1>2

LEMMA ConnectionNews ==
    ASSUME NewsInv, Logout \/ Connect \/ Disconnect \/ Crash \/ UNCHANGED vars
    PROVE  ListsGrow' /\ Told'
<1>1. UNCHANGED <<status, mine, data, fetch, answer>> /\ page' \in {page, "other"}
  BY DEF Logout, Connect, Disconnect, Crash, vars, serverVars, queryVars
<1>2. Listed("kitchen")' = Listed("kitchen")
  BY <1>1 DEF Listed
<1>3. Mounted("kitchen")' => Watches
  BY <1>1 DEF Mounted, Watches
<1>4. ToBeTold \cup missed \subseteq ToBeTold' \cup missed'
  <2>1. CASE Logout \/ Disconnect
    BY <2>1 DEF Logout, Disconnect, Disconnected, serverVars, ToBeTold, New
  <2>2. CASE Connect \/ UNCHANGED vars
    BY <2>2 DEF Connect, vars, serverVars, socketVars, ToBeTold
  <2>3. CASE Crash
    BY <2>3 DEF Crash
  <2>4. QED  BY <2>1, <2>2, <2>3
<1>5. QED  BY <1>1, <1>2, <1>3, <1>4, NewsKept DEF NewsInv

LEMMA StepKeepsNews == NewsInv /\ [Next]_vars => NewsInv'
<1> SUFFICES ASSUME NewsInv, [Next]_vars PROVE ListsGrow' /\ Told'
  BY StepKeepsIInv DEF NewsInv
<1>1. Listed("kitchen") \subseteq Listed("kitchen")'
  BY OrdersStayListed DEF NewsInv, IInv
<1>2. CASE Api  BY <1>1, <1>2, ApiNews
<1>3. CASE Tab
  <2>1. Poll => ListsGrow' /\ Told'
    BY QueryNews DEF Poll, Pages
  <2>2. ASSUME NEW p \in Pages \cup {"other"}, Visit(p)
        PROVE  ListsGrow' /\ Told'
    BY <2>2, ShowTells DEF Visit
  <2>3. ASSUME NEW u \in Users, Login(u)  PROVE ListsGrow' /\ Told'
    <3>1. HomeOf(u) \in Pages  BY DEF HomeOf, Pages
    <3>2. QED  BY <2>3, <3>1, ShowTells DEF Login
  <2>4. LearnRestaurant => ListsGrow' /\ Told'
    <3>1. "kitchen" \in Pages  BY DEF Pages
    <3>2. QED  BY <3>1, MountTells DEF LearnRestaurant
  <2>5. Logout => ListsGrow' /\ Told'
    BY ConnectionNews
  <2>6. QED  BY <1>3, <2>1, <2>2, <2>3, <2>4, <2>5, QueryNews, ReceiveNews DEF Tab
<1>4. CASE Connect \/ Disconnect \/ Crash \/ UNCHANGED vars
  BY <1>4, ConnectionNews
<1>5. QED  BY <1>2, <1>3, <1>4 DEF Next

\* The kitchen has no timer. Whenever it is shown, each order on its list is shown or was
\* missed in one of the ways of KitchenHearsNew, or its event or an answer with it is still
\* to come: what is left to fairness is that these come.
NoNewsIsLost ==
    Mounted("kitchen") =>
        \/ fetch["kitchen"] \in {"sent", "refused"}
        \/ Listed("kitchen") \subseteq Shown("kitchen") \cup missed \cup ToBeTold \cup answer["kitchen"]

\* No order that was placed slips past the owner's page (dashboard/restaurant/page.tsx:56)
\* by the order in which answers, events, pages, logouts and crashes come, for any number of
\* orders: the safety part of KitchenHearsNew.
THEOREM NewsReachTheKitchen == Spec => []NoNewsIsLost
<1>1. Init => NewsInv
  <2> SUFFICES ASSUME Init PROVE NewsInv  OBVIOUS
  <2>1. IInv  BY InitIsRight
  <2>2. Listed("kitchen") = {} /\ Shown("kitchen") = {} /\ answer["kitchen"] = {}
    BY DEF Init, Listed, Shown, Pages
  <2>3. QED  BY <2>1, <2>2 DEF NewsInv, ListsGrow, Told
<1>2. NewsInv => NoNewsIsLost
  BY DEF NewsInv, Told, Watches, Asked, Known, NoNewsIsLost
<1>3. QED  BY <1>1, <1>2, StepKeepsNews, PTL DEF Spec
=============================================================================
