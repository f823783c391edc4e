----------------------------- MODULE Dashboards -----------------------------
(***************************************************************************)
(* One browser tab with the pages that list orders for those who work: the *)
(* kitchen of a restaurant's owner, which learns of new orders only by an  *)
(* event, and the trips of the partners, which are polled too.  A page     *)
(* joins a room of the API with the tab's only socket, made by the first   *)
(* page that needs one with the token of that moment.  Logging out closes  *)
(* the socket, but keeps the cookie, by which requests without a token are *)
(* answered, and what the queries have returned.  Of an order only what    *)
(* these lists tell apart is kept.                                         *)
(***************************************************************************)
EXTENDS Naturals, FiniteSets

CONSTANTS
    Orders,
    Owner, Rider,    \* the users of this tab: an owner and a partner
    Guest,           \* the holder of a socket made without a token
    None,
    MaxWire,         \* bound: events on their way to the tab
    MayCrash         \* whether the API process may die

Users == {Owner, Rider}
Pages == {"kitchen", "trips"}

ASSUME DashboardsAssumption ==
    /\ Owner # Rider /\ Guest \notin Users /\ None \notin Users \cup {Guest}
    /\ \A rows \in SUBSET Orders : None # rows
    /\ MaxWire \in Nat \ {0}
    /\ MayCrash \in BOOLEAN

VARIABLES
    status,              \* per order: "none" before its commit, "placed", "cooking", "gone"
    emitting,            \* events that handlers have yet to emit
    cookie, loggedIn,    \* whom the cookie is of; whether the tab has his token too
    page,                \* the page in front, "other" for one without a list
    mine,                \* whether the query for the owner's restaurant has returned
    socket, connected,   \* None without a socket, or whose token it was made with
    joins, rooms,        \* rooms it has asked to join, and is in, named by their page
    wire,                \* events on their way to the tab
    data, fetch,         \* per page: what its query returned last, and its request
    answer,              \* per page: what the database answered to that request
    missed               \* history: new orders of which the kitchen was not told

serverVars == <<status, emitting>>
sessionVars == <<cookie, loggedIn>>
socketVars == <<socket, connected, joins, rooms, wire>>
queryVars == <<data, fetch, answer>>
vars == <<serverVars, sessionVars, page, mine, socketVars, queryVars, missed>>

Events == [room : Pages, order : Orders]
Worker(p) == IF p = "kitchen" THEN Owner ELSE Rider

TypeOK ==
    /\ status \in [Orders -> {"none", "placed", "cooking", "gone"}]
    /\ emitting \subseteq Events
    /\ cookie \in Users \cup {None} /\ loggedIn \in BOOLEAN
    /\ loggedIn => cookie # None
    /\ page \in Pages \cup {"other"} /\ mine \in BOOLEAN
    /\ socket \in Users \cup {Guest, None} /\ connected \in BOOLEAN
    /\ connected => socket \in Users
    /\ joins \subseteq Pages
    /\ rooms \subseteq {p \in Pages : connected /\ Worker(p) = socket}
    /\ wire \subseteq Events /\ Cardinality(wire) <= MaxWire
    /\ \A e \in wire : e.room \in rooms
    /\ data \in [Pages -> (SUBSET Orders) \cup {None}]
    /\ fetch \in [Pages -> {"idle", "sent", "refused", "answered"}]
    /\ answer \in [Pages -> SUBSET Orders]
    /\ \A p \in Pages : fetch[p] # "answered" => answer[p] = {}
    /\ missed \subseteq Orders

Init ==
    /\ status = [o \in Orders |-> "none"]
    /\ emitting = {} /\ wire = {} /\ missed = {}
    /\ cookie = None /\ loggedIn = FALSE
    /\ page = "other" /\ mine = FALSE
    /\ socket = None /\ connected = FALSE /\ joins = {} /\ rooms = {}
    /\ data = [p \in Pages |-> None] /\ fetch = [p \in Pages |-> "idle"]
    /\ answer = [p \in Pages |-> {}]

-----------------------------------------------------------------------------
(* The API.                                                                *)

\* What the query of a page returns.
Listed(p) == {o \in Orders : status[o] \in
                 IF p = "kitchen" THEN {"placed", "cooking", "gone"} ELSE {"cooking"}}

\* placeOrder commits, or the owner accepts; the handler then tells the room of that page.
Commit(o, from, to, p) ==
    /\ status[o] = from
    /\ status' = [status EXCEPT ![o] = to]
    /\ emitting' = emitting \cup {[room |-> p, order |-> o]}
    /\ UNCHANGED <<sessionVars, page, mine, socketVars, queryVars, missed>>

Place(o) == Commit(o, "none", "placed", "kitchen")
Accept(o) == Commit(o, "placed", "cooking", "trips")

\* A claim or a cancellation: neither room is told.
Leave(o) ==
    /\ status[o] \in {"placed", "cooking"}
    /\ status' = [status EXCEPT ![o] = "gone"]
    /\ UNCHANGED <<emitting, sessionVars, page, mine, socketVars, queryVars, missed>>

New(events) == {e.order : e \in {f \in events : f.room = "kitchen"}}

Emit(e) ==
    /\ emitting' = emitting \ {e}
    /\ IF e.room \in rooms
       THEN /\ Cardinality(wire \cup {e}) <= MaxWire
            /\ wire' = wire \cup {e} /\ UNCHANGED missed
       ELSE missed' = missed \cup New({e}) /\ UNCHANGED wire
    /\ UNCHANGED <<status, sessionVars, page, mine, socket, connected, joins, rooms, queryVars>>

JoinAnyone(p) ==
    /\ connected /\ p \in joins
    /\ joins' = joins \ {p}
    /\ rooms' = rooms \cup {p}
    /\ UNCHANGED <<serverVars, sessionVars, page, mine, socket, connected, wire, queryVars, missed>>
\* By the role in the socket's token.
Join(p) ==
    /\ connected /\ p \in joins
    /\ joins' = joins \ {p}
    /\ rooms' = IF socket = Worker(p) THEN rooms \cup {p} ELSE rooms
    /\ UNCHANGED <<serverVars, sessionVars, page, mine, socket, connected, wire, queryVars, missed>>

-----------------------------------------------------------------------------
(* The pages.                                                              *)

\* Whose request it is: the token's user's, or else the cookie's.
Send(p, user) ==
    /\ fetch' = [fetch EXCEPT ![p] = IF user = Worker(p) THEN "sent" ELSE "refused"]
    /\ answer' = [answer EXCEPT ![p] = {}]

\* A page that is shown sends its query, unless one is under way, and asks to join its room
\* by the tab's socket.
Mount(p, user, token) ==
    /\ socket' = IF socket = None THEN token ELSE socket
    /\ joins' = IF socket' = Guest THEN joins ELSE joins \cup {p}
    /\ IF fetch[p] = "idle" THEN Send(p, user) ELSE UNCHANGED <<fetch, answer>>

\* The kitchen does so once it knows its restaurant.
Show(p, user, token) ==
    /\ page' = p
    /\ IF p \in Pages /\ (p = "kitchen" => mine)
       THEN Mount(p, user, token)
       ELSE UNCHANGED <<socket, joins, fetch, answer>>

Token == IF loggedIn THEN cookie ELSE Guest

\* By a link, or by Back.
Visit(p) ==
    /\ page # p
    /\ Show(p, cookie, Token)
    /\ UNCHANGED <<serverVars, sessionVars, mine, connected, rooms, wire, data, missed>>

LearnRestaurant ==
    /\ page = "kitchen" /\ ~mine /\ cookie = Owner
    /\ mine' = TRUE
    /\ Mount("kitchen", Owner, Token)
    /\ UNCHANGED <<serverVars, sessionVars, page, connected, rooms, wire, data, missed>>

Mounted(p) == page = p /\ (p = "kitchen" => mine)

\* The window is focused, or the trips' refetchInterval is over.
Refetch(p) ==
    /\ Mounted(p) /\ fetch[p] = "idle"
    /\ Send(p, cookie)
    /\ UNCHANGED <<serverVars, sessionVars, page, mine, socketVars, data, missed>>
Focus(p) == Refetch(p)
FirstOnly == data["trips"] = None /\ Refetch("trips")
Poll == Refetch("trips")

Read(p) ==
    /\ fetch[p] = "sent"
    /\ fetch' = [fetch EXCEPT ![p] = "answered"]
    /\ answer' = [answer EXCEPT ![p] = Listed(p)]
    /\ UNCHANGED <<serverVars, sessionVars, page, mine, socketVars, data, missed>>

Over(p) ==
    /\ fetch' = [fetch EXCEPT ![p] = "idle"]
    /\ answer' = [answer EXCEPT ![p] = {}]

Arrive(p) ==
    /\ fetch[p] = "answered"
    /\ data' = [data EXCEPT ![p] = answer[p]]
    /\ Over(p)
    /\ UNCHANGED <<serverVars, sessionVars, page, mine, socketVars, missed>>

Shown(p) == IF data[p] = None THEN {} ELSE data[p]
ToBeTold == New(emitting \cup wire)

\* Also after its retries: what an event has just told is on no list then.
FetchFails(p) ==
    /\ fetch[p] # "idle"
    /\ Over(p)
    /\ missed' = IF p = "kitchen"
                 THEN missed \cup (Listed(p) \ (Shown(p) \cup ToBeTold))
                 ELSE missed
    /\ UNCHANGED <<serverVars, sessionVars, page, mine, socketVars, data>>

Deduplicated(p) == fetch[p] # "idle"
\* invalidateQueries: a request under way starts anew, unless it is the first.
KeepsOn(p) == fetch[p] # "idle" /\ data[p] = None

\* The page is in front, and has shown a list or waits for none.
InTime(p) == Mounted(p) /\ (data[p] # None \/ fetch[p] = "idle")
Receive(e) ==
    /\ wire' = wire \ {e}
    /\ IF Mounted(e.room) /\ ~KeepsOn(e.room)
       THEN Send(e.room, cookie)
       ELSE UNCHANGED <<fetch, answer>>
    /\ missed' = IF InTime(e.room) THEN missed ELSE missed \cup New({e})
    /\ UNCHANGED <<serverVars, sessionVars, page, mine, socket, connected, joins, rooms, data>>

\* What no page shows is forgotten five minutes later.
Forget(p) ==
    /\ page # p /\ fetch[p] = "idle" /\ data[p] # None
    /\ data' = [data EXCEPT ![p] = None]
    /\ mine' = (mine /\ p # "kitchen")
    /\ UNCHANGED <<serverVars, sessionVars, page, socketVars, fetch, answer, missed>>

-----------------------------------------------------------------------------
(* The session and the connection.                                         *)

HomeOf(u) == IF u = Owner THEN "kitchen" ELSE "trips"

\* The answer to a login or a registration; the page of the user's role follows.
Login(u) ==
    /\ page = "other"
    /\ cookie' = u /\ loggedIn' = TRUE
    /\ Show(HomeOf(u), u, u)
    /\ UNCHANGED <<serverVars, mine, connected, rooms, wire, data, missed>>

\* The events on the wire are lost with it.
Disconnected ==
    /\ connected' = FALSE
    /\ joins' = {} /\ rooms' = {} /\ wire' = {}

\* closeSocket, then the page for logging in.
Logout ==
    /\ loggedIn
    /\ loggedIn' = FALSE /\ page' = "other"
    /\ socket' = None /\ Disconnected
    /\ missed' = missed \cup New(wire)
    /\ UNCHANGED <<serverVars, cookie, mine, queryVars>>

\* The API refuses a socket without a token, which then does not try again.
\* A mounted page asks to join again.
ConnectOnly ==
    /\ socket \in Users /\ ~connected
    /\ connected' = TRUE
    /\ UNCHANGED <<serverVars, sessionVars, page, mine, socket, joins, rooms, wire, queryVars, missed>>
Connect ==
    /\ socket \in Users /\ ~connected
    /\ connected' = TRUE
    /\ joins' = joins \cup {p \in Pages : Mounted(p)}
    /\ UNCHANGED <<serverVars, sessionVars, page, mine, socket, rooms, wire, queryVars, missed>>

Disconnect ==
    /\ connected
    /\ Disconnected
    /\ missed' = missed \cup New(wire)
    /\ UNCHANGED <<serverVars, sessionVars, page, mine, socket, queryVars>>

Crash ==
    /\ MayCrash
    /\ connected' = FALSE /\ rooms' = {} /\ wire' = {}
    /\ joins' = IF connected THEN {} ELSE joins
    /\ emitting' = {}
    /\ missed' = missed \cup ToBeTold
    /\ UNCHANGED <<status, sessionVars, page, mine, socket, queryVars>>

Api ==
    \/ \E o \in Orders : Place(o) \/ Accept(o) \/ Leave(o)
    \/ \E e \in emitting : Emit(e)
    \/ \E p \in joins : Join(p)

Tab ==
    \/ \E p \in Pages : Focus(p) \/ Read(p) \/ Arrive(p) \/ FetchFails(p) \/ Forget(p)
    \/ Poll \/ LearnRestaurant
    \/ \E e \in wire : Receive(e)
    \/ \E p \in Pages \cup {"other"} : Visit(p)
    \/ \E u \in Users : Login(u)
    \/ Logout

Next == Api \/ Tab \/ Connect \/ Disconnect \/ Crash

Spec == Init /\ [][Next]_vars

\* Handlers go on after an await, the tab's event loop goes on, and a request is answered or
\* fails; the timer of the trips fires, and of their answers not all are lost.
Fairness ==
    /\ WF_vars(\E e \in emitting : Emit(e)) /\ WF_vars(\E e \in wire : Receive(e))
    /\ WF_vars(Poll)
    /\ WF_vars(Read("kitchen")) /\ WF_vars(Arrive("kitchen"))
    /\ SF_vars(Read("trips")) /\ SF_vars(Arrive("trips"))
    /\ \A p \in Pages : WF_vars(FetchFails(p) /\ fetch[p] = "refused")

FairSpec == Spec /\ Fairness
-----------------------------------------------------------------------------
\* A connected socket of the right user is in the room of the page in front, or has asked to
\* be: whatever pages, logins and connections came before (dashboard/restaurant/page.tsx:37,
\* dashboard/restaurant/page.tsx:56).
InItsRoom ==
    \A p \in Pages : Mounted(p) /\ connected /\ socket = Worker(p) => p \in rooms \cup joins

\* The kitchen has no timer.  An owner who stays on its page still gets every order on his
\* list, unless its one event was lost: it was emitted while the socket was not in the room
\* (no connection, a socket without a token or of another login), was never emitted, came
\* while another page was shown or before the first list did, or its query failed.
KitchenHearsNew ==
    <>[]Mounted("kitchen") => \A o \in Orders : <>[](o \in Listed("kitchen") =>
                                                        o \in Shown("kitchen") \cup missed)

\* A partner who stays on his page ends with the trips there are, whatever socket the tab is
\* left with and whoever's requests are still under way.
TripsConverge ==
    <>[](Mounted("trips") /\ cookie = Rider) /\ <>[][FALSE]_status =>
        <>[](data["trips"] = Listed("trips"))
=============================================================================
