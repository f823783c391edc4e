----------------------------- MODULE Catalogue ------------------------------
(***************************************************************************)
(* The restaurants and their dishes in Postgres, and copies in Redis: of   *)
(* the list of open restaurants, and of the menu of each restaurant.  A    *)
(* reader that misses a copy selects the rows and stores them with a TTL;  *)
(* a handler that edits rows deletes the copy afterwards.  Every await is  *)
(* an action.  Of the columns is_open, is_available and stock are kept: an *)
(* edit of another one makes a copy old in the same way.  Orders take of   *)
(* the stock and delete no copy.  What the search makes of the dishes, in  *)
(* a column that no reader of a menu looks at, is in Concierge.            *)
(***************************************************************************)
EXTENDS Naturals, FiniteSets

CONSTANTS
    Dishes, Restaurants, None,
    Of,           \* the restaurant of each dish
    List,         \* restaurants:list; the other copies are named by their restaurant
    Edited,       \* bound: the dishes and restaurants that owners edit
    MaxStock,     \* bound: the units of a dish
    MaxEdits,     \* bound: edits under way, no two alike, that delete the same copy
    Asked,        \* bound: the copies that readers ask for
    Readers       \* bound: requests for a menu or the list under way

ASSUME CatalogueAssumption ==
    /\ Of \in [Dishes -> Restaurants]
    /\ List \notin Restaurants
    /\ MaxStock \in Nat
    /\ \A rows \in (SUBSET [dish : Dishes, left : 0..MaxStock]) \cup (SUBSET Restaurants) :
        None # rows
    /\ None \notin Restaurants \cup {List}
    /\ Asked \subseteq Restaurants \cup {List}
    /\ MaxEdits \in Nat

VARIABLES
    restaurant,    \* "new" before it is created, "open", "closed", "gone"
    dish,          \* "new" before it is created, "on" sale, "off", "gone"
    stock,         \* the units left of it, zero before and after
    cache,         \* Redis: the copies, None where there is none
    edits,         \* handlers of an edit: the copy each deletes next, and the dish that
                   \* is to be ingested after that, if any
    asked,         \* per reader: what it asked for
    step, list,    \* per reader: its next await, and what it has
    raced          \* history: copies that an edit may have overtaken

rowVars == <<restaurant, dish, stock>>
cacheVars == <<cache, edits, raced>>
readVars == <<asked, step, list>>
catalogueVars == <<rowVars, cacheVars, readVars>>

Copies == Restaurants \cup {List}
Items == [dish : Dishes, left : 0..MaxStock]
Rows == (SUBSET Items) \cup (SUBSET Restaurants)

\* The handlers that will delete a copy.
Under(k) == {e \in edits : e.copy = k}

\* What a query for a copy returns now.
OnSale(r) == {d \in Dishes : Of[d] = r /\ dish[d] = "on"}
Menu(r) == {[dish |-> d, left |-> stock[d]] : d \in OnSale(r)}
Current(k) == IF k = List THEN {r \in Restaurants : restaurant[r] = "open"} ELSE Menu(k)

CatalogueOK ==
    /\ restaurant \in [Restaurants -> {"new", "open", "closed", "gone"}]
    /\ dish \in [Dishes -> {"new", "on", "off", "gone"}]
    /\ stock \in [Dishes -> 0..MaxStock]
    /\ \A d \in Dishes : dish[d] \in {"on", "off"} => restaurant[Of[d]] \in {"open", "closed"}
    /\ cache \in [Copies -> Rows \cup {None}]
    /\ edits \subseteq [copy : Copies, ingest : Dishes \cup {None}]
    /\ \A k \in Copies : Cardinality(Under(k)) <= MaxEdits
    /\ raced \subseteq Copies
    /\ asked \in [Readers -> Copies \cup {None}]
    /\ step \in [Readers -> {"idle", "select", "fill"}]
    /\ \A g \in Readers : step[g] # "idle" => asked[g] # None
    /\ list \in [Readers -> Rows]

\* Some restaurants and dishes are there, the edited ones and what is theirs perhaps not yet.
CatalogueInit ==
    /\ restaurant \in [Restaurants -> {"new", "open"}]
    /\ dish \in [Dishes -> {"new", "on"}]
    /\ \A r \in Restaurants \ Edited : restaurant[r] = "open"
    /\ \A d \in Dishes \ Edited : dish[d] = "on" <=> restaurant[Of[d]] = "open"
    /\ \A d \in Dishes : dish[d] = "on" => restaurant[Of[d]] = "open"
    /\ stock = [d \in Dishes |-> IF dish[d] = "on" THEN MaxStock ELSE 0]
    /\ cache = [k \in Copies |-> None]
    /\ edits = {} /\ raced = {}
    /\ asked = [g \in Readers |-> None]
    /\ step = [g \in Readers |-> "idle"] /\ list = [g \in Readers |-> {}]

-----------------------------------------------------------------------------
(* listRestaurants and listMenu.                                           *)

Go(g, s) == step' = [step EXCEPT ![g] = s]
Has(g, rows) == list' = [list EXCEPT ![g] = rows]
For(g, k) == asked' = [asked EXCEPT ![g] = k]
Done(g) == Go(g, "idle") /\ For(g, None) /\ Has(g, {})

\* Redis answers the GET; without a copy the rows are selected next.
Ask(g, k) ==
    /\ step[g] = "idle"
    /\ IF cache[k] = None THEN Go(g, "select") /\ For(g, k)
                          ELSE UNCHANGED <<step, asked>>
    /\ UNCHANGED <<rowVars, cacheVars, list>>

Select(g) ==
    /\ step[g] = "select"
    /\ Go(g, "fill") /\ Has(g, Current(asked[g]))
    /\ UNCHANGED <<rowVars, cacheVars, asked>>

Fill(g) ==
    /\ step[g] = "fill"
    /\ cache' = [cache EXCEPT ![asked[g]] = list[g]]
    /\ Done(g)
    /\ UNCHANGED <<rowVars, edits, raced>>

\* Redis or Postgres refuses, or the process dies.
Fail(g) ==
    /\ step[g] # "idle"
    /\ Done(g)
    /\ UNCHANGED <<rowVars, cacheVars>>

Read(g) == Select(g) \/ Fill(g)

-----------------------------------------------------------------------------
(* The handlers that edit, up to their UPDATE.                             *)

\* A reader has selected what it is about to store as k.
Filling(k) == \E g \in Readers : step[g] = "fill" /\ asked[g] = k

\* Rows changed: the handler has yet to delete the copy k, and then to have d ingested.
Begin(k, d) ==
    /\ Cardinality(Under(k)) < MaxEdits
    /\ [copy |-> k, ingest |-> d] \notin edits
    /\ edits' = edits \cup {[copy |-> k, ingest |-> d]}
Edits(k, d) ==
    /\ Begin(k, d)
    /\ raced' = raced \cup {j \in {k} : Filling(j)}
    /\ UNCHANGED <<cache, readVars>>

SetDish(d, s, n) ==
    /\ dish' = [dish EXCEPT ![d] = s] /\ stock' = [stock EXCEPT ![d] = n]
    /\ UNCHANGED restaurant
SetRestaurant(r, s) == restaurant' = [restaurant EXCEPT ![r] = s] /\ UNCHANGED <<dish, stock>>

CreateMenuItem(d) ==
    /\ dish[d] = "new" /\ restaurant[Of[d]] \in {"open", "closed"}
    /\ \E n \in 0..MaxStock : SetDish(d, "on", n)
    /\ Edits(Of[d], d)

RestockUnnoticed(d) ==
    /\ dish[d] \in {"on", "off"}
    /\ \E n \in 0..MaxStock : SetDish(d, dish[d], n)
    /\ UNCHANGED <<cacheVars, readVars>>
UpdateMenuItem(d) ==
    /\ dish[d] \in {"on", "off"}
    /\ \E s \in {"on", "off"}, n \in 0..MaxStock : SetDish(d, s, n)
    /\ Edits(Of[d], d)

\* order_items keeps a dish that was ordered.
DeleteMenuItem(d, ordered) ==
    /\ dish[d] \in {"on", "off"} /\ d \notin ordered
    /\ SetDish(d, "gone", 0)
    /\ Edits(Of[d], None)

CreateRestaurant(r) ==
    /\ restaurant[r] = "new"
    /\ SetRestaurant(r, "open")
    /\ Edits(List, None)

UpdateRestaurant(r) ==
    /\ restaurant[r] \in {"open", "closed"}
    /\ \E s \in {"open", "closed"} : SetRestaurant(r, s)
    /\ Edits(List, None)

\* The dishes go with it (ON DELETE CASCADE), but the copy of its menu stays: of the copies
\* only the list is deleted.
Orphan(r) == raced' = raced \cup {r} \cup {k \in {List} : Filling(k)}
DeleteRestaurant(r, ordered) ==
    /\ restaurant[r] \in {"open", "closed"}
    /\ r \notin ordered /\ \A d \in ordered \cap Dishes : Of[d] # r
    /\ restaurant' = [restaurant EXCEPT ![r] = "gone"]
    /\ dish' = [d \in Dishes |-> IF Of[d] = r THEN "gone" ELSE dish[d]]
    /\ stock' = [d \in Dishes |-> IF Of[d] = r THEN 0 ELSE stock[d]]
    /\ Begin(List, None)
    /\ Orphan(r)
    /\ UNCHANGED <<cache, readVars>>

Edit(ordered) ==
    \/ \E d \in Dishes \cap Edited :
        CreateMenuItem(d) \/ UpdateMenuItem(d) \/ DeleteMenuItem(d, ordered)
    \/ \E r \in Restaurants \cap Edited :
        CreateRestaurant(r) \/ UpdateRestaurant(r) \/ DeleteRestaurant(r, ordered)

-----------------------------------------------------------------------------
(* placeOrder's UPDATE of the stock, which deletes no copy.                *)

Sell(ds) ==
    /\ \A d \in ds : dish[d] \in {"on", "off"}
    /\ \E left \in [ds -> 0..MaxStock] :
        /\ \A d \in ds : left[d] < stock[d]
        /\ stock' = [d \in Dishes |-> IF d \in ds THEN left[d] ELSE stock[d]]
    /\ UNCHANGED <<restaurant, dish, cacheVars, readVars>>

-----------------------------------------------------------------------------
(* The end of a copy.                                                      *)

Drop(k) ==
    /\ cache' = [cache EXCEPT ![k] = None]
    /\ raced' = IF Filling(k) THEN raced ELSE raced \ {k}
    /\ UNCHANGED <<rowVars, readVars>>

Invalidate(e) ==
    /\ edits' = edits \ {e}
    /\ Drop(e.copy)

\* Redis refuses the DEL, or the process dies before it.
LoseInvalidation(e) ==
    /\ edits' = edits \ {e}
    /\ raced' = raced \cup {e.copy}
    /\ UNCHANGED <<rowVars, cache, readVars>>

WithoutTtl(k) == FALSE
\* The TTL that Fill set is over.
Expire(k) ==
    /\ cache[k] # None
    /\ Drop(k)
    /\ UNCHANGED edits

End ==
    \/ \E e \in edits : Invalidate(e) \/ LoseInvalidation(e)
    \/ \E k \in Copies : Expire(k)
-----------------------------------------------------------------------------
\* The rows that were selected for k are the rows of now, but for the stock of dishes that
\* were ordered, of which there may be less.
Names(rows) == {d \in Dishes : \E i \in rows : i.dish = d}
Shows(k, rows, ordered) ==
    IF k = List THEN rows = Current(k)
    ELSE /\ rows \subseteq Items /\ Names(rows) = OnSale(k)
         /\ \A i \in rows : \/ i.left = stock[i.dish]
                            \/ i.left > stock[i.dish] /\ i.dish \in ordered

\* When owners stop editing and customers ordering, the copies end up as the rows are,
\* whatever races there were: none of the old ones outlives its TTL (constants.ts:3).
RowsSettle == <>[][FALSE]_rowVars
CacheConverges == RowsSettle => \A k \in Copies : <>[](cache[k] \in {None, Current(k)})
=============================================================================
