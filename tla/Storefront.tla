----------------------------- MODULE Storefront -----------------------------
(***************************************************************************)
(* A customer's browser: the page of a restaurant, the cart in local       *)
(* storage and the checkout page, over a Catalogue that owners edit.  An   *)
(* order goes to placeOrder, of which only the outcome is seen here        *)
(* (Checkout has the rest): it takes the basket as it comes, on sale or    *)
(* not, provided its rows exist, and its answer may be lost.               *)
(***************************************************************************)
EXTENDS Catalogue

CONSTANT Page    \* the reader of the restaurant's page

ASSUME StorefrontAssumption == Page \in Readers

VARIABLES
    menu,             \* the dishes on the restaurant's page
    cartOf, lines,    \* the cart: restaurantId, and its dishes
    placing,          \* the order under way, None without one
    orders,           \* the orders placed
    served            \* history: an order was placed for the cart as it is

browserVars == <<menu, cartOf, lines, placing, orders, served>>
vars == <<catalogueVars, browserVars>>

Baskets == [restaurant : Restaurants, dishes : SUBSET Dishes]
Ordered == UNION {o.dishes \cup {o.restaurant} : o \in orders}

TypeOK ==
    /\ CatalogueOK
    /\ menu \subseteq Dishes
    /\ cartOf \in Restaurants \cup {None} /\ lines \subseteq Dishes
    /\ cartOf = None <=> lines = {}
    /\ placing = None \/ placing \in [basket : Baskets, step : {"sent", "placed"}]
    /\ orders \subseteq Baskets
    /\ served \in BOOLEAN

\* The cart is that of an earlier visit.
Init ==
    /\ CatalogueInit
    /\ menu = {}
    /\ cartOf \in Restaurants \cup {None} /\ lines \in SUBSET Dishes
    /\ cartOf = None <=> lines = {}
    /\ \A d \in lines : Of[d] = cartOf /\ dish[d] # "new"
    /\ placing = None /\ orders = {} /\ served = FALSE

-----------------------------------------------------------------------------
(* The restaurant's page, and the other readers.                           *)

\* From the list or by a link; the page asks for the restaurant too, and shows no menu
\* without it.
Visit(r) ==
    /\ restaurant[r] \in {"open", "closed"}
    /\ Ask(Page, r)
    /\ menu' = IF cache[r] = None THEN {} ELSE Names(cache[r])
    /\ UNCHANGED <<cartOf, lines, placing, orders, served>>

Load ==
    /\ \/ Select(Page) /\ UNCHANGED menu
       \/ Fill(Page) /\ menu' = Names(list[Page])
    /\ UNCHANGED <<cartOf, lines, placing, orders, served>>

\* The home page and other clients.
Browse(g) == Read(g) \/ \E k \in Asked : Ask(g, k)

-----------------------------------------------------------------------------
(* cartStore.                                                              *)

Cart(r, ds) == cartOf' = r /\ lines' = ds /\ served' = FALSE

\* The dishes of another restaurant go.
WhateverIsThere(d) == lines
Kept(d) == IF cartOf = Of[d] THEN lines ELSE {}
Add(d) ==
    /\ d \in menu
    /\ Cart(Of[d], Kept(d) \cup {d})
    /\ UNCHANGED <<catalogueVars, menu, placing, orders>>

RemoveLine(d) ==
    /\ d \in lines
    /\ Cart(cartOf, lines \ {d})
    /\ UNCHANGED <<catalogueVars, menu, placing, orders>>
Remove(d) ==
    /\ d \in lines
    /\ Cart(IF lines = {d} THEN None ELSE cartOf, lines \ {d})
    /\ UNCHANGED <<catalogueVars, menu, placing, orders>>

\* The cart page's setQty never goes below one; quantities are left out.
SetQty(d) ==
    /\ d \in lines
    /\ Cart(cartOf, lines)
    /\ UNCHANGED <<catalogueVars, menu, placing, orders>>

Clear ==
    /\ lines # {}
    /\ Cart(None, {})
    /\ UNCHANGED <<catalogueVars, menu, placing, orders>>

-----------------------------------------------------------------------------
(* The checkout page.                                                      *)

\* A click on "Place Order"; the page then goes on, and the customer may edit the cart.
Place ==
    /\ placing = None
    /\ cartOf # None /\ lines # {}
    /\ placing' = [basket |-> [restaurant |-> cartOf, dishes |-> lines],
                   step |-> "sent"]
    /\ UNCHANGED <<catalogueVars, menu, cartOf, lines, orders, served>>

\* placeOrder commits the order, unless its rows are gone.  It would know a request by its key,
\* but each click draws a new one.
Commit ==
    /\ placing # None /\ placing.step = "sent"
    /\ restaurant[placing.basket.restaurant] \in {"open", "closed"}
    /\ Sell(placing.basket.dishes)
    /\ orders' = orders \cup {placing.basket}
    /\ served' = (placing.basket.dishes = lines)
    /\ placing' = [placing EXCEPT !.step = "placed"]
    /\ UNCHANGED <<menu, cartOf, lines>>

\* The answer arrives: the cart is cleared, whatever it has become.
Succeed ==
    /\ placing # None /\ placing.step = "placed"
    /\ Cart(None, {})
    /\ placing' = None
    /\ UNCHANGED <<catalogueVars, menu, orders>>

\* The order was refused, or its answer was lost: the page says that it could not be placed.
Err ==
    /\ placing # None
    /\ placing' = None
    /\ UNCHANGED <<catalogueVars, menu, cartOf, lines, orders, served>>

Shop ==
    \/ \E d \in Dishes : Add(d) \/ Remove(d) \/ SetQty(d)
    \/ Clear \/ Place \/ Commit \/ Succeed \/ Err

Serve ==
    \/ \E g \in Readers \ {Page} : Browse(g)
    \/ \E g \in Readers : Fail(g)
    \/ Edit(Ordered)
    \/ End

Next ==
    \/ \E r \in Restaurants \cap Asked : Visit(r)
    \/ Load
    \/ Shop
    \/ Serve /\ UNCHANGED browserVars

Spec == Init /\ [][Next]_vars

\* A copy expires when its TTL is over.
FairSpec == Spec /\ \A k \in Copies : WF_vars(Expire(k) /\ UNCHANGED browserVars)
-----------------------------------------------------------------------------
\* A copy shows the rows as they are (invalidateMenu, menu.cache.ts:24), unless the handler
\* of an edit has its DEL still to make, a reader stored what it had selected before an edit,
\* a DEL was lost, it is the menu of a deleted restaurant, or a dish was ordered: then the
\* copy may promise more of it than is left (order.service.ts:128), but never less.
CopyIsCurrent ==
    \A k \in Copies : \/ cache[k] = None \/ Shows(k, cache[k], Ordered)
                      \/ Under(k) # {} \/ k \in raced

\* The dishes of an order are of the restaurant that is to cook them.  placeOrder does not
\* compare them (order.service.ts:128); it rests on what the cart does in the browser.
OrderOfOneRestaurant == \A o \in orders : \A d \in o.dishes : Of[d] = o.restaurant

\* One order for a cart that the customer has not touched since: "Prevents double-charging
\* or duplicated order execution" (README.md:29).
OneOrderPerBasket ==
    [][placing' # None /\ placing'.step = "placed" /\ placing # placing' => ~served]_vars
=============================================================================
