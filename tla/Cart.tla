-------------------------------- MODULE Cart --------------------------------
(***************************************************************************)
(* A user's cart in Postgres: the handlers of /cart, one action per await, *)
(* and the cleanup job of the worker process.  Only clearCart uses a       *)
(* transaction; every other statement is seen by all at once.  A call is a *)
(* slot for one request in flight; getCart only reads.                     *)
(***************************************************************************)
CONSTANTS
    Dishes, Restaurants, None,
    Of,         \* the restaurant of each dish
    Calls,      \* bound: requests in flight at a time
    MayFail     \* whether a call may throw, or its process die, at any await

Ops == {"add", "update", "remove", "clear"}
Requests == [op : Ops, dish : Dishes]

ASSUME CartAssumption ==
    /\ Of \in [Dishes -> Restaurants]
    /\ None \notin Restaurants \cup Requests
    /\ MayFail \in BOOLEAN

VARIABLES
    menu,          \* per dish: "on" sale, switched "off", or "gone"
    restaurant,    \* carts.restaurant_id
    lines,         \* cart_items: the dishes in it; how many of each makes no difference here
    old,           \* carts.updated_at is more than two hours ago
    step, call,    \* per call: its next await, and its request
    deleted,       \* per call: the rows its open transaction has deleted
    cleaner,       \* the cleanup job: "idle", or its next statement
    overlapped     \* history: an addItem and another writer have been under way at once

cartVars == <<restaurant, lines, old>>
callVars == <<step, call, deleted>>
vars == <<menu, cartVars, callVars, cleaner, overlapped>>

Steps == {"idle", "dish", "open", "drop", "name", "put", "set", "take", "count", "unname",
          "empty", "commit"}

TypeOK ==
    /\ menu \in [Dishes -> {"on", "off", "gone"}]
    /\ restaurant \in Restaurants \cup {None}
    /\ lines \subseteq {d \in Dishes : menu[d] # "gone"}
    /\ old \in BOOLEAN /\ overlapped \in BOOLEAN
    /\ step \in [Calls -> Steps]
    /\ call \in [Calls -> Requests \cup {None}]
    /\ \A c \in Calls : step[c] = "idle" <=> call[c] = None
    /\ deleted \in [Calls -> SUBSET Dishes]
    /\ cleaner \in {"idle", "delete", "reset"}

Init ==
    /\ menu = [d \in Dishes |-> "on"]
    /\ restaurant = None /\ lines = {} /\ old = FALSE
    /\ step = [c \in Calls |-> "idle"] /\ call = [c \in Calls |-> None]
    /\ deleted = [c \in Calls |-> {}]
    /\ cleaner = "idle"
    /\ overlapped = FALSE

-----------------------------------------------------------------------------
Busy == {c \in Calls : step[c] # "idle"}
Writers == {c \in Busy : call[c].op # "update"}
Adding == {c \in Busy : call[c].op = "add"}

At(c, s) == step[c] = s
Goto(c, s) == step' = [step EXCEPT ![c] = s] /\ UNCHANGED <<call, deleted>>
End(c) == step' = [step EXCEPT ![c] = "idle"] /\ call' = [call EXCEPT ![c] = None]
Done(c) == End(c) /\ UNCHANGED deleted
Dish(c) == call[c].dish

\* A statement on a row that an open transaction has deleted waits for its end.
Held(d) == \E c \in Calls : d \in deleted[c]

Become(ds) == lines' = ds /\ UNCHANGED <<restaurant, old>>
Touch(r) == restaurant' = r /\ old' = FALSE    \* the trigger sets updated_at

Start(c) ==
    /\ At(c, "idle")
    /\ \E r \in Requests :
        /\ call' = [call EXCEPT ![c] = r]
        /\ step' = [step EXCEPT ![c] = IF r.op = "add" THEN "dish" ELSE "open"]
        /\ overlapped' = \/ overlapped
                         \/ r.op = "add" /\ (Writers # {} \/ cleaner # "idle")
                         \/ r.op # "update" /\ Adding # {}
    /\ UNCHANGED <<menu, cartVars, deleted, cleaner>>

\* addItem: 404 for a dish that is gone, 400 for one that is off.
ReadDish(c) ==
    /\ At(c, "dish")
    /\ IF menu[Dish(c)] = "on" THEN Goto(c, "open") ELSE Done(c)
    /\ UNCHANGED <<menu, cartVars, cleaner, overlapped>>

\* getOrCreateCart.
KeepsAll(c, r) == FALSE
Mixes(c, r) == r # None /\ r # Of[Dish(c)]
OpenCart(c) ==
    /\ At(c, "open")
    /\ step' = [step EXCEPT ![c] =
           CASE call[c].op = "add" -> IF Mixes(c, restaurant) THEN "drop" ELSE "name"
             [] call[c].op = "update" -> "set"
             [] call[c].op = "remove" -> "take"
             [] OTHER -> "empty"]
    /\ UNCHANGED <<menu, cartVars, call, deleted, cleaner, overlapped>>

\* The dishes of another restaurant go first.
Drop(c) ==
    /\ At(c, "drop")
    /\ \A d \in Dishes : ~Held(d)
    /\ lines' = {}
    /\ Goto(c, "name")
    /\ UNCHANGED <<menu, restaurant, old, cleaner, overlapped>>

Name(c) ==
    /\ At(c, "name")
    /\ Touch(Of[Dish(c)])
    /\ Goto(c, "put")
    /\ UNCHANGED <<menu, lines, cleaner, overlapped>>

\* The upsert; refused by its foreign key when the dish has gone meanwhile.
Put(c) ==
    /\ At(c, "put")
    /\ ~Held(Dish(c))
    /\ Become(IF menu[Dish(c)] = "gone" THEN lines ELSE lines \cup {Dish(c)})
    /\ Done(c)
    /\ UNCHANGED <<menu, cleaner, overlapped>>

\* updateItemQuantity changes a quantity and leaves the row of the cart, and its age.
SetQuantity(c) ==
    /\ At(c, "set")
    /\ ~Held(Dish(c))
    /\ Done(c)
    /\ UNCHANGED <<menu, cartVars, cleaner, overlapped>>

\* removeItem: the DELETE, the COUNT, and the UPDATE after the last dish.
Take(c) ==
    /\ At(c, "take")
    /\ ~Held(Dish(c))
    /\ Become(lines \ {Dish(c)})
    /\ IF Dish(c) \in lines THEN Goto(c, "count") ELSE Done(c)
    /\ UNCHANGED <<menu, cleaner, overlapped>>

CountLeft(c) ==
    /\ At(c, "count")
    /\ IF lines # {} THEN Done(c) ELSE Goto(c, "unname")
    /\ UNCHANGED <<menu, cartVars, cleaner, overlapped>>

Unname(c) ==
    /\ At(c, "unname")
    /\ Touch(None)
    /\ Done(c)
    /\ UNCHANGED <<menu, lines, cleaner, overlapped>>

\* clearCart's transaction: its DELETE sees the rows there are, and locks them.
Empty(c) ==
    /\ At(c, "empty")
    /\ \A d \in Dishes : ~Held(d)
    /\ deleted' = [deleted EXCEPT ![c] = lines]
    /\ step' = [step EXCEPT ![c] = "commit"]
    /\ UNCHANGED <<menu, cartVars, call, cleaner, overlapped>>

CommitClear(c) ==
    /\ At(c, "commit")
    /\ lines' = lines \ deleted[c]
    /\ Touch(None)
    /\ deleted' = [deleted EXCEPT ![c] = {}]
    /\ End(c)
    /\ UNCHANGED <<menu, cleaner, overlapped>>

\* An await throws, or the process dies: what was done stays, a transaction is undone.
Fail(c) ==
    /\ MayFail
    /\ c \in Busy
    /\ End(c)
    /\ deleted' = [deleted EXCEPT ![c] = {}]
    /\ UNCHANGED <<menu, cartVars, cleaner, overlapped>>

Serve(c) ==
    \/ ReadDish(c) \/ OpenCart(c) \/ Drop(c) \/ Name(c) \/ Put(c) \/ SetQuantity(c)
    \/ Take(c) \/ CountLeft(c) \/ Unname(c) \/ Empty(c) \/ CommitClear(c)

-----------------------------------------------------------------------------
(* runCleanup: SELECT the stale carts, DELETE their dishes, UPDATE them.  *)

ResetFirst == [idle |-> "reset", reset |-> "delete", delete |-> "idle"]
Follows == [idle |-> "delete", delete |-> "reset", reset |-> "idle"]

Stale == old /\ restaurant # None
SelectStale ==
    /\ cleaner = "idle"
    /\ Stale
    /\ cleaner' = Follows["idle"]
    /\ overlapped' = (overlapped \/ Adding # {})
    /\ UNCHANGED <<menu, cartVars, callVars>>

DeleteStale ==
    /\ cleaner = "delete"
    /\ \A d \in Dishes : ~Held(d)
    /\ lines' = {}
    /\ cleaner' = Follows["delete"]
    /\ UNCHANGED <<menu, restaurant, old, callVars, overlapped>>

ResetStale ==
    /\ cleaner = "reset"
    /\ Touch(None)
    /\ cleaner' = Follows["reset"]
    /\ UNCHANGED <<menu, lines, callVars, overlapped>>

CleanupFails ==
    /\ MayFail
    /\ cleaner # "idle"
    /\ cleaner' = "idle"
    /\ UNCHANGED <<menu, cartVars, callVars, overlapped>>

Clean == SelectStale \/ DeleteStale \/ ResetStale

-----------------------------------------------------------------------------
(* The world.                                                              *)

\* Two hours without a write; no call is that slow.
Age ==
    /\ Busy = {} /\ cleaner = "idle"
    /\ old' = TRUE
    /\ UNCHANGED <<menu, restaurant, lines, callVars, cleaner, overlapped>>

\* The owner switches a dish off or on.
Switch(d) ==
    /\ menu[d] # "gone"
    /\ menu' = [menu EXCEPT ![d] = IF @ = "on" THEN "off" ELSE "on"]
    /\ UNCHANGED <<cartVars, callVars, cleaner, overlapped>>

LeavesLines(d) ==
    /\ menu[d] # "gone" /\ ~Held(d)
    /\ menu' = [menu EXCEPT ![d] = "gone"]
    /\ UNCHANGED <<cartVars, callVars, cleaner, overlapped>>
\* The owner deletes a dish: the carts' lines of it go by ON DELETE CASCADE.
Delete(d) ==
    /\ menu[d] # "gone" /\ ~Held(d)
    /\ menu' = [menu EXCEPT ![d] = "gone"]
    /\ Become(lines \ {d})
    /\ UNCHANGED <<callVars, cleaner, overlapped>>

Next ==
    \/ \E c \in Calls : Start(c) \/ Serve(c) \/ Fail(c)
    \/ Clean \/ CleanupFails
    \/ Age
    \/ \E d \in Dishes : Switch(d) \/ Delete(d)

Spec == Init /\ [][Next]_vars

\* Carts grow old, the timer fires every half hour, and of the job's runs not all fail.
FairSpec ==
    /\ Spec
    /\ WF_vars(Age)
    /\ WF_vars(SelectStale) /\ SF_vars(DeleteStale) /\ SF_vars(ResetStale)
-----------------------------------------------------------------------------
Coherent == \A d \in lines : restaurant = Of[d]

\* "which restaurant the cart is for" (schema.sql:81): all dishes of a cart are of the
\* restaurant it names, whatever calls failed half way and whatever ran at the same time,
\* unless addItem ran beside another call that writes or beside the cleanup job.
OneRestaurant == overlapped \/ Coherent

\* A cart whose user is gone is emptied in the end, also if runs of the cleanup job fail
\* between its two statements; what may be left are dishes of a cart that names no
\* restaurant (cleanup.job.ts:9), and only an overlap leaves those.
Abandoned == <>[](Busy = {})
AbandonedCartExpires ==
    Abandoned => <>[](lines = {} \/ (restaurant = None /\ overlapped))
=============================================================================
