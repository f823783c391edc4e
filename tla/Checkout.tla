------------------------------ MODULE Checkout ------------------------------
(***************************************************************************)
(* POST /orders: every call of placeOrder (order.service.ts) is a request  *)
(* that walks through its awaits, one action per await, against the state  *)
(* it shares with the others: the slot counters, item locks and            *)
(* idempotency keys in Redis, the stock and orders in Postgres, the pool   *)
(* of connections and the order queue.  There is one restaurant; an order  *)
(* is named by the request that places it.                                 *)
(***************************************************************************)
EXTENDS Integers, Sequences, FiniteSets

CONSTANTS
    Requests,     \* calls of placeOrder
    Items,        \* dishes of the menu
    Keys,         \* idempotency keys clients send
    None,         \* no key, no order
    Baskets,      \* the item lists requests carry, in the order they are sent
    InitStock,    \* stock of each dish at the start
    MaxPerSlot,   \* restaurants.max_orders_per_slot
    LastWindow,   \* bound: the 15-minute windows are 0 .. LastWindow
    MaxUnits,     \* bound: units of one dish in a basket
    PoolSize,     \* connections of the pg Pool
    Failing,      \* the steps whose call to Redis, Postgres or BullMQ may fail
    Lapsing,      \* Redis entries whose TTL may run out: "lock" (5 s), "key" (24 h)
    MayCrash      \* whether the API process may die and be restarted

\* Where a request stands: the await it is about to make.
Steps == {"new", "replay", "readMax", "seed", "draw", "giveBack", "lock",
          "connect", "update", "insert", "commit", "store", "enqueue",
          "readItems", "rollback", "releaseSlot", "unlock", "end"}

\* The units of dish i a basket asks for: <<n, u>> is the u-th unit of its n-th line.
Units(b, i) == UNION {{n} \X (1 .. b[n].qty) : n \in {m \in DOMAIN b : b[m].item = i}}

ASSUME CheckoutAssumption ==
    /\ IsFiniteSet(Requests)
    /\ None \notin Requests \cup Keys
    /\ InitStock \in [Items -> Nat]
    /\ \A b \in Baskets : b \in Seq([item : Items, qty : Nat \ {0}]) /\ b # << >>
    /\ MaxPerSlot \in Nat \ {0}
    /\ LastWindow \in Nat
    /\ PoolSize \in Nat \ {0}
    /\ MaxUnits \in Nat /\ \A b \in Baskets, i \in Items : Cardinality(Units(b, i)) <= MaxUnits
    /\ Failing \subseteq Steps \ {"rollback", "end"}
    /\ Lapsing \subseteq {"lock", "key"}
    /\ MayCrash \in BOOLEAN

VARIABLES
    pc, basket, key,      \* per request: its step, and what the client sent
    now,                  \* the current window
    slot,                 \* per request: the window reserveSlot computed
    remaining, expiry,    \* the capacity:<slot> counters, and when their TTL ends
    admitted, overdrawn,  \* history: the requests whose DECR was not given back,
                          \* answered >= 0 and < 0
    locks, held,          \* the lock:item entries, and per request how many it took
    line, taken,          \* per request: its next UPDATE and what its UPDATEs took
    stock, orders,        \* committed menu_items.stock and orders
    idem, jobs,           \* the idempotency:<key> entries, jobs added to orderQueue
    announced,            \* orders the restaurant was told of (ORDER_NEW)
    answer                \* the order a request returns, None for an error

inputs == <<basket, key>>
slotVars == <<remaining, expiry, admitted, overdrawn>>
lockVars == <<locks, held>>
dbVars == <<line, taken, stock, orders>>
queueVars == <<idem, jobs, announced>>
vars == <<pc, inputs, now, slot, slotVars, lockVars, dbVars, queueVars, answer>>

Windows == 0 .. LastWindow
Absent == -1                \* expiry of a counter that does not exist
Never == LastWindow + 1     \* expiry of a counter without TTL
Untaken == [i \in Items |-> 0]

ClientsOK ==
    /\ pc \in [Requests -> Steps]
    /\ basket \in [Requests -> Baskets]
    /\ key \in [Requests -> Keys \cup {None}]
    /\ now \in Windows
    /\ slot \in [Requests -> Windows]
    /\ answer \in [Requests -> Requests \cup {None}]

SlotsOK ==
    /\ remaining \in [Windows -> Int]
    /\ expiry \in [Windows -> {Absent, Never} \cup Windows]
    /\ admitted \subseteq Requests /\ overdrawn \subseteq Requests

LocksOK ==
    /\ locks \subseteq Items \X Requests \X Nat
    /\ held \in [Requests -> Nat]
    /\ \A r \in Requests : held[r] <= Len(basket[r])

RowsOK ==
    /\ line \in [Requests -> Nat \ {0}]
    /\ \A r \in Requests : line[r] <= Len(basket[r]) + 1
    /\ taken \in [Requests -> [Items -> Nat]]
    /\ stock \in [Items -> Nat]
    /\ orders \subseteq Requests

QueuesOK ==
    /\ idem \in [Keys -> Requests \cup {None}]
    /\ jobs \subseteq Requests /\ announced \subseteq Requests

TypeOK == ClientsOK /\ SlotsOK /\ LocksOK /\ RowsOK /\ QueuesOK

Init ==
    /\ pc = [r \in Requests |-> "new"]
    /\ basket \in [Requests -> Baskets]
    /\ key \in [Requests -> Keys \cup {None}]
    /\ now = 0
    /\ slot = [r \in Requests |-> 0]
    /\ remaining = [w \in Windows |-> 0]
    /\ expiry = [w \in Windows |-> Absent]
    /\ admitted = {} /\ overdrawn = {}
    /\ locks = {} /\ held = [r \in Requests |-> 0]
    /\ line = [r \in Requests |-> 1]
    /\ taken = [r \in Requests |-> Untaken]
    /\ stock = InitStock /\ orders = {}
    /\ idem = [k \in Keys |-> None]
    /\ jobs = {} /\ announced = {}
    /\ answer = [r \in Requests |-> None]

-----------------------------------------------------------------------------
Goto(r, step) == pc' = [pc EXCEPT ![r] = step]

ConnectedForGood ==
    {r \in Requests :
        \/ pc[r] \in {"update", "insert", "commit", "store", "enqueue", "readItems", "rollback"}
        \/ pc[r] = "end"}
\* Connections checked out with pool.connect(); a plain query() needs one more.
Connected == {r \in Requests : pc[r] \in {"update", "insert", "commit", "store",
                                          "enqueue", "readItems", "rollback"}}

ConnectionFree == Cardinality(Connected) < PoolSize

\* A request's idempotency lookup; on a miss it fixes its window at once.
CheckKey(r) ==
    /\ pc[r] = "new"
    /\ \/ /\ key[r] # None
          /\ idem[key[r]] # None
          /\ answer' = [answer EXCEPT ![r] = idem[key[r]]]
          /\ Goto(r, "replay")
          /\ UNCHANGED slot
       \/ /\ key[r] # None => idem[key[r]] = None
          /\ slot' = [slot EXCEPT ![r] = now]
          /\ Goto(r, "readMax")
          /\ UNCHANGED answer
    /\ UNCHANGED <<inputs, now, slotVars, lockVars, dbVars, queueVars>>

\* getOrderById of the stored order, 404 if there is none.
Replay(r) ==
    /\ pc[r] = "replay"
    /\ ConnectionFree
    /\ answer' = [answer EXCEPT ![r] = IF @ \in orders THEN @ ELSE None]
    /\ Goto(r, "end")
    /\ UNCHANGED <<inputs, now, slot, slotVars, lockVars, dbVars, queueVars>>

ReadMax(r) ==
    /\ pc[r] = "readMax"
    /\ ConnectionFree
    /\ Goto(r, "seed")
    /\ UNCHANGED <<inputs, now, slot, slotVars, lockVars, dbVars, queueVars, answer>>

SeedAlways(w) == TRUE
Unseeded(w) == expiry[w] = Absent

\* SET NX EX: the TTL is computed from the clock now, not from the slot.
Seed(r) ==
    LET w == slot[r] IN
    /\ pc[r] = "seed"
    /\ IF Unseeded(w)
       THEN /\ remaining' = [remaining EXCEPT ![w] = MaxPerSlot]
            /\ expiry' = [expiry EXCEPT ![w] = now]
       ELSE UNCHANGED <<remaining, expiry>>
    /\ Goto(r, "draw")
    /\ UNCHANGED <<inputs, now, slot, admitted, overdrawn, lockVars, dbVars,
                   queueVars, answer>>

\* INCR and DECR create an absent counter, and without a TTL.
AddToCounter(w, n) ==
    /\ remaining' = [remaining EXCEPT ![w] = @ + n]
    /\ expiry' = [expiry EXCEPT ![w] = IF @ = Absent THEN Never ELSE @]

OverbookedByOne(left) == left < -1
Overbooked(left) == left < 0

Draw(r) ==
    /\ pc[r] = "draw"
    /\ AddToCounter(slot[r], -1)
    /\ IF Overbooked(remaining'[slot[r]])
       THEN /\ overdrawn' = overdrawn \cup {r}
            /\ Goto(r, "giveBack")
            /\ UNCHANGED admitted
       ELSE /\ admitted' = admitted \cup {r}
            /\ Goto(r, "lock")
            /\ UNCHANGED overdrawn
    /\ UNCHANGED <<inputs, now, slot, lockVars, dbVars, queueVars, answer>>

GiveBack(r) ==
    /\ pc[r] = "giveBack"
    /\ AddToCounter(slot[r], 1)
    /\ overdrawn' = overdrawn \ {r}
    /\ Goto(r, "end")
    /\ UNCHANGED <<inputs, now, slot, admitted, lockVars, dbVars, queueVars, answer>>

LockIgnored(i) == FALSE
Locked(i) == \E l \in locks : l[1] = i

\* SET NX PX on the item of the next basket line; 409 at the first one taken.
Lock(r) ==
    LET n == held[r] + 1
        i == basket[r][n].item
    IN
    /\ pc[r] = "lock"
    /\ IF Locked(i)
       THEN Goto(r, "releaseSlot") /\ UNCHANGED lockVars
       ELSE /\ locks' = locks \cup {<<i, r, n>>}
            /\ held' = [held EXCEPT ![r] = n]
            /\ Goto(r, IF n = Len(basket[r]) THEN "connect" ELSE "lock")
    /\ UNCHANGED <<inputs, now, slot, slotVars, dbVars, queueVars, answer>>

Connect(r) ==
    /\ pc[r] = "connect"
    /\ ConnectionFree
    /\ Goto(r, "update")
    /\ UNCHANGED <<inputs, now, slot, slotVars, lockVars, dbVars, queueVars, answer>>

\* Transactions that keep r waiting: one that updated the row r updates, or one
\* that inserted an order with r's key, and has not ended.
Blockers(r) ==
    CASE pc[r] = "update" ->
           {s \in Requests \ (orders \cup {r}) : taken[s][basket[r][line[r]].item] > 0}
      [] pc[r] = "insert" /\ key[r] # None ->
           {s \in Requests \ {r} : pc[s] = "commit" /\ key[s] = key[r]}
      [] OTHER -> {}

StockUnchecked(r, i, q) == TRUE
InStock(r, i, q) == stock[i] - taken[r][i] >= q

AfterUpdateEarly(r) == IF line[r] + 1 >= Len(basket[r]) THEN "insert" ELSE "update"
AfterUpdate(r) == IF line[r] = Len(basket[r]) THEN "insert" ELSE "update"

\* UPDATE menu_items ... WHERE stock >= $1, for the next basket line.
Update(r) ==
    LET i == basket[r][line[r]].item
        q == basket[r][line[r]].qty
    IN
    /\ pc[r] = "update"
    /\ Blockers(r) = {}
    /\ IF InStock(r, i, q)
       THEN /\ taken' = [taken EXCEPT ![r][i] = @ + q]
            /\ line' = [line EXCEPT ![r] = @ + 1]
            /\ Goto(r, AfterUpdate(r))
       ELSE Goto(r, "rollback") /\ UNCHANGED <<line, taken>>
    /\ UNCHANGED <<inputs, now, slot, slotVars, lockVars, stock, orders, queueVars, answer>>

KeyNotUnique(r) == FALSE
KeyUsed(r) == key[r] # None /\ \E s \in orders : key[s] = key[r]

\* INSERT INTO orders, whose idempotency_key is UNIQUE, and its order_items.
Insert(r) ==
    /\ pc[r] = "insert"
    /\ Blockers(r) = {}
    /\ Goto(r, IF KeyUsed(r) THEN "rollback" ELSE "commit")
    /\ UNCHANGED <<inputs, now, slot, slotVars, lockVars, dbVars, queueVars, answer>>

CommitRows(r) ==
    /\ stock' = [i \in Items |-> stock[i] - taken[r][i]]
    /\ orders' = orders \cup {r}
    /\ UNCHANGED <<line, taken>>

AfterCommitUnqueued(r) == IF key[r] = None THEN "readItems" ELSE "store"
AfterCommit(r) == IF key[r] = None THEN "enqueue" ELSE "store"

Commit(r) ==
    /\ pc[r] = "commit"
    /\ CommitRows(r)
    /\ Goto(r, AfterCommit(r))
    /\ UNCHANGED <<inputs, now, slot, slotVars, lockVars, queueVars, answer>>

StoreKey(r) ==
    /\ pc[r] = "store"
    /\ idem' = [idem EXCEPT ![key[r]] = r]
    /\ Goto(r, "enqueue")
    /\ UNCHANGED <<inputs, now, slot, slotVars, lockVars, dbVars, jobs, announced, answer>>

Enqueue(r) ==
    /\ pc[r] = "enqueue"
    /\ jobs' = jobs \cup {r}
    /\ Goto(r, "readItems")
    /\ UNCHANGED <<inputs, now, slot, slotVars, lockVars, dbVars, idem, announced, answer>>

\* The items are read through the pool while the transaction's connection is
\* still held; then the order is emitted, returned and the connection released.
ReadItems(r) ==
    /\ pc[r] = "readItems"
    /\ ConnectionFree
    /\ announced' = announced \cup {r}
    /\ answer' = [answer EXCEPT ![r] = r]
    /\ Goto(r, "unlock")
    /\ UNCHANGED <<inputs, now, slot, slotVars, lockVars, dbVars, idem, jobs>>

\* The inner catch and finally: a ROLLBACK, void after COMMIT, and the release.
Rollback(r) ==
    /\ pc[r] = "rollback"
    /\ taken' = IF r \in orders THEN taken ELSE [taken EXCEPT ![r] = Untaken]
    /\ Goto(r, "releaseSlot")
    /\ UNCHANGED <<inputs, now, slot, slotVars, lockVars, line, stock, orders,
                   queueVars, answer>>

\* The outer catch.
ReleaseSlot(r) ==
    /\ pc[r] = "releaseSlot"
    /\ AddToCounter(slot[r], 1)
    /\ admitted' = admitted \ {r}
    /\ Goto(r, "unlock")
    /\ UNCHANGED <<inputs, now, slot, overdrawn, lockVars, dbVars, queueVars, answer>>

ReleasedUnchecked(r) == {l \in locks : l[1] # basket[r][held[r]].item}
ReleasedPrevious(r) == locks \ {<<basket[r][held[r]].item, r, held[r] - 1>>}
Released(r) == locks \ {<<basket[r][held[r]].item, r, held[r]>>}

\* The outer finally: compare-and-delete of the locks, the last one first.
Unlock(r) ==
    /\ pc[r] = "unlock"
    /\ IF held[r] = 0
       THEN Goto(r, "end") /\ UNCHANGED lockVars
       ELSE /\ locks' = Released(r)
            /\ held' = [held EXCEPT ![r] = @ - 1]
            /\ UNCHANGED pc
    /\ UNCHANGED <<inputs, now, slot, slotVars, dbVars, queueVars, answer>>

-----------------------------------------------------------------------------
\* Where an exception thrown at a step is handled.
Handler(step) ==
    CASE step \in {"lock", "connect"} -> "releaseSlot"
      [] step \in {"update", "insert", "commit", "store", "enqueue", "readItems"} -> "rollback"
      [] step = "releaseSlot" -> "unlock"
      [] OTHER -> "end"

\* A call is refused and changes nothing.
Fail(r) ==
    /\ pc[r] \in Failing
    /\ answer' = [answer EXCEPT ![r] = None]
    /\ Goto(r, Handler(pc[r]))
    /\ UNCHANGED <<inputs, now, slot, slotVars, lockVars, dbVars, queueVars>>

\* The connection breaks after Postgres committed and before it said so.
LoseCommit(r) ==
    /\ pc[r] = "commit" /\ "commit" \in Failing
    /\ CommitRows(r)
    /\ Goto(r, "rollback")
    /\ UNCHANGED <<inputs, now, slot, slotVars, lockVars, queueVars, answer>>

\* Postgres aborts a transaction that is on a cycle of waits.
Victim(r) ==
    /\ Blockers(r) # {}
    /\ \E S \in SUBSET Requests :
          r \in S /\ S = UNION {Blockers(s) : s \in S}
    /\ Goto(r, "rollback")
    /\ UNCHANGED <<inputs, now, slot, slotVars, lockVars, dbVars, queueVars, answer>>

\* The API process dies: its transactions are rolled back, Redis stays.
Crash ==
    /\ MayCrash
    /\ \E r \in Requests : pc[r] \notin {"new", "end"}
    /\ pc' = [r \in Requests |-> IF pc[r] = "new" THEN "new" ELSE "end"]
    /\ answer' = [r \in Requests |-> IF pc[r] = "end" THEN answer[r] ELSE None]
    /\ taken' = [r \in Requests |-> IF r \in orders THEN taken[r] ELSE Untaken]
    /\ UNCHANGED <<inputs, now, slot, slotVars, lockVars, line, stock, orders, queueVars>>

LapseLock ==
    /\ "lock" \in Lapsing
    /\ \E l \in locks : locks' = locks \ {l}
    /\ UNCHANGED <<pc, inputs, now, slot, slotVars, held, dbVars, queueVars, answer>>

LapseKey(k) ==
    /\ "key" \in Lapsing
    /\ idem[k] # None
    /\ idem' = [idem EXCEPT ![k] = None]
    /\ UNCHANGED <<pc, inputs, now, slot, slotVars, lockVars, dbVars, jobs, announced, answer>>

LapseSlot(w) ==
    /\ expiry[w] \in Windows
    /\ expiry[w] < now
    /\ remaining' = [remaining EXCEPT ![w] = 0]
    /\ expiry' = [expiry EXCEPT ![w] = Absent]
    /\ UNCHANGED <<pc, inputs, now, slot, admitted, overdrawn, lockVars, dbVars,
                   queueVars, answer>>

Tick ==
    /\ now < LastWindow
    /\ now' = now + 1
    /\ UNCHANGED <<pc, inputs, slot, slotVars, lockVars, dbVars, queueVars, answer>>

Step(r) ==
    \/ CheckKey(r) \/ Replay(r)
    \/ ReadMax(r) \/ Seed(r) \/ Draw(r) \/ GiveBack(r)
    \/ Lock(r) \/ Connect(r)
    \/ Update(r) \/ Insert(r) \/ Commit(r) \/ Victim(r)
    \/ StoreKey(r) \/ Enqueue(r) \/ ReadItems(r)
    \/ Rollback(r) \/ ReleaseSlot(r) \/ Unlock(r)

\* Every request has answered: the process idles.
Idle == (\A r \in Requests : pc[r] = "end") /\ UNCHANGED vars

Next ==
    \/ \E r \in Requests : Step(r) \/ Fail(r) \/ LoseCommit(r)
    \/ Crash \/ Tick
    \/ LapseLock
    \/ \E k \in Keys : LapseKey(k)
    \/ \E w \in Windows : LapseSlot(w)
    \/ Idle

Spec == Init /\ [][Next]_vars

\* Node runs a request whose call has returned, and the calls return.
FairSpec == Spec /\ \A r \in Requests : WF_vars(Step(r))
-----------------------------------------------------------------------------
\* How much of dish i a request asks for, and the units of it that are in an order.
Demand(r, i) == Cardinality(Units(basket[r], i))
Sold(i) == UNION {{r} \X Units(basket[r], i) : r \in orders}

\* The requests of window w whose DECR has not been given back.
Drawn(w) == {r \in admitted \cup overdrawn : slot[r] = w}

\* Checkout implements Shop: whatever fails, lapses or crashes, an order appears
\* in one step with its whole basket, or its basket leaves no trace in the stock.
Ledger == {[id |-> r, key |-> key[r], bill |-> [i \in Items |-> Demand(r, i)]] : r \in orders}
Promise == INSTANCE Shop WITH Customers <- Requests, MaxUnits <- MaxUnits, ledger <- Ledger
ImplementsShop == Promise!Spec

\* Inventory (README.md:28): every unit sold is in exactly one committed order
\* and every order has all it asked for, whatever fails, lapses or crashes.
StockMatchesOrders ==
    \A i \in Items : stock[i] + Cardinality(Sold(i)) = InitStock[i]

\* schema.sql:101, "same key => same order": also when the requests race, the
\* first answer was lost or the Redis entry is gone.
OneOrderPerKey ==
    \A r, s \in orders : key[r] # None /\ key[r] = key[s] => r = s

\* Two requests with one key that both succeed are given the same order.
SameKeySameAnswer ==
    \A r, s \in Requests :
        /\ pc[r] = "end" /\ answer[r] # None
        /\ pc[s] = "end" /\ answer[s] # None
        /\ key[r] # None /\ key[r] = key[s]
        => answer[r] = answer[s]

\* Until its window is over, the counter is the capacity less the requests that
\* drew a place and have not given it back: none is lost, none counted twice.
SlotAccounting ==
    \A w \in now .. LastWindow :
        IF expiry[w] = Absent THEN Drawn(w) = {}
        ELSE remaining[w] + Cardinality(Drawn(w)) = MaxPerSlot

\* Until a window is over, no more than max_orders_per_slot requests of it have
\* been told their order is placed, whatever order the DECRs and INCRs come in.
KitchenNotOverbooked ==
    \A w \in now .. LastWindow :
        Cardinality({r \in Requests : answer[r] = r /\ slot[r] = w}) <= MaxPerSlot

\* While no lock lapses, two checkouts between their last SET NX and the end of
\* their transaction have no dish in common.
Critical == {r \in Requests : pc[r] = "connect"} \cup Connected
Dishes(r) == {basket[r][n].item : n \in DOMAIN basket[r]}
MutualExclusion ==
    \A r, s \in Critical : r # s => Dishes(r) \cap Dishes(s) = {}

\* A lock entry goes away by its TTL or by the release of the request that set
\* it, never by the release of a request whose own entry had lapsed.
OnlyOwnLockReleased ==
    [][\A l \in locks : l \notin locks' =>
          \/ UNCHANGED held
          \/ held[l[2]] = l[3] /\ held'[l[2]] = l[3] - 1]_vars

\* If no call fails, a request answered with an error leaves nothing behind: no
\* order, no place in the slot, no lock, no stock.
RejectedLeavesNothing ==
    \A r \in Requests : pc[r] = "end" /\ answer[r] = None =>
        /\ r \notin orders \cup admitted \cup overdrawn
        /\ \A l \in locks : l[2] # r
        /\ taken[r] = Untaken

\* The restaurant is told only of orders that are committed and whose job was
\* handed to the queue that takes the payment.
AnnouncedAreQueued == announced \subseteq orders \cap jobs

\* Every request is answered, also when locks lapse and Postgres has to break a cycle
\* of row waits, unless the pool starves: every connection is held by a checkout that
\* waits for another connection to read its items back.
Starved ==
    /\ Cardinality(Connected) = PoolSize
    /\ \A r \in Connected : pc[r] = "readItems"
EveryRequestAnswered == \A r \in Requests : <>(pc[r] = "end" \/ Starved)

\* README.md:28, "zero double-allocation on ... capacity slots".
NoDoubleAllocation ==
    \A w \in Windows : Cardinality({r \in orders : slot[r] = w}) <= MaxPerSlot
=============================================================================
