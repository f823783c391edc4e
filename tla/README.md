# forkflow: a verification project

forkflow is a food ordering platform: a Next.js front end (`src/frontend`), an Express API
with socket.io and a BullMQ worker process (`src/backend/src/server.ts`,
`src/backend/src/workers/index.ts`), over one Postgres and one Redis. This directory holds
TLA+ models of its concurrent core, the TLC runs that check them on small instances, and
proofs, checked by TLAPS, of what holds for every instance. Paths below are relative to
`src/backend/src/` unless they say otherwise.

## 1. The system

| part | state | operations | talks to |
|---|---|---|---|
| Checkout (`modules/orders/order.service.ts` placeOrder, `order.lock.ts`, `modules/capacity/`, `utils/idempotency.ts`) | Redis: `capacity:*` counters, `lock:item:*`, `idempotency:*`; Postgres: `menu_items.stock`, `orders`, `order_items` | POST /orders | order queue, sockets |
| Order processing (`workers/order.worker.ts`, `modules/payments/`, `queues/`) | BullMQ order queue; `payments`; `orders.status` | the worker's job, retries, stalls | e-mail and notification queues |
| Notification and e-mail (`workers/notification.worker.ts`, `email.worker.ts`) | their queues | emit, send | sockets, SMTP |
| Order status (`order.service.ts` updateOrderStatus, adminUpdateOrderStatus) | `orders.status` | owner and admin PATCH | sockets |
| Delivery (`modules/delivery/`) | `delivery_assignments`, `orders.status` | assign, claim, update status, update location | sockets |
| Server cart (`modules/cart/`, `jobs/cleanup.job.ts`) | `carts`, `cart_items` | add, update, remove, clear; the 30-minute cleanup | menu |
| Browser cart and checkout page (`src/frontend/src/store/cartStore.ts`, `app/checkout/page.tsx`) | local storage | add, setQty, clear, place | Checkout |
| Menu and restaurants (`modules/menu/`, `modules/restaurants/`) | `menu_items`, `restaurants`, Redis lists with a TTL | cache-aside reads, writes that invalidate | ingest queue |
| Ingest and search (`workers/ingest.worker.ts`, `queues/ingest.queue.ts`, `modules/search/`) | `menu_items.embedding`, the ingest queue | embed a dish, embed all (script), answer a question | external models |
| Rate limit (`middlewares/rateLimit.middleware.ts`) | Redis counters per client and window | INCR, EXPIRE | every limited route |
| Users (`modules/auth/`, `modules/users/`) | `users` | register, login, Google login, roles | none |
| Tracking page (`realtime/`, `src/frontend/src/hooks/useOrderTracking.ts`, `app/orders/[id]/page.tsx`) | rooms; what the page shows | join, emit, refetch | order status |
| Dashboards (`src/frontend/src/app/dashboard/`, `lib/socket.ts`, `store/authStore.ts`, `realtime/socket.auth.ts`) | the tab's socket, token and cookie; rooms; query cache | login, logout, visit, join, refetch, poll | order status, delivery |

The API is one Node process: a handler runs until its next `await`, and at each `await` any
other request, the worker process or a timer may run. Redis commands and single SQL
statements are atomic, sequences of them are not. So the hard behaviours are interleavings
at awaits, failures between two awaits, TTLs that run out under a holder, and crashes after
which Redis and Postgres keep what they were told. `PROJECT.json` lists each hazard at its
line.

What makes each part correct:

* Checkout: a unit of stock is sold once; an order has all of its basket or does not exist;
  one order per idempotency key; no place of a slot is lost or given twice; locks exclude,
  and are released only by their owner; no checkout waits for ever.
* Order processing: an order whose job was queued is charged once and confirmed, or its job
  is in the failed set; a duplicate run of a job changes nothing.
* Delivery: one partner holds an order at a time; finished orders stay finished.
* Fulfilment: nothing unpaid is cooked, nothing unaccepted leaves the kitchen.
* Carts: the dishes of a cart, and of an order, are of the restaurant it names.
* Caches: a copy shows the rows as they are, but for known races, and not wrongly for good.
* Search: a dish is ranked by its own text, but for known losses, and not wrongly for good.
* Tracking page: a page left open eventually shows the status of its order.
* Dashboards: a page is in its room whatever came before in its tab; the kitchen hears of
  every new order, the partners of every trip.
* Rate limit: no more than the limit per window.
* Users: one account per e-mail and per Google identity.

## 2. Modules and plan

| module | models | composed of |
|---|---|---|
| `Checkout` | placeOrder and what it calls | implements `Shop` |
| `Shop` | what checkout promises | |
| `CheckoutProofs` | theorems about `Checkout`, its refinement of `Shop` included | |
| `OrderStatus` | orders.status and the handlers that set it at will | |
| `OrderProcessing` | the order queue, the worker's job, the payment | extends `OrderStatus` |
| `OrderProcessingProofs` | theorems about `OrderProcessing` | |
| `Delivery` | the four handlers of /delivery that write | extends `OrderStatus` |
| `Fulfilment` | owner's and admin's pages with the two above on one status | `OrderProcessing`, `Delivery`; implements `OrderLife` |
| `OrderLife` | what fulfilment promises of an order | |
| `FulfilmentProofs` | theorems about `Fulfilment` and its parts | |
| `LiveTracking` | the customer's tracking page, its room and its events | over `OrderLife` |
| `LiveTrackingProofs` | theorems about `LiveTracking` | |
| `Cart` | the cart in Postgres and the job that empties abandoned ones | |
| `CartProofs` | theorems about `Cart` | |
| `Catalogue` | restaurants and dishes and their copies in Redis | |
| `Storefront` | the browser's cart and the checkout page | extends `Catalogue` |
| `Concierge` | the embeddings the search ranks by, the jobs and the script that make them | extends `Catalogue` |
| `StorefrontProofs`, `ConciergeProofs` | theorems about `Storefront` and `Concierge`, each with what it needs of `Catalogue` | |
| `Dashboards` | the pages of owner and partner in one tab, their rooms, socket and session | |
| `DashboardsProofs` | theorems about `Dashboards` | |

`MC<module>` gives a module's constants their values for TLC; `<module>_<run>.cfg` is the
instance of a run.

What is left, in this order:

1. `Accounts` and the rate limit: registration and Google login on one e-mail, tokens that
   outlive a role; the counter per client and window.
2. Checkout with commands that the Redis client sends twice after a reconnect: an INCR
   counted twice overbooks, a DECR counted twice wastes a place.
3. Proofs: what of the liveness properties is safety, as is done for KitchenHearsNew and
   ShownConverges: that in Checkout somebody can always go on but for `Starved`, that an unsettled
   job always has a worker, a timer or the stalled check to move it.

## 3. Checkout

`Checkout.tla` models placeOrder and all it calls. A request r is a call of placeOrder; its
`pc` is the await it is about to make, and each await is one action.

| action | code |
|---|---|
| `CheckKey`, `Replay` | the idempotency GET and the replay of a stored order (order.service.ts:97-100, getOrderById 12-20) |
| `ReadMax`, `Seed`, `Draw`, `GiveBack` | reserveSlot (capacity.service.ts:6-32): the query of the maximum, SET NX EX, DECR, the compensating INCR |
| `Lock` | acquireLock for the next basket line (order.lock.ts:6-11) |
| `Connect`, `Update`, `Insert`, `Commit` | the transaction (order.service.ts:120-175) |
| `StoreKey`, `Enqueue`, `ReadItems` | after COMMIT: the idempotency entry, the job, the items, the emit and the answer (177-200) |
| `Rollback`, `ReleaseSlot`, `Unlock` | inner catch and finally, outer catch, outer finally (202-218) |
| `Fail`, `LoseCommit` | an await that throws; a COMMIT that took effect but threw |
| `Victim` | Postgres breaks a cycle of row waits (external) |
| `Crash` | the API process dies; Redis and Postgres stay |
| `LapseLock`, `LapseKey`, `LapseSlot`, `Tick` | TTLs running out and the clock |

Redis is `remaining`/`expiry` (the counters and the end of their TTL), `locks` and `idem`.
An entry of `locks` carries the request and how many locks it had then: that pair is the
random token of order.lock.ts. Postgres is `stock` and `orders` (committed) and `taken` (what
an open transaction has subtracted, which is also the row lock it holds). `admitted` and
`overdrawn` are history variables: who has drawn a place and not given it back.

Abstractions: one restaurant; prices, names and the rows of order_items are left out, an
order carries its basket; time is the number of the 15-minute window; a failing call is
refused without effect (COMMIT is the exception, `LoseCommit`); a restart is immediate and
its clients do not resend by themselves (another request with the same key is the resend).

### Runs

| run | instance | shows |
|---|---|---|
| `checkout_faults` | 2 requests, 2 dishes, 1 key, 1 place, 2 windows; every call may fail, the process may crash, keys lapse | TypeOK, OneOrderPerKey, SameKeySameAnswer, StockMatchesOrders, MutualExclusion, SlotAccounting, AnnouncedAreQueued, KitchenNotOverbooked, and the refinement of Shop |
| `checkout_lapse` | 3 requests for both dishes in either order, 2 connections, 2 places, locks that lapse at any time | RejectedLeavesNothing, OnlyOwnLockReleased, and under fairness EveryRequestAnswered |
| `checkout_overbooked` | 2 requests, 1 place, a failing read after COMMIT | violates NoDoubleAllocation: see the finding |

Bounds. Two requests are enough for every pairwise conflict (a key, a lock, a row, a place);
the third in `checkout_lapse` makes a queue behind a conflict, and a
cycle of waits beside a request that needs a connection, possible. Two dishes allow
opposite lock orders and a basket with a repeated line. `LastWindow = 1` allows one boundary,
which is what the slot's races need: a request only touches the counter of its own window.

Fairness. `FairSpec` has weak fairness of each request's next step: Node resumes a handler
whose call has returned, and each call returns or throws (Postgres breaks deadlocks by
itself). Nothing is assumed about failures, crashes, TTLs or the clock. A step that waits for a
connection or a row is disabled meanwhile, so fairness does not undo `Starved`: as many
checkouts as connections, each holding one and waiting for another to read its items.
EveryRequestAnswered allows that state and no other wait.

### Finding

`checkout_overbooked`: src/README.md:28 promises zero double-allocation of capacity slots. The
catch that releases the slot also catches what is thrown after COMMIT, so the order stands and
its place is given to another one. (A second cause is in the hazards: the window is computed
before the query of the maximum; if it ends in between, its counter has expired and is seeded
again with the full capacity.) `KitchenNotOverbooked` is what does hold: within a window no
more customers than its capacity are told that their order is placed.

### Proofs

`CheckoutProofs` proves, for every set of requests, dishes and keys, every capacity, pool and
choice of failures:

* `TypeCorrect`. TypeOK is not inductive: that stock stays in Nat needs that what an open
  transaction took is still there when it commits. `Base` adds `Rows` (at most one
  open transaction has updated a row, and the row has what it took) and `Shape` (what a
  request has done when it stands at a step).
* `KeyHasOneOrder`, `KeyHasOneAnswer`. `KeysOnce` adds that a request about to commit is the
  only one with its key, and that Redis and answers hold committed orders of their key.
* `KitchenSeesQueuedOrders`, `ReleaseIsOwn`.
* `LocksExclude`, on the assumption that no lock's TTL runs out: without it
  the statement is false, which is why the stock guarantees do not rest on the locks.

Of the capacity it proves `NoPlaceLost` (SlotAccounting) and `KitchenProtected`
(KitchenNotOverbooked). The inductive invariant is `Drawing /\ Capacity /\ Told`: who has drawn a place
at which step, that no counter of a window lapses before the window is over, the accounting
equation, and that only admitted requests are told their order is placed. Its core is
`CounterMoves`: a DECR or INCR and the set of requests that drew move by one in opposite
directions.

`NoUnitLost` (StockMatchesOrders): the stock of a dish and the units of it in committed orders add
up to the initial stock. `Units(b, i)` is the set of the units of i that a basket asks for, line by
line, `Sold(i)` their disjoint union over the orders; both are counted with Cardinality, so that no
sum has to be folded. The inductive invariant `Booked` says that a transaction at its n-th line has
taken the units of the lines before, one that is about to commit all of them; `UnitsOfNextLine` is the step
of one UPDATE, `SoldGrows` that of a COMMIT. `MaxUnits`, by which
`CheckoutAssumption` bounds the units of a basket, says that a quantity is a number.

`CheckoutImplementsShop`: `Commit`, and `LoseCommit`, whose reply is lost, are `Place` of Shop with the
whole basket under a key that no order has, which `KeysOnce`, `Base` and `Booked` provide; all other steps,
failures and crashes included, leave Shop's variables alone.

`RefusalIsClean` (RejectedLeavesNothing), provided no call fails and the process lives: `Clean` follows
what a request holds (place, locks, row locks, key) through the two catches and the two finallys of
placeOrder, whatever lapses and whichever transaction Postgres breaks off. Without the proviso the statement is false: a
compensating INCR may fail.

All of it rests on `CheckoutAssumption` alone, but for the two provisos named. `Frame` (which
actions change which variables) keeps the case splits short.

Only model-checked: what involves fairness, EveryRequestAnswered.

## 4. From the committed order to the door

### Order processing

`OrderProcessing.tla` has the order queue, the worker instances and what a run of
processOrderJob writes. `job` and `holder` are what BullMQ keeps of a job (which list it is in,
who holds its lock), `at`/`on` the await a worker is about to make and its order.

| action | code |
|---|---|
| `Enqueue` | the add of placeOrder (order.service.ts:181); the job's id is the order's, so there is one |
| `Take`, `Promote`, `LoseLock`, `Stall` | BullMQ: a worker takes a job, a backoff ends, a lock is not renewed in time, the stalled check moves a job nobody holds back or, after `maxStalledCount`, to failed |
| `ReadOrder` | the status and the early return of a processed order (order.worker.ts:14-30) |
| `ReadPayment`, `Charge` | processPayment: a PAID row is returned, else the upsert in its transaction |
| `Confirm`, `AddEmail`, `AddNotice`, `Finish` | the conditional UPDATE, the two adds, the return |
| `Throw`, `ThrowAfter` | an await throws without effect, or after Postgres committed; BullMQ counts the attempt if the run still holds the lock |
| `Crash` | the worker process dies; its locks run out |
| `Decide` | owner and admin set the status meanwhile |

`processing_faults`: one worker, as deployed, two orders, two attempts, one stall, every call
may throw, both writes may lose their answer, locks lapse, the process crashes. ChargedOnce,
ToldOnlyPaid, OneConfirmation, CompletedIsHandled, EveryJobSettles. Two orders
make one job wait for another; two attempts and one stall let a run be repeated for either
reason and for both. Fairness: workers take jobs and go on after an await, BullMQ's timers
promote delayed and take back stalled jobs. Nothing is assumed of failures.

What OneConfirmation does not say, because it is not so: that every customer is told. A run
that stops between CONFIRMED and the adds is retried, finds the order processed and returns.

### Delivery

`Delivery.tla` has the four handlers of /delivery that write, one action per await: `Start`, the
guards (`CheckClaim`, `CheckAssign`, `CheckPartner`: reads), then the writes (`TakeTrip` the
upsert of a claim and `Depart` its UPDATE of the order; `Assign`; `Report` and `Publish`;
`Locate`). `Fail` stops a handler at any await. The partners of the requests are users with the
role DELIVERY (assignPartner's second query is thereby left out).

`Locate` tells a position and changes nothing that is kept here; the position is left out.
`trips` and `assigned` are history: the claims that were answered with success, the orders
an owner gave to a partner by hand. The module is checked within `Fulfilment`, where the
statuses it meets are those the others write.

### Fulfilment

`Fulfilment.tla` puts worker, partners, owner and admins on one `orders.status`. The owner's page
is `fetched` (a list under way) and `shown` (the orders it offers to accept), so a list may be as old as one
likes. None of the handlers looks at what the others did; `fulfilment_life` checks that the order
of things comes out right all the same: LeavesAccepted,
OneCourier, NoPartnerlessTrip, DeliveredStays, and that the whole implements `OrderLife`: first the
money, then the acceptance, then the road, with an
assignment by hand in place of an acceptance. (That nothing unpaid is cooked,
PaidBeforePrepared, and none is offered, OffersPaid, is part of that.)

Admins may set any of the six statuses at any time: the dropdown of
src/frontend/src/app/admin/orders/page.tsx:8-15 offers them and adminUpdateOrderStatus writes
what it is sent (`Admin`). An order that was put ahead in this way, to a status other than PENDING
and CANCELLED, is remembered in `overruled`, and of such an order the properties promise nothing: an admin
who sets OUT_FOR_DELIVERY sends it on its way unpaid and without a partner. What they do promise is that
this stays with that order, and that an order set back or cancelled keeps every promise.

The instance has one order, one worker as deployed, two attempts of its job, an UPDATE that throws
without effect, answers of both writes that are lost, two calls of two partners, which are
every pair of handlers at every pair of awaits, failures in each of them, and admins as above: 4 million
states. The lapsing locks and crashes of the worker are in `processing_faults` and, with any number of workers, in
`FulfilmentProofs`; with them this instance exceeds what TLC does in minutes.
It assumes what two of the pages do: the owner sends PREPARING for an order shown as CONFIRMED;
partners report DELIVERED only. A PICKED_UP reported after DELIVERED would take the order out again.

### Proofs

`OrderProcessingProofs` proves, for every set of orders and workers, every number of attempts
and stalls and every choice of failures:

* `TypeCorrect`, with `Live` as the strengthening (a job whose lock is held is active and has an
  attempt left): else `attempts` could grow past its bound.
* `NoWordBeforePayment` (ToldOnlyPaid): for any number of workers on one job. The invariant
  `PaidFirst` adds that a run past its charge works on a paid order.
* `CompletedJobsAreDone` (CompletedIsHandled), provided nobody sets an order back to PENDING.
* `NoDoubleCharge` (ChargedOnce), provided there is one worker; with two, a run whose lock
  lapsed writes the payment a second time (an idempotent upsert of the same transaction id).
* `ConfirmedOnce` (OneConfirmation), provided both.

Those provisos are hypotheses of the theorems. The rest of `ProcessingAssumption` types the constants.

`FulfilmentProofs` proves what `fulfilment_life` checks for every set of orders, workers, partners and calls,
for all failures, lapses and crashes, and for admins who set whatever status they like:
`TypeCorrect`, `NothingUnpaidIsCooked`, `NothingUnacceptedLeaves`, `OneCourierWins`,
`TripsHavePartners`, `FulfilmentImplementsLife`, and `DeliveredIsFinal` where partners do not
report PICKED_UP. None of the properties is inductive: a handler writes what it decided on some
awaits ago. The invariant `IInv` adds what each may still rely on by then: a run about to confirm, that its
order is paid (`Paying`); a list of the owner, however old, that its orders were (`Cooked`);
a call past its guards, that its order was accepted or has a partner (`Passed`); of the last two, or
that an admin has put the order ahead. All of that only grows,
which is why nobody needs to look twice. `WorkerMoves` and `DeliveryMoves`
reduce the steps of worker and calls to what they do to the shared state; `NextStep` puts
them together, and the refinement reads the steps of `OrderLife` off it.

Only model-checked: EveryJobSettles (liveness).

## 5. The tracking page

`LiveTracking.tla` has the order behaving as `OrderLife` says (`Order`), with assignments by hand and with admins
who set any status, the handlers and the notification worker that emit afterwards (`Tell`, `Notice`), the room (`Join`, `Emit`), the
connection (`Connect`, `Disconnect`, `Crash`) and the page: `Open`, its query (`Refetch`, `Read`, `Arrive`,
`FetchFails`), events (`Receive`). `Follow` is the effect of useOrderTracking that copies a
refetched status to the page only when it differs from the one fetched before; `late` remembers
that the last event contradicted what the query had said already. `Ticked` are the steps the page
ticks; it spins until its first answer. `Confirm` is the worker's UPDATE together with the add that
follows it whatever the UPDATE found: `notices` are the jobs in the notification queue, `runs` the
runs of the order's job that may still add one.

| run | instance | shows |
|---|---|---|
| `live_open` | pages of two orders, one of which gets anywhere, breaking connections, crashes, a late notice, assignments by hand, admins who set any status | TickedIsEarned; under fairness ShownConverges |
| `live_overtaken` | one order, no faults, admins who cancel | violates LiveStatus: see the finding |

TickedIsEarned: an order of which the page ticks a step was charged, or moved on by hand, by an owner who
assigned it while it was PENDING (nothing in /delivery asks for more) or by an admin who put it ahead. No old
event, nor one of another order, ticks a step beyond that.

Two orders are needed for the room that is never left. The second stays PENDING and its room
silent, so who is in it is left out (`Active`). One event is on its way at a time
(`MaxWire`): that an emit comes any time after its UPDATE already allows every order in which
events of different senders can arrive. Fairness: the timer of the query fires, of its requests not all
fail, events in the browser's queue are handled, handlers go on after an await. A connection
need not come back, and no event need arrive.

Finding, `live_overtaken`: CONFIRMED goes through a queue of its own. If it arrives after a
refetch that already told of PREPARING, the page goes back to CONFIRMED, and since each
further refetch returns the same PREPARING, the effect never runs again. ShownConverges says
that this is the only way to stay wrong.

The locations that partners send take the same way and are left out: nothing depends on them.

`LiveTrackingProofs` proves TypeOK and TickedIsEarned (`OnlyEarnedIsTicked`) for any number of orders, of handlers under way and
of events on the wire. `Backed` follows a status from the row to the page: in the row, in a handler that has not emitted
yet, on the wire, in the query's answer, in its cache and on the page, one that ticks a step is
always of an order that is `Cleared`: charged, assigned or put ahead, none of which is ever taken back. `OnlyEventsOverrule` is
what of ShownConverges is safety: the page shows what its query returned last unless `late` holds.
That the query returns at all is left to fairness, and to TLC.

## 6. The dashboards

`Dashboards.tla` is one browser tab in which an owner and a partner log in one after the
other, with the API as far as their pages see it. `page` is the page in front, "kitchen" (the owner's
orders) or "trips" (the partners' list), each with its room, its query (`data`, `fetch`, `answer`) and
its event.

| action | code |
|---|---|
| `Place`, `Accept`, `Leave` | the handlers that change what the lists show; the first two emit afterwards (order.service.ts:192, 73) |
| `Emit`, `Join` | the emit to a room; restaurant:join and delivery:join with the check of the token's role |
| `Visit`, `LearnRestaurant`, `Mount` | a page is shown: its query, `getSocket`, the join; the kitchen only after the query for the restaurant |
| `Focus`, `Poll`, `Read`, `Arrive`, `FetchFails`, `Forget` | TanStack Query: refetch on focus and every ten seconds (partners), the answer, a failure after its retries, the cache's end |
| `Receive` | the pages' handlers: invalidateQueries, which starts a fetch anew but lets a first one be |
| `Login`, `Logout` | setAuth and the way to the page of the role; logout, which closes the socket and leaves the cookie |
| `Connect`, `Disconnect`, `Crash` | the socket; the pages' onConnect joins again |

The tab's socket is made by the first page that needs one and keeps the token of that moment. Of a user who
logged out the cookie stays (POST /auth/logout would clear it, but no page calls it) and answers the requests that carry no token; so a page
may show its list while its socket was made without a token and is refused for good. What these
make of the pages is checked by `dashboards_session` (one order, one event on its way, crashes):

* InItsRoom: a connected socket of the right user is in the room of the page in front, or has asked to be.
* KitchenHearsNew: the kitchen has no timer and CONFIRMED is never sent to its room. An owner who stays on
  the page still gets each order on the list, unless its one event was lost; `missed`
  collects the ways: no socket in the room at the emit, a crash before it, another page in front, a
  first list under way, a failed fetch.
* TripsConverge: a partner who stays ends with the right list whatever the socket is.

One order suffices since events of different orders do the same thing to the page, and lists are
sets. Fairness: handlers go on after an await, events in the browser are handled, requests are answered or fail
(strongly for the polled trips: not all answers are lost), the timer fires. A connection need
not come back. Left out: reloads and second tabs, tokens that expire, restaurants that change
hands, and the customer's list of orders, which has no room.

`DashboardsProofs` proves TypeOK and InItsRoom for every number of orders and of events on
their way. Together with the finiteness of `wire` they are inductive. `MountAsks` is the core: a page
that is mounted asks for its room by a socket that is there or made at once, and only a connected
socket is in a room; the rest of the steps leave the room of the page in front alone.

`NewsReachTheKitchen` is what of KitchenHearsNew is safety: whenever the kitchen is shown, each order on
its list is shown or `missed`, or its event or an answer with it is still to come. `Told` is that statement also for
a page that is away while its query has data or is under way, and `ListsGrow` says that a later
answer has all orders of an earlier one: a placed order never leaves the owner's list. What
is left to TLC is that events are emitted and received and queries answered.

## 7. The cart

`Cart.tla` has `carts`, `cart_items` and the menu of one user's cart: each handler of /cart is a
walk through the awaits of cart.service.ts (`OpenCart` is getOrCreateCart; `Drop`, `Name`, `Put`
addItem; `SetQuantity`; `Take`, `CountLeft`, `Unname` removeItem; `Empty`, `CommitClear` clearCart,
the only transaction, whose deleted rows make others wait), and `SelectStale`, `DeleteStale`, `ResetStale` are the
cleanup job of the worker process. `Fail` and `CleanupFails` stop either between statements.
`Switch` and `Delete` are the owner's; the cascade of schema.sql takes the lines along.

`cart_cleanup`: two requests at a time, two dishes of two restaurants. OneRestaurant: the
dishes of a cart are of the restaurant it names, after any sequence of calls that fail
anywhere, unless an addItem ran beside another writer (`overlapped`): four statements without a transaction,
so two of them mix restaurants easily. The browser never calls /cart (it has its own cart), so
this is the API's promise to other clients. AbandonedCartExpires: a cart whose user is gone is
emptied, although the job's runs fail between its statements, because the name goes last and
the job looks for named carts. Fairness: two hours pass, the timer fires, not all runs fail.

`CartProofs` proves TypeOK and OneRestaurant for any number of requests at a time, dishes and
restaurants. Coherence alone is not inductive: the next statement of a call relies on what an earlier one
has seen. `Ready` says what: before the UPDATE of addItem all dishes left are of the new
restaurant, before its upsert the cart names that restaurant, before the UPDATE of removeItem and the
COMMIT of clearCart no dish is left that stays. `AddsAlone` says why nobody spoils it:
as long as nothing has `overlapped`, an addItem is the only writer, so dishes are only
taken out beside the others. `UnnamedCartsAreEmpty` is the part of AbandonedCartExpires that is safety: a
cart that the job's SELECT does not see has no dishes.

## 8. The catalogue, its copies and the storefront

`Catalogue.tla` has the rows of restaurants and dishes as far as a list shows them, the copies in
Redis (`restaurants:list` and each menu), readers in the three steps of cache-aside (`Ask`, the GET,
`Select`, `Fill`), the owners' edits in their two (the UPDATE, then `Invalidate` or
`LoseInvalidation`), and TTLs (`Expire`). Of the rows it keeps is_open, is_available and the stock, which
orders change too, without a DEL (`Sell`). An edit that queues an ingest job carries its dish. `raced` names the copies that an edit may have
overtaken. listMenu selects the column of the embeddings too; no reader uses it, and it is left out of a copy.

`Storefront.tla` adds the browser: the page of a restaurant (`Visit`, `Load`; `menu` is what it
shows), cartStore (`Add`, `Remove`, `SetQty`, `Clear`), the checkout page (`Place`, `Succeed`, `Err`), and of
placeOrder the outcome (`Commit`, which takes of the stock). The home page and other clients read beside
it (`Browse`). The browser begins with the cart of an earlier visit. It has one order under way:
the flag `placing` of the checkout page is reset when the page is left and opened again, so it could
have two. OrderOfOneRestaurant looks at each order alone, and the finding needs no second one under way.

| run | instance | shows |
|---|---|---|
| `storefront_shop` | 2 restaurants with a dish each, one of both edited, created, deleted; the page and another client read, orders take of the stock | OrderOfOneRestaurant, CopyIsCurrent; under fairness CacheConverges |
| `storefront_retry` | the same | violates OneOrderPerBasket: see the finding |

OrderOfOneRestaurant matters because placeOrder does not compare: it takes stock of whatever
dishes it is sent. It holds by what the store does, whatever the menus shown. CopyIsCurrent
lists the reasons for which a copy may be old: a DEL to come or lost, a reader that filled
late, the menu of a deleted restaurant, which nobody drops, and a dish that was ordered: then the copy
may promise more units than are left, though never fewer, and no other dish differs. (Nothing is sold twice
for that: see Checkout.) CacheConverges says that none
outlives the TTL. Bounds: one edit at a time per copy, since a second does what the first does; two readers, since
a copy is wronged by one that fills late and righted or wronged again by another; `Asked`, the copies
that are read, are the list and one menu, since a menu is touched by nothing that touches another; one unit
of each dish (`MaxStock`), two in `storefront_retry`, where the basket is to be placed twice. Fairness: TTLs expire.

Finding, `storefront_retry`: the idempotency key is drawn in the click's handler. If the
answer to a placed order is lost, the page says "Could not place order" and keeps the cart,
and the next click places the same basket under another key. Checkout's OneOrderPerKey cannot
help there.

`StorefrontProofs` shows first, step by step, that the actions of `Catalogue` keep
`CatalogueInv`: the types, CopyIsCurrent, and what makes it inductive, that a reader about to
store what it selected either has the current rows or is `raced` already
(`SelectedIsCurrent`). `EditKeeps` covers all edits at once: the rows of one copy
change, its handler is under way, its readers are marked. Then it adds the browser:
TypeOK, OrderOfOneRestaurant and CopyIsCurrent, for every catalogue, any number of readers, each of which may
ask at any time, and of edits, and any stock. That a copy never promises fewer units than are left
is also what a reader about to store may rely on while others order: `SelectedIsCurrent` allows it the same difference. `BasketsOfOne` follows the basket from the cart through the request to the order.

## 9. What the search knows

`Concierge.tla` continues the handlers of `Catalogue` with the job they add after the DEL
(`Finish`, or `Cut` when the DEL or the add fails or the process dies), the ingest worker (`Take`,
`ReadRow`, `StoreJob`, `FailJob`, `Stall`) and the script that embeds all dishes by hand
(`StartScript`, `ScriptItem`). Texts are kept relative to the row: an edit turns each stored or held text of
its dish "old". A search only reads the column `index`.

`concierge_search`: two dishes of one restaurant, of which one and the restaurant are edited; two
attempts and one stall per job; no readers of the copies, since they do not meet the index. Two alike
jobs or edits count as one, and one edit per copy is under way at a time: a second job for a dish can only
read a newer text. NoneForgotten: a dish with an old embedding, or none, has its job to come, waiting or running, or
is `unindexed`. IndexConverges: when edits stop, all other dishes end with their own text. What
makes a dish `unindexed` is what the code leaves without repair: an add or a DEL that failed, a
job whose attempts are used up, a restaurant that was renamed (its dishes' texts name it, no
job is added), a text the script read before an edit and stored after its job. Fairness:
handlers go on after their UPDATE and the worker while there is work; nothing is assumed of failures.

`ConciergeProofs` proves TypeOK and NoneForgotten for every number of dishes, edits and attempts.
Of `Catalogue` it needs the types only (`RowsInv`). What has to be added is why a worker may store an old text: if what it holds is old, the edit
that made it so has its job still to come or waiting, other than the one that runs, or the dish is given up
(`OldIsPending`); and the worker holds nothing but the text of its job's dish (`HeldIsRunning`). `NoneIsLost` lists
the four ways in which a step may leave a dish, and each step is shown to be one of them.

## 10. What is not modelled

Accounts (but for a tab's login and logout) and the rate limit are planned (section 2).
What the language model answers, pictures, SMTP, routes and validation, start-up and
configuration, the bull-board inspector, seeding and migration keep no state that
interacts. Prices and quantities appear in Checkout only as units of stock; money is never
added up. The pages that only display, and the dialogs around the operations modelled, are
left out.

TLC checks the instances named above and nothing larger. TLAPS proves the theorems of the
proof modules for all instances: every invariant that a passing run checks, every action
property, and both refinements, some under the provisos that sections 3 and 4 name. The properties with fairness are checked by TLC alone
(EveryRequestAnswered, EveryJobSettles, ShownConverges, KitchenHearsNew, TripsConverge,
AbandonedCartExpires, CacheConverges, IndexConverges): the prover has no rule for WF and SF, nor for ENABLED.
