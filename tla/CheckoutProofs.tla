--------------------------- MODULE CheckoutProofs ---------------------------
(***************************************************************************)
(* What Checkout guarantees for every set of requests, dishes and keys,    *)
(* every capacity and pool size, and every choice of failures: of keys,    *)
(* locks, slots and stock, that it implements Shop, and what a refused     *)
(* request leaves behind.                                                  *)
(***************************************************************************)
EXTENDS Checkout, TLAPS, FiniteSetTheorems

Process(r) == Step(r) \/ Fail(r) \/ LoseCommit(r)

\* The steps before COMMIT has been sent.
Uncommitted == {"new", "replay", "readMax", "seed", "draw", "giveBack", "lock",
                "connect", "update", "insert", "commit"}

\* What a request has done when it stands at a step.
Shape ==
    \A r \in Requests :
        /\ pc[r] \in {"new", "readMax", "seed", "draw"} => held[r] = 0
        /\ pc[r] = "lock" => held[r] < Len(basket[r])
        /\ pc[r] \in {"new", "readMax", "seed", "draw", "lock", "connect"} => line[r] = 1
        /\ pc[r] = "update" => line[r] <= Len(basket[r])
        /\ pc[r] \in Uncommitted => r \notin orders
        /\ pc[r] \in {"store", "enqueue", "readItems"} => r \in orders
        /\ pc[r] = "store" => key[r] # None

\* At most one open transaction has updated a row, and the row still has what it took.
Rows ==
    \A r \in Requests \ orders, i \in Items :
        /\ taken[r][i] <= stock[i]
        /\ \A s \in Requests \ orders : r # s => taken[r][i] = 0 \/ taken[s][i] = 0

Base == TypeOK /\ Shape /\ Rows

-----------------------------------------------------------------------------
(* The baskets and the constants. *)

LEMMA SeqElement ==
    ASSUME NEW S, NEW q \in Seq(S), NEW n \in 1 .. Len(q)
    PROVE  q[n] \in S
  OBVIOUS

LEMMA NestedUpdate ==
    ASSUME NEW R, NEW I, NEW f \in [R -> [I -> Nat]], NEW r \in R, NEW i \in I, NEW q \in Nat
    PROVE  [f EXCEPT ![r][i] = @ + q] \in [R -> [I -> Nat]]
  OBVIOUS

LEMMA BasketFacts ==
    ASSUME TypeOK, NEW r \in Requests
    PROVE  /\ Len(basket[r]) \in Nat \ {0}
           /\ \A n \in 1 .. Len(basket[r]) :
                 basket[r][n].item \in Items /\ basket[r][n].qty \in Nat \ {0}
<1> DEFINE Lines == [item : Items, qty : Nat \ {0}]
<1>1. basket[r] \in Baskets
  BY DEF TypeOK, ClientsOK
<1>2. basket[r] \in Seq(Lines) /\ basket[r] # << >>
  BY <1>1, CheckoutAssumption
<1>3. \A n \in 1 .. Len(basket[r]) : basket[r][n] \in Lines
  BY <1>2, SeqElement
<1>4. Len(basket[r]) \in Nat \ {0}
  <2> HIDE DEF Lines
  <2> QED  BY <1>2
<1>5. QED  BY <1>3, <1>4

LEMMA ConstantFacts ==
    /\ None \notin Requests /\ None \notin Keys
    /\ LastWindow \in Nat
    /\ MaxPerSlot \in Nat \ {0}
    /\ InitStock \in [Items -> Nat]
  BY CheckoutAssumption

-----------------------------------------------------------------------------
(* Which actions change which variables. *)

LEMMA Frame ==
    ASSUME [Next]_vars
    PROVE  /\ UNCHANGED inputs
           /\ (\E r \in Requests : CheckKey(r)) \/ UNCHANGED slot
           /\ Tick \/ UNCHANGED now
           /\ \/ \E r \in Requests : CheckKey(r) \/ Replay(r) \/ ReadItems(r) \/ Fail(r)
              \/ Crash
              \/ UNCHANGED answer
           /\ \/ \E r \in Requests : Seed(r) \/ Draw(r) \/ GiveBack(r) \/ ReleaseSlot(r)
              \/ \E w \in Windows : LapseSlot(w)
              \/ UNCHANGED slotVars
           /\ (\E r \in Requests : Lock(r) \/ Unlock(r)) \/ LapseLock \/ UNCHANGED lockVars
           /\ \/ \E r \in Requests : Update(r) \/ Rollback(r) \/ Commit(r) \/ LoseCommit(r)
              \/ Crash
              \/ UNCHANGED dbVars
           /\ \/ \E r \in Requests : StoreKey(r) \/ Enqueue(r) \/ ReadItems(r)
              \/ \E k \in Keys : LapseKey(k)
              \/ UNCHANGED queueVars
           /\ (\E r \in Requests : Process(r)) \/ Crash \/ UNCHANGED pc
  BY DEF Next, Process, Step, CheckKey, Replay, ReadMax, Seed, Draw, GiveBack, Lock, Connect,
         Update, Insert, Commit, CommitRows, Victim, StoreKey, Enqueue, ReadItems, Rollback,
         ReleaseSlot, Unlock, Fail, LoseCommit, Crash, LapseLock, LapseKey, LapseSlot, Tick,
         Idle, vars

LEMMA GotoSteps ==
    ASSUME ClientsOK, NEW r \in Requests, Process(r)
    PROVE  \E step \in Steps : Goto(r, step)
<1>1. pc[r] \in Steps /\ pc \in [Requests -> Steps]
  BY DEF ClientsOK
<1>2. \/ \E step \in Steps : Goto(r, step)
      \/ UNCHANGED pc
  BY <1>1 DEF Steps, Process, Step, CheckKey, Replay, ReadMax, Seed, Draw, GiveBack, Lock,
         Connect, Update, AfterUpdate, Insert, Commit, AfterCommit, Victim, StoreKey, Enqueue,
         ReadItems, Rollback, ReleaseSlot, Unlock, Fail, Handler, LoseCommit
<1>3. CASE UNCHANGED pc
  BY <1>1, <1>3 DEF Goto
<1>4. QED  BY <1>2, <1>3

-----------------------------------------------------------------------------
(* Type correctness, part by part. *)

LEMMA ClientsPreserved ==
    ASSUME TypeOK, [Next]_vars
    PROVE  ClientsOK'
<1> USE DEF TypeOK, ClientsOK
<1>1. basket' \in [Requests -> Baskets] /\ key' \in [Requests -> Keys \cup {None}]
  BY Frame DEF inputs
<1>2. pc' \in [Requests -> Steps]
  <2>1. CASE \E r \in Requests : Process(r)
    BY <2>1, GotoSteps DEF Goto
  <2>2. CASE Crash
    BY <2>2 DEF Crash, Steps
  <2>3. QED  BY <2>1, <2>2, Frame
<1>3. now' \in Windows
  BY Frame, ConstantFacts DEF Tick, Windows
<1>4. slot' \in [Requests -> Windows]
  BY Frame DEF CheckKey
<1>5. answer' \in [Requests -> Requests \cup {None}]
  <2>1. ASSUME NEW r \in Requests, CheckKey(r)  PROVE answer' \in [Requests -> Requests \cup {None}]
    BY <2>1 DEF CheckKey, QueuesOK
  <2>2. ASSUME NEW r \in Requests, Replay(r) \/ ReadItems(r) \/ Fail(r)
        PROVE  answer' \in [Requests -> Requests \cup {None}]
    BY <2>2 DEF Replay, ReadItems, Fail
  <2>3. CASE Crash
    BY <2>3 DEF Crash
  <2>4. QED  BY <2>1, <2>2, <2>3, Frame
<1>6. QED  BY <1>1, <1>2, <1>3, <1>4, <1>5

LEMMA SlotsPreserved ==
    ASSUME TypeOK, [Next]_vars
    PROVE  SlotsOK'
<1> USE DEF TypeOK, ClientsOK, SlotsOK
<1>1. ASSUME NEW r \in Requests, Seed(r)  PROVE SlotsOK'
  <2>1. slot[r] \in Windows /\ MaxPerSlot \in Int
    BY ConstantFacts
  <2>2. remaining' \in [Windows -> Int]
    BY <1>1, <2>1 DEF Seed
  <2>3. expiry' \in [Windows -> {Absent, Never} \cup Windows]
    BY <1>1, <2>1 DEF Seed
  <2>4. QED  BY <1>1, <2>2, <2>3 DEF Seed
<1>2. ASSUME NEW w \in Windows, NEW n \in Int, AddToCounter(w, n)
      PROVE  /\ remaining' \in [Windows -> Int]
             /\ expiry' \in [Windows -> {Absent, Never} \cup Windows]
  BY <1>2 DEF AddToCounter
<1>3. ASSUME NEW r \in Requests, Draw(r) \/ GiveBack(r) \/ ReleaseSlot(r)
      PROVE  SlotsOK'
  BY <1>2, <1>3 DEF Draw, GiveBack, ReleaseSlot
<1>4. ASSUME NEW w \in Windows, LapseSlot(w)  PROVE SlotsOK'
  BY <1>4 DEF LapseSlot
<1>5. CASE UNCHANGED slotVars
  BY <1>5 DEF slotVars
<1>6. QED  BY <1>1, <1>3, <1>4, <1>5, Frame

LEMMA LocksPreserved ==
    ASSUME TypeOK, Shape, [Next]_vars
    PROVE  LocksOK'
<1> USE DEF TypeOK, LocksOK
<1>1. UNCHANGED basket
  BY Frame DEF inputs
<1>2. ASSUME NEW r \in Requests, Lock(r)  PROVE LocksOK'
  <2>1. held[r] + 1 \in 1 .. Len(basket[r])
    BY <1>2, BasketFacts DEF Lock, Shape
  <2>2. basket[r][held[r] + 1].item \in Items
    BY <2>1, BasketFacts
  <2>3. \/ UNCHANGED lockVars
        \/ /\ locks' = locks \cup {<<basket[r][held[r] + 1].item, r, held[r] + 1>>}
           /\ held' = [held EXCEPT ![r] = held[r] + 1]
    BY <1>2 DEF Lock
  <2>4. held' \in [Requests -> Nat] /\ \A q \in Requests : held'[q] <= Len(basket[q])
    <3>1. CASE UNCHANGED lockVars
      BY <3>1 DEF lockVars
    <3>2. CASE held' = [held EXCEPT ![r] = held[r] + 1]
      BY <2>1, <3>2, BasketFacts
    <3>3. QED  BY <2>3, <3>1, <3>2
  <2>5. locks' \subseteq Items \X Requests \X Nat
    <3>1. <<basket[r][held[r] + 1].item, r, held[r] + 1>> \in Items \X Requests \X Nat
      BY <2>1, <2>2
    <3>2. QED  BY <2>3, <3>1 DEF lockVars
  <2>6. QED  BY <1>1, <2>4, <2>5
<1>3. ASSUME NEW r \in Requests, Unlock(r)  PROVE LocksOK'
  <2>1. /\ locks' \subseteq locks
        /\ \/ held' = held
           \/ held[r] # 0 /\ held' = [held EXCEPT ![r] = @ - 1]
    <3>1. locks' \subseteq locks
      BY <1>3 DEF Unlock, Released, lockVars
    <3>2. \/ held' = held
          \/ held[r] # 0 /\ held' = [held EXCEPT ![r] = @ - 1]
      BY <1>3 DEF Unlock, lockVars
    <3>3. QED  BY <3>1, <3>2
  <2>2. \A s \in Requests : held'[s] \in Nat /\ held'[s] <= Len(basket[s])
    BY <2>1, BasketFacts
  <2>3. held' \in [Requests -> Nat]
    BY <2>1, <2>2
  <2>4. QED  BY <1>1, <2>1, <2>2, <2>3
<1>4. CASE LapseLock
  BY <1>1, <1>4 DEF LapseLock
<1>5. CASE UNCHANGED lockVars
  BY <1>1, <1>5 DEF lockVars
<1>6. QED  BY <1>2, <1>3, <1>4, <1>5, Frame

LEMMA QueuesPreserved ==
    ASSUME TypeOK, [Next]_vars
    PROVE  QueuesOK'
<1> USE DEF TypeOK, QueuesOK
<1>1. ASSUME NEW r \in Requests, StoreKey(r) \/ Enqueue(r) \/ ReadItems(r)  PROVE QueuesOK'
  BY <1>1 DEF StoreKey, Enqueue, ReadItems
<1>2. ASSUME NEW k \in Keys, LapseKey(k)  PROVE QueuesOK'
  BY <1>2 DEF LapseKey
<1>3. CASE UNCHANGED queueVars
  BY <1>3 DEF queueVars
<1>4. QED  BY <1>1, <1>2, <1>3, Frame

LEMMA RowsTyped ==
    ASSUME Base, [Next]_vars
    PROVE  RowsOK'
<1> USE DEF Base, TypeOK, RowsOK
<1>1. UNCHANGED basket
  BY Frame DEF inputs
<1>2. ASSUME NEW r \in Requests, Update(r)  PROVE RowsOK'
  <2>1. line[r] \in 1 .. Len(basket[r])
    BY <1>2, BasketFacts DEF Update, Shape
  <2>2. /\ basket[r][line[r]].item \in Items
        /\ basket[r][line[r]].qty \in Nat \ {0}
    BY <2>1, BasketFacts
  <2>3. taken' \in [Requests -> [Items -> Nat]]
    <3>1. \/ taken' = taken
          \/ \E i \in Items, q \in Nat : taken' = [taken EXCEPT ![r][i] = @ + q]
      BY <1>2, <2>2 DEF Update
    <3>2. taken \in [Requests -> [Items -> Nat]]
      OBVIOUS
    <3>3. ASSUME NEW i \in Items, NEW q \in Nat, taken' = [taken EXCEPT ![r][i] = @ + q]
          PROVE  taken' \in [Requests -> [Items -> Nat]]
      <4> HIDE DEF Base, TypeOK, RowsOK
      <4> QED  BY <3>2, <3>3, NestedUpdate
    <3>4. QED  BY <3>1, <3>2, <3>3
  <2>4. /\ line' \in [Requests -> Nat \ {0}]
        /\ \A s \in Requests : line'[s] <= Len(basket[s]) + 1
    <3>1. line' = line \/ line' = [line EXCEPT ![r] = @ + 1]
      BY <1>2 DEF Update
    <3>2. Len(basket[r]) \in Nat
      BY BasketFacts
    <3>3. /\ line[r] \in Nat \ {0} /\ line[r] <= Len(basket[r])
          /\ line \in [Requests -> Nat \ {0}]
          /\ \A s \in Requests : line[s] <= Len(basket[s]) + 1
      BY <2>1, <3>2
    <3> HIDE DEF Base, TypeOK, RowsOK
    <3>4. QED  BY <3>1, <3>2, <3>3
  <2>5. stock' = stock /\ orders' = orders
    BY <1>2 DEF Update
  <2>6. QED  BY <1>1, <2>3, <2>4, <2>5
<1>3. ASSUME NEW r \in Requests, Commit(r) \/ LoseCommit(r)  PROVE RowsOK'
  <2>1. CommitRows(r) /\ r \in Requests \ orders
    BY <1>3 DEF Commit, LoseCommit, Shape, Uncommitted
  <2>2. stock' \in [Items -> Nat]
    BY <2>1 DEF CommitRows, Rows
  <2>3. QED  BY <1>1, <2>1, <2>2 DEF CommitRows
<1>4. ASSUME NEW r \in Requests, Rollback(r)  PROVE RowsOK'
  BY <1>1, <1>4 DEF Rollback, Untaken
<1>5. CASE Crash
  BY <1>1, <1>5 DEF Crash, Untaken
<1>6. CASE UNCHANGED dbVars
  BY <1>1, <1>6 DEF dbVars
<1>7. QED  BY <1>2, <1>3, <1>4, <1>5, <1>6, Frame

LEMMA RowsPreserved ==
    ASSUME Base, [Next]_vars
    PROVE  Rows'
<1> USE DEF Base, TypeOK, RowsOK, Rows
<1>1. ASSUME NEW r \in Requests, Update(r)  PROVE Rows'
  <2> DEFINE i == basket[r][line[r]].item
             q == basket[r][line[r]].qty
  <2>1. line[r] \in 1 .. Len(basket[r])
    BY <1>1, BasketFacts DEF Update, Shape
  <2>2. i \in Items /\ q \in Nat
    BY <2>1, BasketFacts
  <2>3. \A s \in Requests \ orders : s # r => taken[s][i] = 0
    BY <1>1, <2>2 DEF Update, Blockers
  <2>4. stock' = stock /\ orders' = orders
    BY <1>1 DEF Update
  <2>5. CASE UNCHANGED taken
    BY <2>4, <2>5
  <2>6. CASE taken' = [taken EXCEPT ![r][i] = @ + q] /\ taken[r][i] + q <= stock[i]
    <3> HIDE DEF i, q
    <3> QED  BY <2>2, <2>3, <2>4, <2>6
  <2>7. taken' = [taken EXCEPT ![r][i] = @ + q] \/ UNCHANGED taken
    BY <1>1 DEF Update
  <2>8. InStock(r, i, q) \/ UNCHANGED taken
    BY <1>1 DEF Update
  <2>9. InStock(r, i, q) => taken[r][i] + q <= stock[i]
    <3> HIDE DEF i, q
    <3> QED  BY <2>2 DEF InStock
  <2>10. QED  BY <2>5, <2>6, <2>7, <2>8, <2>9
<1>2. ASSUME NEW r \in Requests, Commit(r) \/ LoseCommit(r)  PROVE Rows'
  <2>1. CommitRows(r) /\ r \in Requests \ orders
    BY <1>2 DEF Commit, LoseCommit, Shape, Uncommitted
  <2>2. QED  BY <2>1 DEF CommitRows
<1>3. ASSUME NEW r \in Requests, Rollback(r)  PROVE Rows'
  BY <1>3 DEF Rollback, Untaken
<1>4. CASE Crash
  BY <1>4 DEF Crash, Untaken
<1>5. CASE UNCHANGED dbVars
  BY <1>5 DEF dbVars
<1>6. QED  BY <1>1, <1>2, <1>3, <1>4, <1>5, Frame

LEMMA ShapePreserved ==
    ASSUME Base, [Next]_vars
    PROVE  Shape'
<1> USE DEF Base, TypeOK, ClientsOK, LocksOK, RowsOK, Shape, Uncommitted, Goto
<1>1. basket' = basket /\ key' = key
  BY Frame DEF inputs
<1>2. ASSUME NEW r \in Requests,
             CheckKey(r) \/ Replay(r) \/ ReadMax(r) \/ Seed(r) \/ GiveBack(r)
      PROVE  Shape'
  BY <1>1, <1>2 DEF CheckKey, Replay, ReadMax, Seed, GiveBack, lockVars, dbVars
<1>3. ASSUME NEW r \in Requests, Draw(r)  PROVE Shape'
  <2>1. /\ pc[r] = "draw"
        /\ Goto(r, "giveBack") \/ Goto(r, "lock")
        /\ UNCHANGED <<lockVars, dbVars>>
    BY <1>3 DEF Draw
  <2>2. held[r] < Len(basket[r])
    BY <2>1, BasketFacts
  <2>3. QED  BY <1>1, <2>1, <2>2 DEF lockVars, dbVars
<1>4. ASSUME NEW r \in Requests, Lock(r)  PROVE Shape'
  <2>1. /\ pc[r] = "lock"
        /\ \/ Goto(r, "releaseSlot") /\ UNCHANGED lockVars
           \/ /\ held' = [held EXCEPT ![r] = held[r] + 1]
              /\ Goto(r, IF held[r] + 1 = Len(basket[r]) THEN "connect" ELSE "lock")
        /\ UNCHANGED dbVars
    BY <1>4 DEF Lock
  <2>2. Len(basket[r]) \in Nat
    BY BasketFacts
  <2>3. QED  BY <1>1, <2>1, <2>2 DEF lockVars, dbVars
<1>5. ASSUME NEW r \in Requests, Connect(r)  PROVE Shape'
  BY <1>1, <1>5, BasketFacts DEF Connect, lockVars, dbVars
<1>6. ASSUME NEW r \in Requests, Update(r)  PROVE Shape'
  <2>1. /\ pc[r] = "update"
        /\ \/ Goto(r, "rollback") /\ UNCHANGED line
           \/ /\ line' = [line EXCEPT ![r] = line[r] + 1]
              /\ Goto(r, IF line[r] = Len(basket[r]) THEN "insert" ELSE "update")
        /\ UNCHANGED <<lockVars, orders>>
    BY <1>6 DEF Update, AfterUpdate
  <2>2. Len(basket[r]) \in Nat
    BY BasketFacts
  <2>3. QED  BY <1>1, <2>1, <2>2 DEF lockVars
<1>7. ASSUME NEW r \in Requests, Insert(r) \/ Victim(r)  PROVE Shape'
  BY <1>1, <1>7 DEF Insert, Victim, lockVars, dbVars
<1>8. ASSUME NEW r \in Requests, Commit(r) \/ LoseCommit(r)  PROVE Shape'
  BY <1>1, <1>8 DEF Commit, LoseCommit, CommitRows, AfterCommit, lockVars
<1>9. ASSUME NEW r \in Requests, StoreKey(r) \/ Enqueue(r) \/ ReadItems(r)  PROVE Shape'
  BY <1>1, <1>9 DEF StoreKey, Enqueue, ReadItems, lockVars, dbVars
<1>10. ASSUME NEW r \in Requests, Rollback(r) \/ ReleaseSlot(r)  PROVE Shape'
  BY <1>1, <1>10 DEF Rollback, ReleaseSlot, lockVars, dbVars
<1>11. ASSUME NEW r \in Requests, Unlock(r)  PROVE Shape'
  BY <1>1, <1>11 DEF Unlock, lockVars, dbVars
<1>12. ASSUME NEW r \in Requests, Fail(r)  PROVE Shape'
  BY <1>1, <1>12 DEF Fail, Handler, lockVars, dbVars
<1>13. CASE Crash
  BY <1>1, <1>13 DEF Crash, lockVars
<1>14. CASE \/ Tick \/ LapseLock \/ UNCHANGED vars
            \/ \E k \in Keys : LapseKey(k)
            \/ \E w \in Windows : LapseSlot(w)
  BY <1>1, <1>14 DEF Tick, LapseLock, LapseKey, LapseSlot, vars, lockVars, dbVars
<1>15. QED
  BY <1>2, <1>3, <1>4, <1>5, <1>6, <1>7, <1>8, <1>9, <1>10, <1>11, <1>12, <1>13, <1>14
     DEF Next, Step, Idle

LEMMA BaseInit == Init => Base
  BY BasketFacts, ConstantFacts
     DEF Init, Base, TypeOK, ClientsOK, SlotsOK, LocksOK, RowsOK, QueuesOK, Shape, Rows,
         Steps, Untaken, Uncommitted, Windows

LEMMA BaseInvariant == Spec => []Base
<1>1. Base /\ [Next]_vars => Base'
  BY ClientsPreserved, SlotsPreserved, LocksPreserved, QueuesPreserved, RowsTyped,
     RowsPreserved, ShapePreserved DEF Base, TypeOK
<1>2. QED  BY BaseInit, <1>1, PTL DEF Spec

\* Type correctness of Checkout, which includes that placeOrder's guarded UPDATEs
\* (order.service.ts:128-134) never sell a dish below zero.
THEOREM TypeCorrect == Spec => []TypeOK
  BY BaseInvariant, PTL DEF Base

-----------------------------------------------------------------------------
(* Idempotency keys. *)

\* The inductive strengthening of OneOrderPerKey: a request about to commit is the
\* only one with its key, and what Redis stores or a request returns for a key is
\* the committed order of that key.
KeysOnce ==
    /\ OneOrderPerKey
    /\ \A r \in Requests : pc[r] = "commit" /\ key[r] # None =>
          /\ \A s \in orders : key[s] # key[r]
          /\ \A s \in Requests : pc[s] = "commit" /\ key[s] = key[r] => s = r
    /\ \A k \in Keys : idem[k] # None => idem[k] \in orders /\ key[idem[k]] = k
    /\ \A r \in Requests : answer[r] # None /\ key[r] # None =>
          answer[r] \in orders /\ key[answer[r]] = key[r]

LEMMA KeysInit == Init => KeysOnce
  BY DEF Init, KeysOnce, OneOrderPerKey

LEMMA KeysPreserved ==
    ASSUME Base, KeysOnce, [Next]_vars
    PROVE  KeysOnce'
<1> USE DEF Base, TypeOK, ClientsOK, RowsOK, QueuesOK, KeysOnce, OneOrderPerKey, Goto
<1>1. basket' = basket /\ key' = key
  BY Frame DEF inputs
<1> DEFINE CommitsKept == \A s \in Requests : pc'[s] = "commit" => pc[s] = "commit"
<1>2. ASSUME NEW r \in Requests, CheckKey(r)  PROVE KeysOnce'
  <2>1. /\ UNCHANGED <<orders, idem>>
        /\ CommitsKept
        /\ \/ answer' = answer
           \/ /\ key[r] \in Keys /\ idem[key[r]] # None
              /\ answer' = [answer EXCEPT ![r] = idem[key[r]]]
    BY <1>2 DEF CheckKey, dbVars, queueVars
  <2>2. \A s \in Requests : answer'[s] # None /\ key[s] # None =>
          answer'[s] \in orders /\ key[answer'[s]] = key[s]
    <3>1. CASE answer' = answer
      BY <3>1
    <3>2. CASE /\ key[r] \in Keys /\ idem[key[r]] # None
               /\ answer' = [answer EXCEPT ![r] = idem[key[r]]]
      <4>1. idem[key[r]] \in orders /\ key[idem[key[r]]] = key[r]
        BY <3>2
      <4>2. \A s \in Requests : answer'[s] = IF s = r THEN idem[key[r]] ELSE answer[s]
        BY <3>2
      <4>3. QED  BY <4>1, <4>2
    <3>3. QED  BY <2>1, <3>1, <3>2
  <2>3. QED  BY <1>1, <2>1, <2>2
<1>3. ASSUME NEW r \in Requests, Replay(r) \/ Fail(r)  PROVE KeysOnce'
  <2>1. /\ UNCHANGED <<orders, idem>>
        /\ CommitsKept
        /\ answer' = answer \/ answer' = [answer EXCEPT ![r] = None]
    BY <1>3 DEF Replay, Fail, Handler, dbVars, queueVars
  <2>2. \A s \in Requests : answer'[s] # None /\ key[s] # None =>
          answer'[s] \in orders /\ key[answer'[s]] = key[s]
    <3>1. \A s \in Requests : answer'[s] # None => answer'[s] = answer[s]
      BY <2>1
    <3>2. QED  BY <3>1
  <2>3. QED  BY <1>1, <2>1, <2>2
<1>4. ASSUME UNCHANGED <<orders, idem, answer>>, CommitsKept  PROVE KeysOnce'
  BY <1>1, <1>4
<1>5. ASSUME NEW r \in Requests,
             \/ ReadMax(r) \/ Seed(r) \/ Draw(r) \/ GiveBack(r) \/ Lock(r) \/ Connect(r)
             \/ Rollback(r) \/ ReleaseSlot(r) \/ Unlock(r) \/ Victim(r) \/ Update(r)
      PROVE  UNCHANGED <<orders, idem, answer>> /\ CommitsKept
  BY <1>5 DEF ReadMax, Seed, Draw, GiveBack, Lock, Connect, Rollback, ReleaseSlot, Unlock,
              Victim, Update, AfterUpdate, dbVars, queueVars
<1>6. ASSUME NEW r \in Requests, Insert(r)  PROVE KeysOnce'
  <2>1. UNCHANGED <<orders, idem, answer>>
    BY <1>6 DEF Insert, dbVars, queueVars
  <2>2. CASE KeyUsed(r)
    <3>1. CommitsKept
      BY <1>6, <2>2 DEF Insert
    <3>2. QED  BY <1>4, <2>1, <3>1
  <2>3. CASE ~KeyUsed(r)
    <3>1. \A s \in Requests \ {r} : pc[s] = "commit" /\ key[r] # None => key[s] # key[r]
      BY <1>6 DEF Insert, Blockers
    <3>2. key[r] # None => \A s \in orders : key[s] # key[r]
      BY <2>3 DEF KeyUsed
    <3>3. pc' = [pc EXCEPT ![r] = "commit"]
      BY <1>6, <2>3 DEF Insert
    <3>4. QED  BY <1>1, <2>1, <3>1, <3>2, <3>3
  <2>4. QED  BY <2>2, <2>3
<1>7. ASSUME NEW r \in Requests, Commit(r) \/ LoseCommit(r)  PROVE KeysOnce'
  <2>1. /\ pc[r] = "commit"
        /\ orders' = orders \cup {r}
        /\ UNCHANGED <<idem, answer>>
        /\ \A s \in Requests : pc'[s] = "commit" => pc[s] = "commit" /\ s # r
    BY <1>7 DEF Commit, LoseCommit, CommitRows, AfterCommit, queueVars
  <2>2. QED  BY <1>1, <2>1
<1>8. ASSUME NEW r \in Requests, StoreKey(r)  PROVE KeysOnce'
  <2>1. r \in orders /\ key[r] \in Keys
    BY <1>8 DEF StoreKey, Shape
  <2>2. /\ UNCHANGED <<orders, answer>> /\ CommitsKept
        /\ idem' = [idem EXCEPT ![key[r]] = r]
    BY <1>8 DEF StoreKey, dbVars
  <2>3. QED  BY <1>1, <2>1, <2>2
<1>9. ASSUME NEW r \in Requests, Enqueue(r)  PROVE UNCHANGED <<orders, idem, answer>> /\ CommitsKept
  BY <1>9 DEF Enqueue, dbVars
<1>10. ASSUME NEW r \in Requests, ReadItems(r)  PROVE KeysOnce'
  <2>1. /\ r \in orders
        /\ UNCHANGED <<orders, idem>> /\ CommitsKept
        /\ answer' = [answer EXCEPT ![r] = r]
    BY <1>10 DEF ReadItems, Shape, dbVars
  <2>2. QED  BY <1>1, <2>1
<1>11. CASE Crash
  BY <1>1, <1>11 DEF Crash, queueVars
<1>12. ASSUME NEW k \in Keys, LapseKey(k)  PROVE KeysOnce'
  <2>1. UNCHANGED <<orders, pc, answer>> /\ idem' = [idem EXCEPT ![k] = None]
    BY <1>12 DEF LapseKey, dbVars
  <2>2. QED  BY <1>1, <2>1
<1>13. CASE \/ Tick \/ LapseLock \/ UNCHANGED vars
            \/ \E w \in Windows : LapseSlot(w)
  <2>1. UNCHANGED <<pc, orders, idem, answer>>
    BY <1>13 DEF Tick, LapseLock, LapseSlot, vars, dbVars, queueVars
  <2>2. QED  BY <1>4, <2>1
<1>14. QED
  BY <1>2, <1>3, <1>4, <1>5, <1>6, <1>7, <1>8, <1>9, <1>10, <1>11, <1>12, <1>13
     DEF Next, Step, Idle

LEMMA KeysInvariant == Spec => []KeysOnce
<1>1. Base /\ KeysOnce /\ [Next]_vars => KeysOnce'
  BY KeysPreserved
<1>2. QED  BY KeysInit, BaseInvariant, <1>1, PTL DEF Spec

\* schema.sql:101, "same key => same order": no two orders ever have one key,
\* whatever the requests with that key do at the same time and whatever fails.
THEOREM KeyHasOneOrder == Spec => []OneOrderPerKey
<1>1. KeysOnce => OneOrderPerKey
  BY DEF KeysOnce
<1>2. QED  BY KeysInvariant, <1>1, PTL

\* placeOrder returns one order for one key, from the Redis entry as from the INSERT.
THEOREM KeyHasOneAnswer == Spec => []SameKeySameAnswer
<1>1. Base /\ KeysOnce => SameKeySameAnswer
  BY ConstantFacts DEF Base, TypeOK, ClientsOK, KeysOnce, OneOrderPerKey, SameKeySameAnswer
<1>2. QED  BY BaseInvariant, KeysInvariant, <1>1, PTL

-----------------------------------------------------------------------------
(* What the restaurant is told. *)

Announcing ==
    /\ AnnouncedAreQueued
    /\ \A r \in Requests : pc[r] = "readItems" => r \in jobs

LEMMA AnnouncingPreserved ==
    ASSUME Base, Announcing, [Next]_vars
    PROVE  Announcing'
<1> USE DEF Base, TypeOK, ClientsOK, RowsOK, QueuesOK, Announcing, AnnouncedAreQueued
<1>1. orders \subseteq orders'
  BY Frame DEF Update, Rollback, Commit, LoseCommit, CommitRows, Crash, dbVars
<1>2. jobs \subseteq jobs'
  BY Frame DEF StoreKey, Enqueue, ReadItems, LapseKey, queueVars
<1>3. announced' \subseteq orders' \cap jobs'
  <2>1. ASSUME NEW r \in Requests, ReadItems(r)  PROVE r \in orders \cap jobs
    BY <2>1 DEF ReadItems, Shape
  <2>2. announced' = announced \/ \E r \in Requests : ReadItems(r)
    BY Frame DEF StoreKey, Enqueue, LapseKey, queueVars
  <2>3. ASSUME NEW r \in Requests, ReadItems(r)  PROVE announced' = announced \cup {r}
    BY <2>3 DEF ReadItems
  <2>4. QED  BY <1>1, <1>2, <2>1, <2>2, <2>3
<1>4. \A r \in Requests : pc'[r] = "readItems" => r \in jobs'
  <2>1. ASSUME NEW s \in Requests, Process(s), NEW r \in Requests, pc'[r] = "readItems"
        PROVE  pc[r] = "readItems" \/ Enqueue(r)
    BY <2>1 DEF Goto, Process, Step, CheckKey, Replay, ReadMax, Seed, Draw, GiveBack, Lock,
         Connect, Update, AfterUpdate, Insert, Commit, AfterCommit, Victim, StoreKey, Enqueue,
         ReadItems, Rollback, ReleaseSlot, Unlock, Fail, Handler, LoseCommit
  <2>2. CASE Crash
    BY <2>2 DEF Crash
  <2>3. CASE UNCHANGED pc
    BY <1>2, <2>3
  <2>4. QED  BY <1>2, <2>1, <2>2, <2>3, Frame DEF Enqueue
<1>5. QED  BY <1>3, <1>4

\* ORDER_NEW (order.service.ts:192-199) names only orders that are committed and
\* whose payment job was added, so the kitchen never sees an order that nobody
\* will charge for.
THEOREM KitchenSeesQueuedOrders == Spec => []AnnouncedAreQueued
<1>1. Init => Announcing
  BY DEF Init, Announcing, AnnouncedAreQueued
<1>2. Base /\ Announcing /\ [Next]_vars => Announcing'
  BY AnnouncingPreserved
<1>3. Announcing => AnnouncedAreQueued
  BY DEF Announcing
<1>4. QED  BY BaseInvariant, <1>1, <1>2, <1>3, PTL DEF Spec

-----------------------------------------------------------------------------
(* The item locks. *)

\* The steps between the last SET NX and the release of the connection.
CriticalSteps == {"connect", "update", "insert", "commit", "store", "enqueue",
                  "readItems", "rollback"}

\* While no TTL runs out: there is one entry per dish, a request has the entries of
\* the lines it counted, and counted every line before it goes on.
LocksKept ==
    /\ \A l, m \in locks : l[1] = m[1] => l = m
    /\ \A r \in Requests :
          /\ pc[r] \in CriticalSteps => held[r] = Len(basket[r])
          /\ pc[r] \in CriticalSteps \cup {"lock", "releaseSlot", "unlock"} =>
                \A n \in 1 .. held[r] : <<basket[r][n].item, r, n>> \in locks

LEMMA LocksKeptPreserved ==
    ASSUME Base, LocksKept, [Next]_vars, "lock" \notin Lapsing
    PROVE  LocksKept'
<1> DEFINE Holding == CriticalSteps \cup {"lock", "releaseSlot", "unlock"}
           Entries(r) == \A n \in 1 .. held[r] : <<basket[r][n].item, r, n>> \in locks
<1>1. basket' = basket
  BY Frame DEF inputs
<1>2. ASSUME NEW r \in Requests, Lock(r)  PROVE LocksKept'
  <2> DEFINE i == basket[r][held[r] + 1].item
  <2>1. held[r] \in Nat /\ Len(basket[r]) \in Nat
    BY BasketFacts DEF Base, TypeOK, LocksOK
  <2>2. CASE Locked(i)
    <3>1. UNCHANGED lockVars /\ Goto(r, "releaseSlot") /\ pc[r] = "lock"
      BY <1>2, <2>2 DEF Lock
    <3>2. QED
      BY <1>1, <3>1 DEF LocksKept, lockVars, Goto, CriticalSteps, Base, TypeOK, ClientsOK
  <2>3. CASE ~Locked(i)
    <3>1. /\ pc[r] = "lock"
          /\ locks' = locks \cup {<<i, r, held[r] + 1>>}
          /\ held' = [held EXCEPT ![r] = held[r] + 1]
          /\ Goto(r, IF held[r] + 1 = Len(basket[r]) THEN "connect" ELSE "lock")
      BY <1>2, <2>3 DEF Lock
    <3>2. \A l, m \in locks' : l[1] = m[1] => l = m
      BY <2>3, <3>1 DEF Locked, LocksKept
    <3>3. /\ pc'[r] \in {"connect", "lock"}
          /\ pc'[r] = "connect" => held[r] + 1 = Len(basket[r])
          /\ held'[r] = held[r] + 1
          /\ \A s \in Requests \ {r} : pc'[s] = pc[s] /\ held'[s] = held[s]
      BY <3>1 DEF Goto, Base, TypeOK, ClientsOK, LocksOK
    <3>4. \A n \in 1 .. held'[r] : <<basket[r][n].item, r, n>> \in locks'
      <4>1. \A n \in 1 .. held[r] : <<basket[r][n].item, r, n>> \in locks
        BY <3>1 DEF LocksKept
      <4>2. \A n \in 1 .. held[r] + 1 : n \in 1 .. held[r] \/ n = held[r] + 1
        BY <2>1
      <4>3. QED  BY <3>1, <3>3, <4>1, <4>2
    <3>5. QED  BY <1>1, <3>1, <3>2, <3>3, <3>4 DEF LocksKept, CriticalSteps
  <2>4. QED  BY <2>2, <2>3
<1>3. ASSUME NEW r \in Requests, Unlock(r)  PROVE LocksKept'
  <2>1. CASE held[r] = 0
    <3>1. UNCHANGED lockVars /\ Goto(r, "end")
      BY <1>3, <2>1 DEF Unlock
    <3>2. QED
      BY <1>1, <3>1 DEF LocksKept, lockVars, Goto, CriticalSteps, Base, TypeOK, ClientsOK
  <2>2. CASE held[r] # 0
    <3>1. /\ pc[r] = "unlock"
          /\ locks' = locks \ {<<basket[r][held[r]].item, r, held[r]>>}
          /\ held' = [held EXCEPT ![r] = held[r] - 1]
          /\ UNCHANGED pc
      BY <1>3, <2>2 DEF Unlock, Released
    <3>2. /\ held[r] \in Nat /\ held'[r] = held[r] - 1
          /\ \A s \in Requests \ {r} : held'[s] = held[s]
      BY <3>1 DEF Base, TypeOK, LocksOK
    <3>3. \A n \in 1 .. held'[r] : n \in 1 .. held[r] /\ n # held[r]
      BY <2>2, <3>2
    <3>4. QED  BY <1>1, <3>1, <3>2, <3>3 DEF LocksKept, CriticalSteps
  <2>3. QED  BY <2>1, <2>2
<1>4. CASE UNCHANGED lockVars
  <2>1. ASSUME NEW s \in Requests, Process(s), ~Lock(s), NEW r \in Requests
        PROVE  /\ pc'[r] \in Holding => pc[r] \in Holding \/ pc[r] = "draw"
               /\ pc'[r] \in CriticalSteps => pc[r] \in CriticalSteps
    <3> USE DEF Goto, ClientsOK
    <3>1. pc \in [Requests -> Steps] /\ \A x \in Requests \ {s} : pc'[x] = pc[x]
      BY <2>1, GotoSteps DEF Base, TypeOK
    <3>2. CASE \/ CheckKey(s) \/ Replay(s) \/ ReadMax(s) \/ Seed(s) \/ Draw(s) \/ GiveBack(s)
               \/ Rollback(s) \/ ReleaseSlot(s) \/ Unlock(s)
      BY <3>1, <3>2 DEF CriticalSteps, CheckKey, Replay, ReadMax, Seed, Draw, GiveBack,
                        Rollback, ReleaseSlot, Unlock
    <3>3. CASE Connect(s) \/ Update(s) \/ Insert(s) \/ Commit(s)
      BY <3>1, <3>3 DEF CriticalSteps, Connect, Update, AfterUpdate, Insert, Commit, AfterCommit
    <3>4. CASE StoreKey(s) \/ Enqueue(s) \/ ReadItems(s) \/ LoseCommit(s)
      BY <3>1, <3>4 DEF CriticalSteps, StoreKey, Enqueue, ReadItems, LoseCommit
    <3>5. CASE Victim(s)
      <4>1. pc[s] \in {"update", "insert"}
        BY <3>5 DEF Victim, Blockers
      <4>2. QED  BY <3>1, <3>5, <4>1 DEF CriticalSteps, Victim
    <3>6. CASE Fail(s)
      BY <3>1, <3>6 DEF CriticalSteps, Fail, Handler
    <3>7. QED  BY <2>1, <3>2, <3>3, <3>4, <3>5, <3>6 DEF Process, Step
  <2>2. ASSUME NEW s \in Requests, Process(s), ~Lock(s)  PROVE LocksKept'
    <3>1. \A r \in Requests : pc[r] = "draw" => held[r] = 0
      BY DEF Base, Shape
    <3>2. QED  BY <1>1, <1>4, <2>1, <2>2, <3>1 DEF LocksKept, lockVars
  <2>3. CASE Crash
    BY <1>1, <1>4, <2>3 DEF Crash, LocksKept, lockVars, CriticalSteps
  <2>4. CASE UNCHANGED pc
    BY <1>1, <1>4, <2>4 DEF LocksKept, lockVars
  <2>5. QED  BY <1>2, <2>2, <2>3, <2>4, Frame
<1>5. QED  BY <1>2, <1>3, <1>4, Frame DEF LapseLock

\* README.md:110, "preventing race conditions during checkout": as long as no lock's
\* TTL runs out, two checkouts in their transactions have no dish in common.
THEOREM LocksExclude ==
    ASSUME "lock" \notin Lapsing
    PROVE  Spec => []MutualExclusion
<1>1. Init => LocksKept
  BY DEF Init, LocksKept, CriticalSteps
<1>2. Base /\ LocksKept /\ [Next]_vars => LocksKept'
  BY LocksKeptPreserved
<1>3. Base /\ LocksKept => MutualExclusion
  <2> SUFFICES ASSUME Base, LocksKept, NEW r \in Critical, NEW s \in Critical,
                      NEW i \in Dishes(r) \cap Dishes(s)
               PROVE  r = s
    BY DEF MutualExclusion
  <2>1. /\ r \in Requests /\ pc[r] \in CriticalSteps
        /\ s \in Requests /\ pc[s] \in CriticalSteps
    BY DEF Critical, Connected, CriticalSteps
  <2>2. PICK n \in DOMAIN basket[r] : basket[r][n].item = i
    BY DEF Dishes
  <2>3. PICK m \in DOMAIN basket[s] : basket[s][m].item = i
    BY DEF Dishes
  <2>4. n \in 1 .. held[r] /\ m \in 1 .. held[s]
    <3>1. basket[r] \in Seq([item : Items, qty : Nat \ {0}])
          /\ basket[s] \in Seq([item : Items, qty : Nat \ {0}])
      BY <2>1, CheckoutAssumption DEF Base, TypeOK, ClientsOK
    <3>2. DOMAIN basket[r] = 1 .. Len(basket[r]) /\ DOMAIN basket[s] = 1 .. Len(basket[s])
      BY <3>1
    <3>3. QED  BY <2>1, <3>2 DEF LocksKept
  <2>5. <<i, r, n>> \in locks /\ <<i, s, m>> \in locks
    BY <2>1, <2>2, <2>3, <2>4 DEF LocksKept
  <2>6. <<i, r, n>> = <<i, s, m>>
    BY <2>5 DEF LocksKept
  <2>7. QED  BY <2>6
<1>4. QED  BY BaseInvariant, <1>1, <1>2, <1>3, PTL DEF Spec

\* The RELEASE_SCRIPT (order.lock.ts:13-19) deletes only the caller's own entry, also
\* when the caller's lock had lapsed and another request holds the item by then.
THEOREM ReleaseIsOwn == Spec => OnlyOwnLockReleased
<1> DEFINE Own == \A l \in locks : l \notin locks' =>
                     \/ UNCHANGED held
                     \/ held[l[2]] = l[3] /\ held'[l[2]] = l[3] - 1
<1>1. Base /\ [Next]_vars => [Own]_vars
  <2> SUFFICES ASSUME Base, [Next]_vars  PROVE Own
    OBVIOUS
  <2>1. ASSUME NEW r \in Requests, Lock(r)  PROVE locks \subseteq locks'
    BY <2>1 DEF Lock, lockVars
  <2>2. ASSUME NEW r \in Requests, Unlock(r)  PROVE Own
    <3>1. CASE held[r] = 0
      BY <2>2, <3>1 DEF Unlock, lockVars
    <3>2. CASE held[r] # 0
      <4>1. /\ locks' = locks \ {<<basket[r][held[r]].item, r, held[r]>>}
            /\ held' = [held EXCEPT ![r] = held[r] - 1]
        BY <2>2, <3>2 DEF Unlock, Released
      <4>2. held'[r] = held[r] - 1
        BY <4>1 DEF Base, TypeOK, LocksOK
      <4>3. QED  BY <4>1, <4>2
    <3>3. QED  BY <3>1, <3>2
  <2>3. CASE LapseLock
    BY <2>3 DEF LapseLock
  <2>4. CASE UNCHANGED lockVars
    BY <2>4 DEF lockVars
  <2>5. QED  BY <2>1, <2>2, <2>3, <2>4, Frame
<1>2. QED  BY BaseInvariant, <1>1, PTL DEF Spec, OnlyOwnLockReleased

-----------------------------------------------------------------------------
(* The slot counters. *)

\* The steps of a request that was admitted and has not been released.
AdmittedSteps == CriticalSteps \cup {"lock", "releaseSlot"}

\* Who has drawn a place, and that no counter lapses before its window is over.
Drawing ==
    /\ \A r \in Requests :
          /\ slot[r] <= now
          /\ pc[r] \in {"new", "replay", "readMax", "seed", "draw"} =>
                r \notin admitted \cup overdrawn
          /\ pc[r] = "giveBack" => r \in overdrawn
          /\ pc[r] \in AdmittedSteps => r \in admitted
          /\ pc[r] = "draw" /\ slot[r] = now => expiry[slot[r]] # Absent
    /\ admitted \cap overdrawn = {}
    /\ \A w \in Windows : expiry[w] \in Windows => w <= expiry[w]

\* The admitted requests of a window: they alone may be told their order is placed.
Admitted(w) == {r \in admitted : slot[r] = w}

Capacity ==
    /\ SlotAccounting
    /\ \A w \in now .. LastWindow : Cardinality(Admitted(w)) <= MaxPerSlot

Told == \A r \in Requests : answer[r] = r => r \in admitted /\ pc[r] \in {"unlock", "end"}

-----------------------------------------------------------------------------
LEMMA DrawnFinite ==
    ASSUME TypeOK, NEW w
    PROVE  /\ IsFiniteSet(Drawn(w)) /\ Cardinality(Drawn(w)) \in Nat
           /\ IsFiniteSet(Admitted(w)) /\ Cardinality(Admitted(w)) \in Nat
<1>1. IsFiniteSet(Requests)
  BY CheckoutAssumption
<1>2. Drawn(w) \subseteq Requests /\ Admitted(w) \subseteq Requests
  BY DEF TypeOK, SlotsOK, Drawn, Admitted
<1>3. QED  BY <1>1, <1>2, FS_Subset, FS_CardinalityType

LEMMA ClockFacts ==
    ASSUME TypeOK
    PROVE  /\ LastWindow \in Nat /\ now \in Nat /\ now <= LastWindow
           /\ Windows = 0 .. LastWindow
           /\ now .. LastWindow \subseteq Windows
           /\ \A r \in Requests : slot[r] \in Windows
  BY ConstantFacts DEF TypeOK, ClientsOK, Windows

\* A step that leaves the clock, the counters and the sets of those who drew alone.
LEMMA CapacityUnchanged ==
    ASSUME Capacity, UNCHANGED <<now, slot, remaining, expiry, admitted, overdrawn>>
    PROVE  Capacity'
  BY DEF Capacity, SlotAccounting, Drawn, Admitted

LEMMA CapacityCheckKey ==
    ASSUME TypeOK, Drawing, Capacity, NEW r \in Requests, CheckKey(r)
    PROVE  Capacity'
<1>1. UNCHANGED <<now, remaining, expiry, admitted, overdrawn>>
  BY DEF CheckKey, slotVars
<1>2. \A s \in admitted \cup overdrawn : slot'[s] = slot[s]
  <2>1. r \notin admitted \cup overdrawn
    BY DEF CheckKey, Drawing
  <2>2. slot' = slot \/ slot' = [slot EXCEPT ![r] = now]
    BY DEF CheckKey
  <2>3. QED  BY <2>1, <2>2 DEF TypeOK, ClientsOK, SlotsOK
<1>3. \A w : Drawn(w)' = Drawn(w) /\ Admitted(w)' = Admitted(w)
  BY <1>1, <1>2 DEF Drawn, Admitted
<1>4. QED  BY <1>1, <1>3 DEF Capacity, SlotAccounting

LEMMA CapacitySeed ==
    ASSUME TypeOK, Drawing, Capacity, NEW r \in Requests, Seed(r)
    PROVE  Capacity'
<1>1. UNCHANGED <<now, slot, admitted, overdrawn>>
  BY DEF Seed
<1>2. \A w : Drawn(w)' = Drawn(w) /\ Admitted(w)' = Admitted(w)
  BY <1>1 DEF Drawn, Admitted
<1>3. slot[r] \in Windows /\ now \in Nat
  BY ClockFacts
<1>4. CASE expiry[slot[r]] # Absent
  <2>1. UNCHANGED <<remaining, expiry>>
    BY <1>4 DEF Seed, Unseeded
  <2>2. QED  BY <1>1, <2>1, CapacityUnchanged
<1>5. CASE expiry[slot[r]] = Absent
  <2>1. /\ remaining' = [remaining EXCEPT ![slot[r]] = MaxPerSlot]
        /\ expiry' = [expiry EXCEPT ![slot[r]] = now]
    BY <1>5 DEF Seed, Unseeded
  <2>2. SlotAccounting'
    <3> SUFFICES ASSUME NEW w \in now .. LastWindow
                 PROVE  IF expiry'[w] = Absent THEN Drawn(w) = {}
                        ELSE remaining'[w] + Cardinality(Drawn(w)) = MaxPerSlot
      BY <1>1, <1>2 DEF SlotAccounting
    <3>1. w \in Windows
      BY ClockFacts
    <3>2. CASE w = slot[r]
      <4>1. Drawn(w) = {} /\ Cardinality({}) = 0
        BY <1>5, <3>2, FS_EmptySet DEF Capacity, SlotAccounting
      <4>2. remaining'[w] = MaxPerSlot /\ expiry'[w] = now
        BY <2>1, <3>1, <3>2 DEF TypeOK, SlotsOK
      <4>3. QED  BY <1>3, <4>1, <4>2, ConstantFacts DEF Absent
    <3>3. CASE w # slot[r]
      <4>1. remaining'[w] = remaining[w] /\ expiry'[w] = expiry[w]
        BY <2>1, <3>1, <3>3 DEF TypeOK, SlotsOK
      <4>2. QED  BY <4>1 DEF Capacity, SlotAccounting
    <3>4. QED  BY <3>2, <3>3
  <2>3. QED  BY <1>1, <1>2, <2>2 DEF Capacity
<1>6. QED  BY <1>4, <1>5

\* The counter arithmetic of one DECR or INCR: it moves the counter and the number of
\* requests that drew in opposite directions.
LEMMA CounterMoves ==
    ASSUME TypeOK, Capacity, NEW r \in Requests, NEW n \in {-1, 1},
           AddToCounter(slot[r], n),
           UNCHANGED <<now, slot>>,
           slot[r] = now => expiry[now] # Absent,
           slot[r] <= now,
           \A w \in Windows \ {slot[r]} : Drawn(w)' = Drawn(w),
           Cardinality(Drawn(slot[r])') = Cardinality(Drawn(slot[r])) - n
    PROVE  SlotAccounting'
<1> SUFFICES ASSUME NEW w \in now .. LastWindow
             PROVE  IF expiry'[w] = Absent THEN Drawn(w)' = {}
                    ELSE remaining'[w] + Cardinality(Drawn(w)') = MaxPerSlot
  BY DEF SlotAccounting
<1>1. w \in Windows /\ w \in Nat /\ slot[r] \in Windows /\ slot[r] \in Nat /\ now \in Nat
      /\ now <= w
  BY ClockFacts
<1>2. CASE w = slot[r]
  <2>1. w = now /\ expiry[w] # Absent
    BY <1>1, <1>2
  <2>2. remaining'[w] = remaining[w] + n /\ expiry'[w] = expiry[w]
    BY <1>1, <1>2, <2>1 DEF AddToCounter, TypeOK, SlotsOK
  <2>3. remaining[w] + Cardinality(Drawn(w)) = MaxPerSlot
    BY <2>1 DEF Capacity, SlotAccounting
  <2>4. remaining[w] \in Int /\ Cardinality(Drawn(w)) \in Nat
    BY <1>1, DrawnFinite DEF TypeOK, SlotsOK
  <2>5. Cardinality(Drawn(w)') = Cardinality(Drawn(w)) - n
    BY <1>2
  <2>6. QED  BY <2>1, <2>2, <2>3, <2>4, <2>5
<1>3. CASE w # slot[r]
  <2>1. remaining'[w] = remaining[w] /\ expiry'[w] = expiry[w] /\ Drawn(w)' = Drawn(w)
    BY <1>1, <1>3 DEF AddToCounter, TypeOK, SlotsOK
  <2>2. QED  BY <2>1 DEF Capacity, SlotAccounting
<1>4. QED  BY <1>2, <1>3

LEMMA CapacityDraw ==
    ASSUME TypeOK, Drawing, Capacity, NEW r \in Requests, Draw(r)
    PROVE  Capacity'
<1> DEFINE w0 == slot[r]
<1>1. /\ AddToCounter(w0, -1) /\ UNCHANGED <<now, slot>>
      /\ pc[r] = "draw" /\ r \notin admitted /\ r \notin overdrawn
      /\ w0 <= now /\ (w0 = now => expiry[now] # Absent)
  BY DEF Draw, Drawing
<1>2. \/ admitted' = admitted \cup {r} /\ overdrawn' = overdrawn
      \/ admitted' = admitted /\ overdrawn' = overdrawn \cup {r}
  BY DEF Draw
<1>3. /\ \A w \in Windows \ {w0} : Drawn(w)' = Drawn(w)
      /\ Drawn(w0)' = Drawn(w0) \cup {r}
      /\ r \notin Drawn(w0)
  BY <1>1, <1>2 DEF Drawn
<1>4. /\ IsFiniteSet(Drawn(w0)')
      /\ Cardinality(Drawn(w0)') = Cardinality(Drawn(w0)) - (-1)
  <2>1. IsFiniteSet(Drawn(w0)) /\ Cardinality(Drawn(w0)) \in Nat
    BY DrawnFinite
  <2>2. /\ IsFiniteSet(Drawn(w0) \cup {r})
        /\ Cardinality(Drawn(w0) \cup {r}) = Cardinality(Drawn(w0)) + 1
    BY <1>3, <2>1, FS_AddElement
  <2>3. QED  BY <1>3, <2>1, <2>2
<1>5. SlotAccounting'
  BY <1>1, <1>3, <1>4, CounterMoves
<1>6. ASSUME NEW w \in now .. LastWindow  PROVE Cardinality(Admitted(w)') <= MaxPerSlot
  <2>1. w \in Windows
    BY ClockFacts
  <2>2. CASE r \in admitted' /\ w = w0
    <3>1. w = now /\ expiry[w] # Absent
      BY <1>1, <2>2, ClockFacts
    <3>2. remaining'[w] \in Int /\ remaining'[w] >= 0 /\ expiry'[w] # Absent
      <4>1. remaining'[w] = remaining[w] - 1 /\ expiry'[w] = expiry[w]
        BY <1>1, <2>1, <2>2, <3>1 DEF AddToCounter, TypeOK, SlotsOK
      <4>2. ~(remaining'[w0] < 0)
        BY <1>1, <2>2 DEF Draw, Overbooked
      <4>3. QED  BY <2>1, <2>2, <3>1, <4>1, <4>2 DEF TypeOK, SlotsOK
    <3>3. remaining'[w] + Cardinality(Drawn(w)') = MaxPerSlot
      BY <1>1, <1>5, <3>2 DEF SlotAccounting
    <3>4. Admitted(w)' \subseteq Drawn(w)'
      BY DEF Admitted, Drawn
    <3>5. IsFiniteSet(Drawn(w)')
      <4>1. Drawn(w)' = Drawn(w0)'
        BY <1>1, <2>2 DEF Drawn
      <4>2. QED  BY <1>4, <4>1
    <3>6. /\ Cardinality(Admitted(w)') <= Cardinality(Drawn(w)')
          /\ Cardinality(Admitted(w)') \in Nat /\ Cardinality(Drawn(w)') \in Nat
      BY <3>4, <3>5, FS_Subset, FS_CardinalityType
    <3>7. QED  BY <3>2, <3>3, <3>6, ConstantFacts
  <2>3. CASE ~(r \in admitted' /\ w = w0)
    <3>1. Admitted(w)' = Admitted(w)
      BY <1>1, <1>2, <2>3 DEF Admitted
    <3>2. QED  BY <3>1 DEF Capacity
  <2>4. QED  BY <2>2, <2>3
<1>7. QED  BY <1>1, <1>5, <1>6 DEF Capacity

LEMMA CapacityReturn ==
    ASSUME TypeOK, Drawing, Capacity, NEW r \in Requests, GiveBack(r) \/ ReleaseSlot(r)
    PROVE  Capacity'
<1> DEFINE w0 == slot[r]
<1>1. AddToCounter(w0, 1) /\ UNCHANGED <<now, slot>> /\ w0 <= now
  BY DEF GiveBack, ReleaseSlot, Drawing
<1>2. \/ /\ r \in overdrawn /\ r \notin admitted
         /\ overdrawn' = overdrawn \ {r} /\ admitted' = admitted
      \/ /\ r \in admitted /\ r \notin overdrawn
         /\ admitted' = admitted \ {r} /\ overdrawn' = overdrawn
  BY DEF GiveBack, ReleaseSlot, Drawing, AdmittedSteps
<1>3. /\ \A w \in Windows \ {w0} : Drawn(w)' = Drawn(w)
      /\ Drawn(w0)' = Drawn(w0) \ {r}
      /\ r \in Drawn(w0)
  BY <1>1, <1>2 DEF Drawn
<1>4. Cardinality(Drawn(w0)') = Cardinality(Drawn(w0)) - 1
  BY <1>3, DrawnFinite, FS_RemoveElement
<1>5. w0 = now => expiry[now] # Absent
  BY <1>3, ClockFacts DEF Capacity, SlotAccounting
<1>6. SlotAccounting'
  BY <1>1, <1>3, <1>4, <1>5, CounterMoves
<1>7. ASSUME NEW w \in now .. LastWindow  PROVE Cardinality(Admitted(w)') <= MaxPerSlot
  <2>1. Admitted(w)' \subseteq Admitted(w)
    BY <1>1, <1>2 DEF Admitted
  <2>2. /\ Cardinality(Admitted(w)') <= Cardinality(Admitted(w))
        /\ Cardinality(Admitted(w)') \in Nat /\ Cardinality(Admitted(w)) \in Nat
    BY <2>1, DrawnFinite, FS_Subset, FS_CardinalityType
  <2>3. QED  BY <2>2, ConstantFacts DEF Capacity
<1>8. QED  BY <1>1, <1>6, <1>7 DEF Capacity

LEMMA CapacityClock ==
    ASSUME TypeOK, Drawing, Capacity, Tick \/ \E w \in Windows : LapseSlot(w)
    PROVE  Capacity'
<1>1. UNCHANGED <<slot, admitted, overdrawn>>
  BY DEF Tick, LapseSlot, slotVars
<1>2. \A w : Drawn(w)' = Drawn(w) /\ Admitted(w)' = Admitted(w)
  BY <1>1 DEF Drawn, Admitted
<1>3. CASE Tick
  <2>1. now' .. LastWindow \subseteq now .. LastWindow /\ UNCHANGED <<remaining, expiry>>
    BY <1>3, ClockFacts DEF Tick, slotVars
  <2>2. QED  BY <1>2, <2>1 DEF Capacity, SlotAccounting
<1>4. ASSUME NEW w0 \in Windows, LapseSlot(w0)  PROVE Capacity'
  <2>1. w0 < now
    BY <1>4, ClockFacts DEF LapseSlot, Drawing
  <2>2. now' = now /\ w0 \notin now .. LastWindow
    BY <1>4, <2>1, ClockFacts DEF LapseSlot
  <2>3. \A w \in now .. LastWindow : remaining'[w] = remaining[w] /\ expiry'[w] = expiry[w]
    BY <1>4, <2>2, ClockFacts DEF LapseSlot, TypeOK, SlotsOK
  <2>4. QED  BY <1>2, <2>2, <2>3 DEF Capacity, SlotAccounting
<1>5. QED  BY <1>3, <1>4

LEMMA CapacityPreserved ==
    ASSUME TypeOK, Drawing, Capacity, [Next]_vars
    PROVE  Capacity'
<1>1. CASE Tick \/ \E w \in Windows : LapseSlot(w)
  BY <1>1, CapacityClock
<1>2. CASE \E r \in Requests : CheckKey(r)
  BY <1>2, CapacityCheckKey
<1>3. CASE UNCHANGED <<now, slot, slotVars>>
  BY <1>3, CapacityUnchanged DEF slotVars
<1>4. CASE \E r \in Requests : Seed(r) \/ Draw(r) \/ GiveBack(r) \/ ReleaseSlot(r)
  BY <1>4, CapacitySeed, CapacityDraw, CapacityReturn
<1>5. QED  BY <1>1, <1>2, <1>3, <1>4, Frame

LEMMA DrawingPreserved ==
    ASSUME Base, Drawing, Capacity, [Next]_vars
    PROVE  Drawing'
<1> USE DEF Base, TypeOK, ClientsOK, SlotsOK
<1> DEFINE Fresh == {"new", "replay", "readMax", "seed", "draw"}
<1>1. \A r \in Requests : slot'[r] <= now'
  <2>1. now \in Nat /\ (now' = now \/ now' = now + 1)
    BY Frame, ClockFacts DEF Tick
  <2>2. ASSUME NEW r \in Requests, CheckKey(r)  PROVE slot' = slot \/ slot' = [slot EXCEPT ![r] = now]
    BY <2>2 DEF CheckKey
  <2>3. \A r \in Requests : slot'[r] = slot[r] \/ slot'[r] = now
    BY <2>2, Frame
  <2>4. \A r \in Requests : slot[r] \in Nat
    BY ClockFacts
  <2>5. QED  BY <2>1, <2>3, <2>4 DEF Drawing
<1>2. \A w \in Windows : expiry'[w] \in Windows => w <= expiry'[w]
  <2>1. ASSUME NEW r \in Requests, Seed(r)
        PROVE  \A w \in Windows : expiry'[w] \in Windows => w <= expiry'[w]
    <3>1. expiry' = expiry \/ expiry' = [expiry EXCEPT ![slot[r]] = now]
      BY <2>1 DEF Seed
    <3>2. slot[r] <= now
      BY DEF Drawing
    <3>3. QED  BY <3>1, <3>2 DEF Drawing
  <2>2. ASSUME NEW r \in Requests, Draw(r) \/ GiveBack(r) \/ ReleaseSlot(r)
        PROVE  \A w \in Windows : expiry'[w] = expiry[w] \/ expiry'[w] = Never
    BY <2>2 DEF Draw, GiveBack, ReleaseSlot, AddToCounter
  <2>3. ASSUME NEW v \in Windows, LapseSlot(v)
        PROVE  \A w \in Windows : expiry'[w] = expiry[w] \/ expiry'[w] = Absent
    BY <2>3 DEF LapseSlot
  <2>4. Never \notin Windows /\ Absent \notin Windows
    BY ConstantFacts DEF Never, Absent, Windows
  <2>5. QED  BY <2>1, <2>2, <2>3, <2>4, Frame DEF Drawing, slotVars
<1>3. ASSUME NEW s \in Requests, Process(s)
      PROVE  /\ admitted' \cap overdrawn' = {}
             /\ \A r \in Requests :
                   /\ pc'[r] \in Fresh => r \notin admitted' \cup overdrawn'
                   /\ pc'[r] = "giveBack" => r \in overdrawn'
                   /\ pc'[r] \in AdmittedSteps => r \in admitted'
  <2> USE DEF Goto, AdmittedSteps, CriticalSteps, Drawing, slotVars
  <2>1. /\ pc \in [Requests -> Steps]
        /\ \A r \in Requests \ {s} : pc'[r] = pc[r]
    BY <1>3, GotoSteps
  <2>2. CASE \/ CheckKey(s) \/ Replay(s) \/ ReadMax(s) \/ Seed(s)
    BY <2>1, <2>2 DEF CheckKey, Replay, ReadMax, Seed
  <2>3. CASE Draw(s)
    BY <2>1, <2>3 DEF Draw
  <2>4. CASE GiveBack(s) \/ ReleaseSlot(s)
    BY <2>1, <2>4 DEF GiveBack, ReleaseSlot
  <2>5. CASE Lock(s) \/ Connect(s) \/ Update(s) \/ Insert(s)
    BY <2>1, <2>5 DEF Lock, Connect, Update, AfterUpdate, Insert
  <2>6. CASE Commit(s) \/ StoreKey(s) \/ Enqueue(s) \/ ReadItems(s) \/ LoseCommit(s)
    BY <2>1, <2>6 DEF Commit, AfterCommit, StoreKey, Enqueue, ReadItems, LoseCommit
  <2>7. CASE Victim(s)
    <3>1. pc[s] \in {"update", "insert"}
      BY <2>7 DEF Victim, Blockers
    <3>2. QED  BY <2>1, <2>7, <3>1 DEF Victim
  <2>8. CASE Rollback(s) \/ Unlock(s)
    BY <2>1, <2>8 DEF Rollback, Unlock
  <2>9. CASE Fail(s)
    BY <2>1, <2>9 DEF Fail, Handler
  <2>10. QED
    BY <1>3, <2>2, <2>3, <2>4, <2>5, <2>6, <2>7, <2>8, <2>9 DEF Process, Step
<1>4. CASE Crash
  BY <1>1, <1>2, <1>4 DEF Crash, Drawing, AdmittedSteps, CriticalSteps, slotVars
<1>5. ASSUME UNCHANGED pc
      PROVE  /\ admitted' \cap overdrawn' = {}
             /\ \A r \in Requests :
                   /\ pc'[r] \in Fresh => r \notin admitted' \cup overdrawn'
                   /\ pc'[r] = "giveBack" => r \in overdrawn'
                   /\ pc'[r] \in AdmittedSteps => r \in admitted'
  <2>1. (\E s \in Requests : Process(s)) \/ UNCHANGED <<admitted, overdrawn>>
    BY Frame DEF Process, Step, LapseSlot, slotVars
  <2>2. QED  BY <1>3, <1>5, <2>1 DEF Drawing
<1>6. \A r \in Requests : pc'[r] = "draw" /\ slot'[r] = now' => expiry'[slot'[r]] # Absent
  <2>1. ASSUME NEW r \in Requests, pc'[r] = "draw", slot'[r] = now', pc[r] # "draw"
        PROVE  expiry'[slot'[r]] # Absent
    <3>1. Seed(r)
      <4>1. PICK s \in Requests : Process(s)
        BY <2>1, Frame DEF Crash
      <4>2. s = r
        BY <2>1, <4>1, GotoSteps DEF Goto
      <4>3. QED
        BY <2>1, <4>1, <4>2 DEF Goto, Process, Step, CheckKey, Replay, ReadMax, Draw, GiveBack,
           Lock, Connect, Update, AfterUpdate, Insert, Commit, AfterCommit, Victim, StoreKey,
           Enqueue, ReadItems, Rollback, ReleaseSlot, Unlock, Fail, Handler, LoseCommit
    <3>2. slot' = slot /\ now \in Nat
      BY <3>1, ClockFacts DEF Seed
    <3>3. \/ expiry' = expiry /\ expiry[slot[r]] # Absent
          \/ expiry' = [expiry EXCEPT ![slot[r]] = now]
      BY <3>1 DEF Seed, Unseeded
    <3>4. QED  BY <3>2, <3>3 DEF Absent
  <2>2. ASSUME NEW r \in Requests, pc'[r] = "draw", slot'[r] = now', pc[r] = "draw"
        PROVE  expiry'[slot'[r]] # Absent
    <3>1. slot'[r] = slot[r] /\ slot[r] \in Nat /\ now \in Nat
      BY <2>2, Frame, ClockFacts DEF CheckKey
    <3>2. now' = now
      BY <2>2, <3>1, <1>1, Frame DEF Tick, Drawing
    <3>3. expiry[slot[r]] # Absent
      BY <2>2, <3>1, <3>2 DEF Drawing
    <3>4. ASSUME NEW s \in Requests, Seed(s)  PROVE expiry'[slot[r]] # Absent
      BY <3>1, <3>3, <3>4 DEF Seed, Unseeded, Absent
    <3>5. ASSUME NEW s \in Requests, Draw(s) \/ GiveBack(s) \/ ReleaseSlot(s)
          PROVE  expiry'[slot[r]] # Absent
      BY <3>3, <3>5 DEF Draw, GiveBack, ReleaseSlot, AddToCounter
    <3>6. ASSUME NEW w \in Windows, LapseSlot(w)  PROVE expiry'[slot[r]] # Absent
      <4>1. w <= expiry[w] /\ expiry[w] \in Windows /\ expiry[w] < now
        BY <3>6 DEF LapseSlot, Drawing
      <4>2. w \in Nat /\ expiry[w] \in Nat
        BY <4>1, ClockFacts
      <4>3. slot[r] = now
        BY <2>2, <3>1, <3>2
      <4>4. slot[r] # w
        BY <3>1, <4>1, <4>2, <4>3
      <4>5. QED  BY <3>1, <3>3, <3>6, <4>4, ClockFacts DEF LapseSlot
    <3>7. QED  BY <3>1, <3>3, <3>4, <3>5, <3>6, Frame DEF slotVars
  <2>3. QED  BY <2>1, <2>2
<1>7. QED
  BY <1>1, <1>2, <1>3, <1>4, <1>5, <1>6, Frame DEF Drawing

LEMMA ToldPreserved ==
    ASSUME Base, KeysOnce, Drawing, Told, [Next]_vars
    PROVE  Told'
<1> USE DEF Told
<1>1. TypeOK /\ ClientsOK /\ None \notin Requests
  BY ConstantFacts DEF Base, TypeOK
<1>2. ASSUME NEW s \in Requests, Process(s)  PROVE Told'
  <2>1. /\ pc \in [Requests -> Steps] /\ answer \in [Requests -> Requests \cup {None}]
        /\ \A r \in Requests \ {s} : pc'[r] = pc[r]
    BY <1>1, <1>2, GotoSteps DEF ClientsOK, Goto
  <2>2. CASE CheckKey(s)
    <3>1. s \notin orders
      BY <2>2 DEF CheckKey, Base, Shape, Uncommitted
    <3>2. answer'[s] # s
      <4>1. answer[s] # s /\ (key[s] = None \/ key[s] \in Keys)
        BY <1>1, <2>2 DEF CheckKey, ClientsOK
      <4>2. \/ UNCHANGED answer
            \/ key[s] # None /\ idem[key[s]] # None /\ answer'[s] = idem[key[s]]
        BY <2>1, <2>2 DEF CheckKey
      <4>3. QED  BY <3>1, <4>1, <4>2 DEF KeysOnce
    <3>3. QED  BY <2>1, <2>2, <3>2 DEF CheckKey, slotVars
  <2>3. CASE Replay(s)
    BY <1>1, <2>1, <2>3 DEF Replay, slotVars
  <2>4. CASE ReadItems(s)
    <3>1. s \in admitted
      BY <2>4 DEF ReadItems, Drawing, AdmittedSteps, CriticalSteps
    <3>2. QED  BY <2>1, <2>4, <3>1 DEF ReadItems, slotVars, Goto
  <2>5. CASE Fail(s)
    BY <1>1, <2>1, <2>5 DEF Fail, slotVars
  <2>6. CASE Draw(s) \/ GiveBack(s) \/ ReleaseSlot(s)
    BY <2>1, <2>6 DEF Draw, GiveBack, ReleaseSlot
  <2>7. CASE Unlock(s)
    BY <2>1, <2>7 DEF Unlock, slotVars, Goto
  <2>8. CASE /\ UNCHANGED <<answer, admitted>>
             /\ pc[s] \notin {"unlock", "end"}
    BY <2>1, <2>8
  <2>9. CASE \/ ReadMax(s) \/ Seed(s) \/ Lock(s) \/ Connect(s) \/ Update(s) \/ Insert(s)
             \/ Commit(s) \/ Victim(s) \/ StoreKey(s) \/ Enqueue(s) \/ Rollback(s)
             \/ LoseCommit(s)
    <3>1. UNCHANGED <<answer, admitted>>
      BY <2>9 DEF ReadMax, Seed, Lock, Connect, Update, Insert, Commit, Victim, StoreKey,
         Enqueue, Rollback, LoseCommit, slotVars
    <3>2. pc[s] \notin {"unlock", "end"}
      BY <2>9 DEF ReadMax, Seed, Lock, Connect, Update, Insert, Commit, Victim, Blockers,
         StoreKey, Enqueue, Rollback, LoseCommit
    <3>3. QED  BY <2>8, <3>1, <3>2
  <2>10. QED
    BY <1>2, <2>2, <2>3, <2>4, <2>5, <2>6, <2>7, <2>9 DEF Process, Step
<1>3. CASE Crash
  BY <1>1, <1>3 DEF Crash, slotVars, ClientsOK
<1>4. CASE UNCHANGED <<pc, answer, admitted>>
  BY <1>4
<1>5. QED
  <2>1. \/ \E s \in Requests : Process(s)
        \/ Crash
        \/ UNCHANGED <<pc, answer, admitted>>
    BY Frame DEF Process, Step, LapseSlot, slotVars
  <2>2. QED  BY <1>2, <1>3, <1>4, <2>1

LEMMA CapacityInit ==
    ASSUME Init
    PROVE  Drawing /\ Capacity /\ Told
<1>1. Drawing
  BY ConstantFacts DEF Init, Drawing, AdmittedSteps, CriticalSteps, Windows, Absent
<1>2. Capacity
  <2>1. now .. LastWindow = Windows
    BY DEF Init, Windows
  <2>2. \A w \in Windows : Drawn(w) = {} /\ Admitted(w) = {} /\ expiry[w] = Absent
    BY DEF Init, Drawn, Admitted
  <2>3. Cardinality({}) = 0 /\ 0 <= MaxPerSlot
    BY FS_EmptySet, ConstantFacts
  <2>4. SlotAccounting
    BY <2>1, <2>2 DEF SlotAccounting
  <2>5. \A w \in now .. LastWindow : Cardinality(Admitted(w)) <= MaxPerSlot
    BY <2>1, <2>2, <2>3
  <2>6. QED  BY <2>4, <2>5 DEF Capacity
<1>3. Told
  BY ConstantFacts DEF Init, Told
<1>4. QED  BY <1>1, <1>2, <1>3

LEMMA CapacityInvariant == Spec => [](Drawing /\ Capacity /\ Told)
<1>1. Base /\ KeysOnce /\ Drawing /\ Capacity /\ Told /\ [Next]_vars
        => (Drawing /\ Capacity /\ Told)'
  BY DrawingPreserved, CapacityPreserved, ToldPreserved DEF Base
<1>2. QED  BY CapacityInit, BaseInvariant, KeysInvariant, <1>1, PTL DEF Spec

\* capacity.service.ts: whatever order the SET NX, DECR and INCR of any number of requests
\* come in, and whichever of them fail, no place of a window that is not over is lost or
\* counted twice.
THEOREM NoPlaceLost == Spec => []SlotAccounting
<1>1. Drawing /\ Capacity /\ Told => SlotAccounting
  BY DEF Capacity
<1>2. QED  BY CapacityInvariant, <1>1, PTL

\* No more than max_orders_per_slot customers are told their order is placed before
\* its window is over.
THEOREM KitchenProtected == Spec => []KitchenNotOverbooked
<1>1. TypeOK /\ Drawing /\ Capacity /\ Told => KitchenNotOverbooked
  <2> SUFFICES ASSUME TypeOK, Capacity, Told, NEW w \in now .. LastWindow
               PROVE  Cardinality({r \in Requests : answer[r] = r /\ slot[r] = w})
                        <= MaxPerSlot
    BY DEF KitchenNotOverbooked
  <2> DEFINE Placed == {r \in Requests : answer[r] = r /\ slot[r] = w}
  <2>1. Placed \subseteq Admitted(w)
    BY DEF Told, Admitted
  <2>2. IsFiniteSet(Admitted(w)) /\ Cardinality(Admitted(w)) \in Nat
    BY DrawnFinite
  <2>3. Cardinality(Placed) <= Cardinality(Admitted(w)) /\ Cardinality(Placed) \in Nat
    BY <2>1, <2>2, FS_Subset, FS_CardinalityType
  <2>4. QED  BY <2>2, <2>3, ConstantFacts DEF Capacity
<1>2. QED  BY TypeCorrect, CapacityInvariant, <1>1, PTL

-----------------------------------------------------------------------------
(* The stock: units, counted line by line. *)

\* The units of the lines before line l.
UnitsBefore(b, l, i) == {x \in Units(b, i) : x[1] < l}

\* The steps at which what a request took is the units of the lines it has updated.
CountedSteps == {"new", "readMax", "seed", "draw", "lock", "connect", "update", "insert", "commit"}

\* A transaction took the units of the lines it has updated, each once; an order those of
\* all its lines; and what is gone from the stock is the units of the orders.
Booked ==
    /\ \A r \in Requests : pc[r] \in {"insert", "commit"} \/ r \in orders =>
          line[r] = Len(basket[r]) + 1
    /\ \A r \in Requests : pc[r] \in CountedSteps \/ r \in orders =>
          \A i \in Items : /\ IsFiniteSet(UnitsBefore(basket[r], line[r], i))
                           /\ taken[r][i] = Cardinality(UnitsBefore(basket[r], line[r], i))
    /\ \A i \in Items : IsFiniteSet(Sold(i))
    /\ StockMatchesOrders

LEMMA UnitsOfLine ==
    ASSUME NEW b, NEW i, NEW x
    PROVE  x \in Units(b, i) <=>
              \E n \in DOMAIN b : b[n].item = i /\ x \in {n} \X (1 .. b[n].qty)
  BY DEF Units

LEMMA UpToFinite ==
    ASSUME NEW k \in Nat
    PROVE  IsFiniteSet(1 .. k) /\ Cardinality(1 .. k) = k
<1>1. 1 \in Int /\ k \in Int
  OBVIOUS
<1>2. IsFiniteSet(1 .. k) /\ Cardinality(1 .. k) = IF 1 > k THEN 0 ELSE k - 1 + 1
  BY <1>1, FS_Interval, Zenon
<1>3. QED  BY <1>2

\* Two finite sets with nothing in common.
LEMMA DisjointUnion ==
    ASSUME NEW S, IsFiniteSet(S), NEW T, IsFiniteSet(T), S \cap T = {}
    PROVE  /\ IsFiniteSet(S \cup T)
           /\ Cardinality(S \cup T) = Cardinality(S) + Cardinality(T)
           /\ Cardinality(S) \in Nat /\ Cardinality(T) \in Nat
<1>1. /\ IsFiniteSet(S \cup T)
      /\ Cardinality(S \cup T) = Cardinality(S) + Cardinality(T) - Cardinality(S \cap T)
  BY FS_Union, Zenon
<1>2. Cardinality(S \cap T) = 0
  BY FS_EmptySet
<1>3. Cardinality(S) \in Nat /\ Cardinality(T) \in Nat
  BY FS_CardinalityType
<1>4. QED  BY <1>1, <1>2, <1>3

\* Nothing is taken before the first line, everything after the last.
LEMMA UnitsAtEnds ==
    ASSUME TypeOK, NEW r \in Requests, NEW i \in Items
    PROVE  /\ UnitsBefore(basket[r], 1, i) = {}
           /\ UnitsBefore(basket[r], Len(basket[r]) + 1, i) = Units(basket[r], i)
<1>1. Len(basket[r]) \in Nat
  BY BasketFacts
<1>2. DOMAIN basket[r] = 1 .. Len(basket[r])
  <2>1. basket[r] \in Seq([item : Items, qty : Nat \ {0}])
    BY CheckoutAssumption DEF TypeOK, ClientsOK
  <2>2. QED  BY <2>1
<1>3. \A x \in Units(basket[r], i) : x[1] \in 1 .. Len(basket[r])
  BY <1>2, UnitsOfLine
<1>4. \A x \in Units(basket[r], i) : ~(x[1] < 1) /\ x[1] < Len(basket[r]) + 1
  BY <1>1, <1>3
<1>5. QED  BY <1>4 DEF UnitsBefore

\* One line more is its quantity more of its dish, and nothing of the others.
LEMMA UnitsOfNextLine ==
    ASSUME TypeOK, NEW r \in Requests, NEW l \in 1 .. Len(basket[r]), NEW i \in Items,
           IsFiniteSet(UnitsBefore(basket[r], l, i))
    PROVE  /\ IsFiniteSet(UnitsBefore(basket[r], l + 1, i))
           /\ Cardinality(UnitsBefore(basket[r], l + 1, i)) =
                 Cardinality(UnitsBefore(basket[r], l, i)) +
                    (IF basket[r][l].item = i THEN basket[r][l].qty ELSE 0)
<1> DEFINE b == basket[r]
           q == b[l].qty
           L == {l} \X (1 .. q)
           U == UnitsBefore(b, l, i)
           V == UnitsBefore(b, l + 1, i)
<1>1. Len(b) \in Nat /\ l \in Nat /\ q \in Nat
  BY BasketFacts
<1>2. DOMAIN b = 1 .. Len(b)
  <2>1. b \in Seq([item : Items, qty : Nat \ {0}])
    BY CheckoutAssumption DEF TypeOK, ClientsOK
  <2>2. QED  BY <2>1
<1>3. \A n \in 1 .. Len(b) : n < l + 1 <=> n < l \/ n = l
  BY <1>1
<1>4. \A x : x \in V <=> x \in U \/ (x \in L /\ b[l].item = i)
  <2>1. ASSUME NEW x, x \in V  PROVE x \in U \/ (x \in L /\ b[l].item = i)
    <3>1. PICK n \in DOMAIN b : b[n].item = i /\ x \in {n} \X (1 .. b[n].qty)
      BY <2>1, UnitsOfLine DEF UnitsBefore
    <3>2. x[1] = n /\ (n < l \/ n = l)
      BY <1>2, <1>3, <2>1, <3>1 DEF UnitsBefore
    <3>3. QED  BY <2>1, <3>1, <3>2 DEF UnitsBefore
  <2>2. ASSUME NEW x, x \in U  PROVE x \in V
    <3>1. x[1] \in 1 .. Len(b) /\ x[1] < l
      BY <1>2, <2>2, UnitsOfLine DEF UnitsBefore
    <3>2. QED  BY <1>3, <2>2, <3>1 DEF UnitsBefore
  <2>3. ASSUME NEW x, x \in L, b[l].item = i  PROVE x \in V
    <3>1. x \in Units(b, i)
      BY <1>2, <2>3, UnitsOfLine
    <3>2. x[1] = l /\ l < l + 1
      BY <1>1, <2>3
    <3>3. QED  BY <3>1, <3>2 DEF UnitsBefore
  <2>4. QED  BY <2>1, <2>2, <2>3
<1>5. IsFiniteSet(L) /\ Cardinality(L) = q
  <2>1. IsFiniteSet({l}) /\ Cardinality({l}) = 1
    BY FS_Singleton
  <2>2. IsFiniteSet(1 .. q) /\ Cardinality(1 .. q) = q
    BY <1>1, UpToFinite
  <2>3. IsFiniteSet(L) /\ Cardinality(L) = 1 * q
    BY <2>1, <2>2, FS_Product, Zenon
  <2>4. QED
    <3> HIDE DEF q, L
    <3> QED  BY <1>1, <2>3
<1>6. U \cap L = {}
  <2>1. \A x \in U : x[1] < l /\ x[1] \in 1 .. Len(b)
    BY <1>2, UnitsOfLine DEF UnitsBefore
  <2>2. \A x \in L : x[1] = l
    OBVIOUS
  <2>3. ~(l < l)
    BY <1>1
  <2> HIDE DEF U, L
  <2>4. QED  BY <2>1, <2>2, <2>3
<1>7. CASE b[l].item = i
  <2>1. V = U \cup L
    <3> HIDE DEF U, V, L, b
    <3> QED  BY <1>4, <1>7
  <2>2. /\ IsFiniteSet(U \cup L)
        /\ Cardinality(U \cup L) = Cardinality(U) + Cardinality(L)
    <3> HIDE DEF L
    <3> QED  BY <1>5, <1>6, DisjointUnion
  <2>3. QED
    <3> HIDE DEF L
    <3> QED  BY <1>5, <1>7, <2>1, <2>2
<1>8. CASE b[l].item # i
  <2>1. V = U
    <3> HIDE DEF U, V, L, b
    <3> QED  BY <1>4, <1>8
  <2>2. Cardinality(U) \in Nat
    BY FS_CardinalityType
  <2> HIDE DEF U, V, L, b, q
  <2>3. QED  BY <1>8, <2>1, <2>2 DEF b, U, V
<1>9. QED  BY <1>7, <1>8

\* An order adds its units to those sold.
LEMMA SoldGrows ==
    ASSUME TypeOK, NEW r \in Requests, r \notin orders, NEW i \in Items,
           orders' = orders \cup {r}, UNCHANGED basket,
           IsFiniteSet(Sold(i)), IsFiniteSet(Units(basket[r], i))
    PROVE  /\ IsFiniteSet(Sold(i)')
           /\ Cardinality(Sold(i)') = Cardinality(Sold(i)) + Cardinality(Units(basket[r], i))
<1> DEFINE U == Units(basket[r], i)
           L == {r} \X U
<1>1. Sold(i)' = Sold(i) \cup L
  BY DEF Sold
<1>2. Sold(i) \cap L = {}
  <2>1. \A x \in Sold(i) : x[1] \in orders
    BY DEF Sold
  <2>2. \A x \in L : x[1] = r
    OBVIOUS
  <2>3. QED
    <3> HIDE DEF L
    <3> QED  BY <2>1, <2>2
<1>3. Cardinality(U) \in Nat /\ Cardinality(Sold(i)) \in Nat
  BY FS_CardinalityType
<1>4. IsFiniteSet(L) /\ Cardinality(L) = Cardinality(U)
  <2>1. IsFiniteSet({r}) /\ Cardinality({r}) = 1
    BY FS_Singleton
  <2>2. IsFiniteSet(L) /\ Cardinality(L) = 1 * Cardinality(U)
    BY <2>1, FS_Product, Zenon
  <2>3. QED
    <3> HIDE DEF L, U
    <3> QED  BY <1>3, <2>2
<1>5. /\ IsFiniteSet(Sold(i) \cup L)
      /\ Cardinality(Sold(i) \cup L) = Cardinality(Sold(i)) + Cardinality(L)
  <2> HIDE DEF L
  <2> QED  BY <1>2, <1>4, DisjointUnion
<1> HIDE DEF L
<1>6. QED  BY <1>1, <1>3, <1>4, <1>5

LEMMA BookedInit == Init => Booked
<1> SUFFICES ASSUME Init  PROVE Booked
  OBVIOUS
<1>1. TypeOK
  BY BaseInit DEF Base
<1>2. /\ pc = [r \in Requests |-> "new"] /\ orders = {} /\ stock = InitStock
      /\ line = [r \in Requests |-> 1] /\ taken = [r \in Requests |-> Untaken]
  BY DEF Init
<1>3. IsFiniteSet({}) /\ Cardinality({}) = 0
  BY FS_EmptySet
<1>4. \A r \in Requests, i \in Items : UnitsBefore(basket[r], line[r], i) = {}
  BY <1>1, <1>2, UnitsAtEnds
<1>5. \A i \in Items : Sold(i) = {}
  BY <1>2 DEF Sold
<1>6. \A i \in Items : stock[i] + 0 = InitStock[i]
  BY <1>1, <1>2 DEF TypeOK, RowsOK
<1>7. \A r \in Requests : pc[r] \notin {"insert", "commit"} /\ r \notin orders
  BY <1>2
<1>8. StockMatchesOrders
  BY <1>3, <1>5, <1>6 DEF StockMatchesOrders
<1>9. \A r \in Requests, i \in Items : taken[r][i] = 0
  BY <1>2 DEF Untaken
<1>10. QED  BY <1>3, <1>4, <1>5, <1>7, <1>8, <1>9 DEF Booked

\* A step that neither commits nor updates a row, and brings no request to a step whose
\* lines are counted that was not there before.
LEMMA BookedUnchanged ==
    ASSUME Booked, UNCHANGED <<basket, stock, orders>>,
           \A r \in Requests : r \in orders \/ pc'[r] \in CountedSteps =>
              line'[r] = line[r] /\ taken'[r] = taken[r],
           \A r \in Requests : pc'[r] \in CountedSteps => pc[r] \in CountedSteps \/ r \in orders,
           \A r \in Requests : pc'[r] \in {"insert", "commit"} =>
              pc[r] \in {"insert", "commit"} \/ r \in orders
    PROVE  Booked'
<1> USE DEF Booked
<1>1. \A i : Sold(i)' = Sold(i)
  BY DEF Sold
<1>2. StockMatchesOrders'
  BY <1>1 DEF StockMatchesOrders
<1>3. \A r \in Requests : pc'[r] \in {"insert", "commit"} \/ r \in orders' =>
          line'[r] = Len(basket'[r]) + 1
  BY DEF CountedSteps
<1>4. \A r \in Requests : pc'[r] \in CountedSteps \/ r \in orders' =>
          \A i \in Items : /\ IsFiniteSet(UnitsBefore(basket'[r], line'[r], i))
                           /\ taken'[r][i] = Cardinality(UnitsBefore(basket'[r], line'[r], i))
  OBVIOUS
<1>5. QED  BY <1>1, <1>2, <1>3, <1>4

LEMMA BookedUpdate ==
    ASSUME Base, Booked, UNCHANGED basket, NEW r \in Requests, Update(r)
    PROVE  Booked'
<1> DEFINE i == basket[r][line[r]].item
           q == basket[r][line[r]].qty
<1>1. /\ pc[r] = "update" /\ r \notin orders
      /\ UNCHANGED <<stock, orders>>
      /\ \/ Goto(r, "rollback") /\ UNCHANGED <<line, taken>>
         \/ /\ taken' = [taken EXCEPT ![r][i] = @ + q]
            /\ line' = [line EXCEPT ![r] = @ + 1]
            /\ Goto(r, IF line[r] = Len(basket[r]) THEN "insert" ELSE "update")
  BY DEF Update, AfterUpdate, Base, Shape, Uncommitted
<1>2. /\ pc \in [Requests -> Steps] /\ line \in [Requests -> Nat \ {0}]
      /\ taken \in [Requests -> [Items -> Nat]]
  BY DEF Base, TypeOK, ClientsOK, RowsOK
<1>3. line[r] \in 1 .. Len(basket[r]) /\ i \in Items /\ q \in Nat
  BY <1>1, BasketFacts DEF Base, TypeOK, RowsOK, Shape
<1>4. CASE Goto(r, "rollback") /\ UNCHANGED <<line, taken>>
  BY <1>1, <1>2, <1>4, BookedUnchanged DEF Goto, CountedSteps
<1>5. CASE /\ taken' = [taken EXCEPT ![r][i] = @ + q]
           /\ line' = [line EXCEPT ![r] = @ + 1]
           /\ Goto(r, IF line[r] = Len(basket[r]) THEN "insert" ELSE "update")
  <2>1. \A s \in Requests \ {r} : line'[s] = line[s] /\ taken'[s] = taken[s] /\ pc'[s] = pc[s]
    <3> HIDE DEF i, q
    <3> QED  BY <1>2, <1>5 DEF Goto
  <2>2. /\ line'[r] = line[r] + 1
        /\ pc'[r] = IF line[r] = Len(basket[r]) THEN "insert" ELSE "update"
    BY <1>2, <1>5 DEF Goto
  <2>3. \A j \in Items : taken'[r][j] = taken[r][j] + (IF i = j THEN q ELSE 0)
    <3> HIDE DEF i, q
    <3> QED  BY <1>2, <1>3, <1>5
  <2>4. \A j \in Items : /\ IsFiniteSet(UnitsBefore(basket[r], line[r], j))
                         /\ taken[r][j] = Cardinality(UnitsBefore(basket[r], line[r], j))
    BY <1>1 DEF Booked, CountedSteps
  <2>5. \A j \in Items :
           /\ IsFiniteSet(UnitsBefore(basket[r], line[r] + 1, j))
           /\ Cardinality(UnitsBefore(basket[r], line[r] + 1, j)) =
                 Cardinality(UnitsBefore(basket[r], line[r], j)) + (IF i = j THEN q ELSE 0)
    BY <1>3, <2>4, UnitsOfNextLine DEF Base
  <2>6. \A j \in Items : /\ IsFiniteSet(UnitsBefore(basket'[r], line'[r], j))
                         /\ taken'[r][j] = Cardinality(UnitsBefore(basket'[r], line'[r], j))
    <3> HIDE DEF i, q
    <3> QED  BY <2>2, <2>3, <2>4, <2>5
  <2>7. StockMatchesOrders' /\ \A j \in Items : IsFiniteSet(Sold(j)')
    BY <1>1 DEF Booked, StockMatchesOrders, Sold
  <2>8. \A s \in Requests : pc'[s] \in {"insert", "commit"} \/ s \in orders' =>
           line'[s] = Len(basket'[s]) + 1
    BY <1>1, <2>1, <2>2 DEF Booked
  <2>9. \A s \in Requests : pc'[s] \in CountedSteps \/ s \in orders' =>
          \A j \in Items : /\ IsFiniteSet(UnitsBefore(basket'[s], line'[s], j))
                           /\ taken'[s][j] = Cardinality(UnitsBefore(basket'[s], line'[s], j))
    BY <1>1, <2>1, <2>6 DEF Booked
  <2>10. QED  BY <2>7, <2>8, <2>9 DEF Booked
<1>6. QED  BY <1>1, <1>4, <1>5

LEMMA BookedCommit ==
    ASSUME Base, Booked, UNCHANGED basket, NEW r \in Requests, Commit(r) \/ LoseCommit(r)
    PROVE  Booked'
<1>1. /\ pc[r] = "commit" /\ r \notin orders
      /\ stock' = [i \in Items |-> stock[i] - taken[r][i]]
      /\ orders' = orders \cup {r}
      /\ UNCHANGED <<line, taken>>
      /\ \E step \in {"enqueue", "store", "rollback"} : Goto(r, step)
  BY DEF Commit, AfterCommit, LoseCommit, CommitRows, Base, Shape, Uncommitted
<1>2. /\ pc \in [Requests -> Steps] /\ stock \in [Items -> Nat] /\ InitStock \in [Items -> Nat]
      /\ taken \in [Requests -> [Items -> Nat]]
  BY ConstantFacts DEF Base, TypeOK, ClientsOK, RowsOK
<1>3. \A i \in Items : /\ IsFiniteSet(Units(basket[r], i))
                       /\ taken[r][i] = Cardinality(Units(basket[r], i))
  <2>1. line[r] = Len(basket[r]) + 1
    BY <1>1 DEF Booked
  <2>2. QED  BY <1>1, <2>1, UnitsAtEnds DEF Base, Booked, CountedSteps
<1>4. \A i \in Items : /\ IsFiniteSet(Sold(i)')
                       /\ Cardinality(Sold(i)') = Cardinality(Sold(i)) + taken[r][i]
  BY <1>1, <1>3, SoldGrows DEF Base, Booked
<1>5. StockMatchesOrders'
  <2> SUFFICES ASSUME NEW i \in Items  PROVE stock'[i] + Cardinality(Sold(i)') = InitStock[i]
    BY DEF StockMatchesOrders
  <2>1. stock[i] + Cardinality(Sold(i)) = InitStock[i]
    BY DEF Booked, StockMatchesOrders
  <2>2. Cardinality(Sold(i)) \in Nat
    BY FS_CardinalityType DEF Booked
  <2>3. QED  BY <1>1, <1>2, <1>4, <2>1, <2>2
<1>6. \A s \in Requests : pc'[s] \in {"insert", "commit"} \/ s \in orders' =>
         line'[s] = Len(basket'[s]) + 1
  BY <1>1, <1>2 DEF Booked, Goto
<1>7. \A s \in Requests : pc'[s] \in CountedSteps \/ s \in orders' =>
        pc[s] \in CountedSteps \/ s \in orders
  BY <1>1, <1>2 DEF Goto, CountedSteps
<1>8. \A s \in Requests : pc'[s] \in CountedSteps \/ s \in orders' =>
        \A j \in Items : /\ IsFiniteSet(UnitsBefore(basket'[s], line'[s], j))
                         /\ taken'[s][j] = Cardinality(UnitsBefore(basket'[s], line'[s], j))
  BY <1>1, <1>7 DEF Booked
<1>9. QED  BY <1>4, <1>5, <1>6, <1>8 DEF Booked

LEMMA BookedPreserved ==
    ASSUME Base, Booked, [Next]_vars
    PROVE  Booked'
<1> USE DEF Goto
<1>1. UNCHANGED basket
  BY Frame DEF inputs
<1>2. pc \in [Requests -> Steps]
  BY DEF Base, TypeOK, ClientsOK
<1>3. ASSUME NEW r \in Requests,
             \/ CheckKey(r) \/ Replay(r) \/ ReadMax(r) \/ Seed(r) \/ Draw(r) \/ GiveBack(r)
             \/ Lock(r) \/ Connect(r) \/ Insert(r) \/ Victim(r)
      PROVE  Booked'
  <2>1. UNCHANGED <<stock, orders, line, taken>>
    BY <1>3 DEF CheckKey, Replay, ReadMax, Seed, Draw, GiveBack, Lock, Connect, Insert, Victim,
                dbVars
  <2>2. /\ \A s \in Requests : pc'[s] \in CountedSteps => pc[s] \in CountedSteps
        /\ \A s \in Requests : pc'[s] \in {"insert", "commit"} => pc[s] \in {"insert", "commit"}
    BY <1>2, <1>3 DEF CheckKey, Replay, ReadMax, Seed, Draw, GiveBack, Lock, Connect, Insert,
                      Victim, CountedSteps
  <2>3. QED  BY <1>1, <2>1, <2>2, BookedUnchanged
<1>4. ASSUME NEW r \in Requests,
             \/ StoreKey(r) \/ Enqueue(r) \/ ReadItems(r) \/ ReleaseSlot(r) \/ Unlock(r)
             \/ Fail(r)
      PROVE  Booked'
  <2>1. UNCHANGED <<stock, orders, line, taken>>
    BY <1>4 DEF StoreKey, Enqueue, ReadItems, ReleaseSlot, Unlock, Fail, dbVars
  <2>2. /\ \A s \in Requests : pc'[s] \in CountedSteps => pc[s] \in CountedSteps
        /\ \A s \in Requests : pc'[s] \in {"insert", "commit"} => pc[s] \in {"insert", "commit"}
    BY <1>2, <1>4 DEF StoreKey, Enqueue, ReadItems, ReleaseSlot, Unlock, Fail, Handler,
                      CountedSteps
  <2>3. QED  BY <1>1, <2>1, <2>2, BookedUnchanged
<1>5. ASSUME NEW r \in Requests, Rollback(r)  PROVE Booked'
  <2>1. UNCHANGED <<stock, orders, line>>
    BY <1>5 DEF Rollback
  <2>2. /\ pc' = [pc EXCEPT ![r] = "releaseSlot"]
        /\ taken' = IF r \in orders THEN taken ELSE [taken EXCEPT ![r] = Untaken]
    BY <1>5 DEF Rollback
  <2>3. \A s \in Requests : s \in orders \/ pc'[s] \in CountedSteps => taken'[s] = taken[s]
    BY <1>2, <2>2 DEF CountedSteps, Base, TypeOK, RowsOK
  <2>4. /\ \A s \in Requests : pc'[s] \in CountedSteps => pc[s] \in CountedSteps
        /\ \A s \in Requests : pc'[s] \in {"insert", "commit"} => pc[s] \in {"insert", "commit"}
    BY <1>2, <2>2 DEF CountedSteps
  <2>5. QED  BY <1>1, <2>1, <2>3, <2>4, BookedUnchanged
<1>6. CASE Crash
  <2>1. /\ UNCHANGED <<stock, orders, line>>
        /\ pc' = [r \in Requests |-> IF pc[r] = "new" THEN "new" ELSE "end"]
        /\ taken' = [r \in Requests |-> IF r \in orders THEN taken[r] ELSE Untaken]
    BY <1>6 DEF Crash
  <2>2. \A r \in Requests : pc[r] = "new" /\ r \notin orders => taken[r] = Untaken
    <3> SUFFICES ASSUME NEW r \in Requests, pc[r] = "new"  PROVE taken[r] = Untaken
      OBVIOUS
    <3>1. line[r] = 1
      BY DEF Base, Shape
    <3>2. \A i \in Items : taken[r][i] = Cardinality({})
      BY <3>1, UnitsAtEnds DEF Base, Booked, CountedSteps
    <3>3. \A i \in Items : taken[r][i] = 0
      BY <3>2, FS_EmptySet
    <3>4. taken[r] \in [Items -> Nat]
      BY DEF Base, TypeOK, RowsOK
    <3>5. QED  BY <3>3, <3>4 DEF Untaken
  <2>3. \A r \in Requests : r \in orders \/ pc'[r] \in CountedSteps => taken'[r] = taken[r]
    BY <2>1, <2>2 DEF CountedSteps
  <2>4. /\ \A s \in Requests : pc'[s] \in CountedSteps => pc[s] \in CountedSteps
        /\ \A s \in Requests : pc'[s] \in {"insert", "commit"} => pc[s] \in {"insert", "commit"}
    BY <2>1 DEF CountedSteps
  <2>5. QED  BY <1>1, <2>1, <2>3, <2>4, BookedUnchanged
<1>7. CASE \/ Tick \/ LapseLock \/ UNCHANGED vars
           \/ \E k \in Keys : LapseKey(k)
           \/ \E w \in Windows : LapseSlot(w)
  <2>1. UNCHANGED <<pc, stock, orders, line, taken>>
    BY <1>7 DEF Tick, LapseLock, LapseKey, LapseSlot, vars, dbVars
  <2>2. QED  BY <1>1, <2>1, BookedUnchanged
<1>8. QED
  BY <1>1, <1>3, <1>4, <1>5, <1>6, <1>7, BookedUpdate, BookedCommit DEF Next, Step, Idle

LEMMA BookedInvariant == Spec => []Booked
<1>1. Base /\ Booked /\ [Next]_vars => Booked'
  BY BookedPreserved
<1>2. QED  BY BookedInit, BaseInvariant, <1>1, PTL DEF Spec

\* README.md:28, inventory without double-allocation: whatever fails or lapses at whatever
\* moment, what is gone from the stock is what the committed orders ask for, unit by unit.
THEOREM NoUnitLost == Spec => []StockMatchesOrders
  BY BookedInvariant, PTL DEF Booked

-----------------------------------------------------------------------------
(* Checkout implements Shop. *)

\* What a commit appends to the ledger.
Placed(r) == [id |-> r, key |-> key[r], bill |-> [i \in Items |-> Demand(r, i)]]

\* A COMMIT is Shop's Place: a new id, a key no other order has, and the whole basket
\* taken from a stock that has it.
LEMMA CommitIsPlace ==
    ASSUME Base, KeysOnce, Booked, UNCHANGED inputs,
           NEW r \in Requests, Commit(r) \/ LoseCommit(r)
    PROVE  Promise!Next
<1>1. /\ pc[r] = "commit" /\ r \notin orders
      /\ stock' = [i \in Items |-> stock[i] - taken[r][i]]
      /\ orders' = orders \cup {r}
  BY DEF Commit, LoseCommit, CommitRows, Base, Shape, Uncommitted
<1>2. \A i \in Items : taken[r][i] = Demand(r, i) /\ Demand(r, i) \in Nat
  <2>1. line[r] = Len(basket[r]) + 1
    BY <1>1 DEF Booked
  <2>2. \A i \in Items : taken[r][i] = Demand(r, i)
    BY <1>1, <2>1, UnitsAtEnds DEF Base, Booked, CountedSteps, Demand
  <2>3. \A i \in Items : taken[r][i] \in Nat
    BY DEF Base, TypeOK, RowsOK
  <2>4. QED  BY <2>2, <2>3
<1>3. Placed(r) \in Promise!Order
  <2>1. \A i \in Items : Demand(r, i) <= MaxUnits /\ MaxUnits \in Nat
    BY CheckoutAssumption DEF Base, TypeOK, ClientsOK, Demand
  <2>2. \A i \in Items : Demand(r, i) \in 0 .. MaxUnits
    BY <1>2, <2>1
  <2>3. key[r] \in Keys \cup {None}
    BY DEF Base, TypeOK, ClientsOK
  <2>4. QED  BY <2>2, <2>3 DEF Placed, Promise!Order
<1>4. \A p \in Ledger : p.id \in orders /\ p.key = key[p.id]
  BY DEF Ledger
<1>5. Ledger' = Ledger \cup {Placed(r)}
  <2>1. Ledger = {Placed(s) : s \in orders}
    BY DEF Ledger, Placed
  <2>2. Ledger' = {Placed(s)' : s \in orders'}
    BY DEF Ledger, Placed
  <2>3. \A s : Placed(s)' = Placed(s)
    BY DEF Placed, Demand, inputs
  <2>4. QED  BY <1>1, <2>1, <2>2, <2>3
<1>6. Promise!Place(Placed(r))
  <2>1. /\ Placed(r).id = r /\ Placed(r).key = key[r]
        /\ \A i \in Items : Placed(r).bill[i] = taken[r][i]
    BY <1>2 DEF Placed
  <2>2. \A p \in Ledger : p.id # r
    BY <1>1, <1>4
  <2>3. key[r] # None => \A p \in Ledger : p.key # key[r]
    BY <1>1, <1>4 DEF KeysOnce
  <2>4. \A i \in Items : taken[r][i] <= stock[i]
    BY <1>1 DEF Base, Rows
  <2>5. stock' = [i \in Items |-> stock[i] - Placed(r).bill[i]]
    BY <1>1, <2>1
  <2>6. QED  BY <1>5, <2>1, <2>2, <2>3, <2>4, <2>5 DEF Promise!Place
<1>7. QED  BY <1>3, <1>6 DEF Promise!Next

\* Locks, slots, connections, retries and failures are all stutters of Shop: an order
\* appears in one step with its whole basket, once for its key, or leaves no trace.
THEOREM CheckoutImplementsShop == Spec => ImplementsShop
<1>1. Init => Promise!Init
  BY DEF Init, Promise!Init, Ledger
<1>2. Base /\ KeysOnce /\ Booked /\ [Next]_vars => [Promise!Next]_<<stock, Ledger>>
  <2> SUFFICES ASSUME Base, KeysOnce, Booked, [Next]_vars
               PROVE  Promise!Next \/ UNCHANGED <<stock, Ledger>>
    OBVIOUS
  <2>1. UNCHANGED inputs
    BY Frame
  <2>2. ASSUME NEW r \in Requests, Commit(r) \/ LoseCommit(r)  PROVE Promise!Next
    BY <2>1, <2>2, CommitIsPlace
  <2>3. CASE UNCHANGED <<stock, orders>>
    BY <2>1, <2>3 DEF Ledger, Demand, inputs
  <2>4. UNCHANGED <<stock, orders>> \/ \E r \in Requests : Commit(r) \/ LoseCommit(r)
    BY Frame DEF Update, Rollback, Crash, dbVars
  <2>5. QED  BY <2>2, <2>3, <2>4
<1>3. QED
  BY BaseInvariant, KeysInvariant, BookedInvariant, <1>1, <1>2, PTL
     DEF Spec, ImplementsShop, Promise!Spec

-----------------------------------------------------------------------------
(* What a refused checkout leaves behind. *)

\* Where a request has orders, places, locks and rows, when no call fails.
Clean ==
    \A r \in Requests :
        /\ pc[r] \in {"replay", "giveBack", "end"} => held[r] = 0
        /\ \A l \in locks : l[2] = r => l[3] \in 1 .. held[r] /\ l[1] = basket[r][l[3]].item
        /\ r \in orders => \/ pc[r] \in {"store", "enqueue", "readItems"}
                           \/ pc[r] \in {"unlock", "end"} /\ answer[r] = r
        /\ r \in admitted => \/ pc[r] \in AdmittedSteps
                             \/ pc[r] \in {"unlock", "end"} /\ answer[r] = r
        /\ r \in overdrawn => pc[r] = "giveBack"
        /\ r \notin orders => \/ taken[r] = Untaken
                              \/ pc[r] \in {"update", "insert", "commit", "rollback"}

LEMMA CleanPreserved ==
    ASSUME Base, Clean, [Next]_vars, Failing = {}, ~MayCrash
    PROVE  Clean'
<1> USE DEF Goto, lockVars, slotVars, dbVars, AdmittedSteps, CriticalSteps
<1> DEFINE Mine(r) == \A l \in locks :
                         l[2] = r => l[3] \in 1 .. held[r] /\ l[1] = basket[r][l[3]].item
<1>1. basket' = basket
  BY Frame DEF inputs
<1>2. /\ pc \in [Requests -> Steps] /\ answer \in [Requests -> Requests \cup {None}]
      /\ held \in [Requests -> Nat] /\ taken \in [Requests -> [Items -> Nat]]
      /\ locks \subseteq Items \X Requests \X Nat
  BY DEF Base, TypeOK, ClientsOK, LocksOK, RowsOK
<1>3. ASSUME NEW r \in Requests,
             \/ CheckKey(r) \/ Replay(r) \/ ReadMax(r) \/ Seed(r) \/ Draw(r) \/ GiveBack(r)
      PROVE  Clean'
  <2>1. /\ UNCHANGED <<locks, held, taken, orders>>
        /\ pc[r] \in {"replay", "giveBack", "new", "readMax", "seed", "draw"}
        /\ \A s \in Requests \ {r} : pc'[s] = pc[s] /\ answer'[s] = answer[s]
    BY <1>2, <1>3 DEF CheckKey, Replay, ReadMax, Seed, Draw, GiveBack
  <2>2. held[r] = 0
    BY <2>1 DEF Base, Shape, Clean
  <2>3. \A s \in Requests \ {r} : /\ s \in admitted' <=> s \in admitted
                                  /\ s \in overdrawn' <=> s \in overdrawn
    BY <1>3 DEF CheckKey, Replay, ReadMax, Seed, Draw, GiveBack
  <2>4. r \notin orders /\ r \notin admitted /\ taken[r] = Untaken
        /\ (r \in overdrawn => pc[r] = "giveBack")
    BY <2>1 DEF Clean
  <2>5. /\ r \in admitted' => pc'[r] = "lock"
        /\ r \in overdrawn' => pc'[r] = "giveBack"
    BY <1>2, <1>3, <2>4 DEF CheckKey, Replay, ReadMax, Seed, Draw, GiveBack
  <2>6. QED  BY <1>1, <2>1, <2>2, <2>3, <2>4, <2>5 DEF Clean
<1>4. ASSUME NEW r \in Requests, Lock(r)  PROVE Clean'
  <2> DEFINE n == held[r] + 1
             i == basket[r][n].item
  <2>1. /\ pc[r] = "lock"
        /\ \/ pc'[r] = "releaseSlot" /\ UNCHANGED <<locks, held>>
           \/ /\ pc'[r] \in {"connect", "lock"}
              /\ locks' = locks \cup {<<i, r, n>>} /\ held' = [held EXCEPT ![r] = n]
        /\ UNCHANGED <<admitted, overdrawn, taken, orders, answer>>
        /\ \A s \in Requests \ {r} : pc'[s] = pc[s]
    BY <1>2, <1>4 DEF Lock
  <2>2. \A s \in Requests : Mine(s)'
    <3>1. CASE UNCHANGED <<locks, held>>
      BY <1>1, <3>1 DEF Clean
    <3>2. CASE locks' = locks \cup {<<i, r, n>>} /\ held' = [held EXCEPT ![r] = n]
      <4>1. held'[r] = n /\ n \in 1 .. n /\ \A m \in 1 .. held[r] : m \in 1 .. n
        BY <1>2, <3>2
      <4>2. \A s \in Requests \ {r} : held'[s] = held[s]
        BY <1>2, <3>2
      <4> HIDE DEF n
      <4>3. QED  BY <1>1, <3>2, <4>1, <4>2 DEF Clean
    <3>3. QED  BY <2>1, <3>1, <3>2
  <2>3. \A s \in Requests \ {r} : held'[s] = held[s]
    BY <1>2, <2>1
  <2>4. QED  BY <2>1, <2>2, <2>3 DEF Clean
<1>5. ASSUME NEW r \in Requests,
             \/ Connect(r) \/ Update(r) \/ Insert(r) \/ Commit(r) \/ Victim(r)
      PROVE  Clean'
  <2>1. /\ UNCHANGED <<locks, held, admitted, overdrawn, answer>>
        /\ pc[r] \in {"connect", "update", "insert", "commit"}
        /\ \A s \in Requests \ {r} : /\ pc'[s] = pc[s] /\ taken'[s] = taken[s]
                                     /\ s \in orders' <=> s \in orders
    BY <1>2, <1>5 DEF Connect, Update, Insert, Commit, CommitRows, Victim, Blockers
  <2>2. \/ pc'[r] \in {"update", "insert", "commit", "rollback"} /\ orders' = orders
        \/ pc'[r] \in {"store", "enqueue"} /\ orders' = orders \cup {r}
    BY <1>2, <1>5 DEF Connect, Update, AfterUpdate, Insert, Commit, CommitRows, AfterCommit,
                      Victim
  <2>3. r \notin orders
    BY <2>1 DEF Clean
  <2>4. QED  BY <1>1, <2>1, <2>2, <2>3 DEF Clean
<1>6. ASSUME NEW r \in Requests, StoreKey(r) \/ Enqueue(r) \/ ReadItems(r)  PROVE Clean'
  <2>1. /\ UNCHANGED <<locks, held, admitted, overdrawn, taken, orders>>
        /\ pc[r] \in {"store", "enqueue", "readItems"} /\ r \in orders
        /\ \/ pc'[r] \in {"enqueue", "readItems"}
           \/ pc'[r] = "unlock" /\ answer'[r] = r
        /\ \A s \in Requests \ {r} : pc'[s] = pc[s] /\ answer'[s] = answer[s]
    BY <1>2, <1>6 DEF StoreKey, Enqueue, ReadItems, Base, Shape
  <2>2. QED  BY <1>1, <2>1 DEF Clean
<1>7. ASSUME NEW r \in Requests, Rollback(r) \/ ReleaseSlot(r)  PROVE Clean'
  <2>1. /\ UNCHANGED <<locks, held, overdrawn, orders, answer>>
        /\ pc[r] \in {"rollback", "releaseSlot"}
        /\ \A s \in Requests \ {r} : /\ pc'[s] = pc[s] /\ taken'[s] = taken[s]
                                     /\ s \in admitted' <=> s \in admitted
    BY <1>2, <1>7 DEF Rollback, ReleaseSlot
  <2>2. r \notin orders
    BY <2>1 DEF Clean
  <2>3. /\ taken'[r] = Untaken
        /\ \/ pc'[r] = "releaseSlot"
           \/ pc'[r] = "unlock" /\ r \notin admitted'
    BY <1>2, <1>7, <2>1, <2>2 DEF Rollback, ReleaseSlot, Clean
  <2>4. QED  BY <1>1, <2>1, <2>2, <2>3 DEF Clean
<1>8. ASSUME NEW r \in Requests, Unlock(r)  PROVE Clean'
  <2>1. pc[r] = "unlock" /\ UNCHANGED <<admitted, overdrawn, taken, orders, answer>>
    BY <1>8 DEF Unlock
  <2>2. CASE held[r] = 0
    <3>1. UNCHANGED <<locks, held>> /\ pc' = [pc EXCEPT ![r] = "end"]
      BY <1>8, <2>2 DEF Unlock
    <3>2. QED  BY <1>1, <1>2, <2>1, <2>2, <3>1 DEF Clean
  <2>3. CASE held[r] # 0
    <3>1. /\ locks' = locks \ {<<basket[r][held[r]].item, r, held[r]>>}
          /\ held' = [held EXCEPT ![r] = held[r] - 1]
          /\ UNCHANGED pc
      BY <1>8, <2>3 DEF Unlock, Released
    <3>2. held'[r] = held[r] - 1 /\ \A s \in Requests \ {r} : held'[s] = held[s]
      BY <1>2, <3>1
    <3>3. ASSUME NEW l \in locks', l[2] = r
          PROVE  l[3] \in 1 .. held'[r] /\ l[1] = basket[r][l[3]].item
      <4>1. l \in locks /\ l[3] \in 1 .. held[r] /\ l[1] = basket[r][l[3]].item
        BY <3>1, <3>3 DEF Clean
      <4>2. l[3] # held[r]
        <5>1. l = <<l[1], l[2], l[3]>>
          BY <1>2, <4>1
        <5>2. QED  BY <3>1, <3>3, <4>1, <5>1
      <4>3. l[3] \in 1 .. held[r] - 1
        <5>1. held[r] \in Nat
          BY <1>2
        <5>2. ASSUME NEW h \in Nat, NEW n \in 1 .. h, n # h  PROVE n \in 1 .. h - 1
          BY <5>2
        <5>3. QED  BY <4>1, <4>2, <5>1, <5>2
      <4>4. QED  BY <3>2, <4>1, <4>3
    <3>4. \A s \in Requests : Mine(s)'
      BY <1>1, <3>1, <3>2, <3>3 DEF Clean
    <3>5. QED  BY <2>1, <3>1, <3>2, <3>4 DEF Clean
  <2>4. QED  BY <2>2, <2>3
<1>9. CASE \/ Tick \/ LapseLock \/ UNCHANGED vars
           \/ \E k \in Keys : LapseKey(k)
           \/ \E w \in Windows : LapseSlot(w)
  <2>1. /\ UNCHANGED <<pc, held, admitted, overdrawn, taken, orders, answer>>
        /\ locks' \subseteq locks
    BY <1>9 DEF Tick, LapseLock, LapseKey, LapseSlot, vars
  <2>2. QED  BY <1>1, <2>1 DEF Clean
<1>10. ~Crash /\ \A r \in Requests : ~Fail(r) /\ ~LoseCommit(r)
  BY DEF Crash, Fail, LoseCommit
<1>11. QED
  BY <1>3, <1>4, <1>5, <1>6, <1>7, <1>8, <1>9, <1>10 DEF Next, Step, Idle

\* While no call fails and the API does not die, a customer who is refused is charged for
\* nothing, keeps no place, no lock and no portion, whoever else orders and whatever locks
\* and keys lapse meanwhile.
THEOREM RefusalIsClean ==
    ASSUME Failing = {}, ~MayCrash
    PROVE  Spec => []RejectedLeavesNothing
<1>1. Init => Clean
  BY DEF Init, Clean
<1>2. Base /\ Clean /\ [Next]_vars => Clean'
  BY CleanPreserved
<1>3. Base /\ Clean => RejectedLeavesNothing
  <2> SUFFICES ASSUME Base, Clean, NEW r \in Requests, pc[r] = "end", answer[r] = None
               PROVE  /\ r \notin orders \cup admitted \cup overdrawn
                      /\ \A l \in locks : l[2] # r
                      /\ taken[r] = Untaken
    BY DEF RejectedLeavesNothing
  <2>1. r # None
    BY ConstantFacts
  <2>2. r \notin orders \cup admitted \cup overdrawn /\ taken[r] = Untaken
    BY <2>1 DEF Clean, AdmittedSteps, CriticalSteps
  <2>3. \A l \in locks : l[2] # r
    <3>1. 1 .. held[r] = {}
      BY DEF Clean
    <3>2. QED  BY <3>1 DEF Clean
  <2>4. QED  BY <2>2, <2>3
<1>4. QED  BY BaseInvariant, <1>1, <1>2, <1>3, PTL DEF Spec
=============================================================================
