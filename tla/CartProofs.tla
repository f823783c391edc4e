----------------------------- MODULE CartProofs -----------------------------
(***************************************************************************)
(* The cart in Postgres, for any number of requests on it at a time, any   *)
(* dishes and restaurants, and whatever fails.                             *)
(***************************************************************************)
EXTENDS Cart, TLAPS

\* The parts of TypeOK: what the requests have, and what is shared.
CallsOK ==
    /\ step \in [Calls -> Steps]
    /\ call \in [Calls -> Requests \cup {None}]
    /\ \A c \in Calls : step[c] = "idle" <=> call[c] = None
    /\ deleted \in [Calls -> SUBSET Dishes]

CartOK ==
    /\ menu \in [Dishes -> {"on", "off", "gone"}]
    /\ restaurant \in Restaurants \cup {None}
    /\ lines \subseteq {d \in Dishes : menu[d] # "gone"}
    /\ old \in BOOLEAN /\ overlapped \in BOOLEAN
    /\ cleaner \in {"idle", "delete", "reset"}

\* The request that makes a step.
Fits(op, s) ==
    /\ s \in {"dish", "drop", "name", "put"} => op = "add"
    /\ s = "set" => op = "update"
    /\ s \in {"take", "count", "unname"} => op = "remove"
    /\ s \in {"empty", "commit"} => op = "clear"
StepsFit == \A c \in Busy : Fits(call[c].op, step[c])

\* Beside an addItem nothing else writes.
AddsAlone == \A c \in Adding : Writers \subseteq {c} /\ cleaner = "idle"

\* What a call has made sure of before the step it makes next.
Ready(c) ==
    /\ At(c, "name") => \A d \in lines : Of[d] = Of[Dish(c)]
    /\ At(c, "put") => restaurant = Of[Dish(c)]
    /\ At(c, "unname") => lines = {}
    /\ At(c, "commit") => lines \subseteq deleted[c]

AloneIsRight ==
    /\ AddsAlone /\ Coherent
    /\ \A c \in Busy : Ready(c)
    /\ cleaner = "reset" => lines = {}

IInv == CallsOK /\ CartOK /\ StepsFit /\ (overlapped \/ AloneIsRight)

-----------------------------------------------------------------------------
(* The requests. *)

LEMMA BusyCall ==
    ASSUME CallsOK, NEW c \in Busy
    PROVE  /\ c \in Calls /\ step[c] # "idle" /\ call[c] \in Requests
           /\ Dish(c) \in Dishes /\ call[c].op \in Ops /\ Of[Dish(c)] \in Restaurants
BY CartAssumption DEF CallsOK, Busy, Dish, Requests

\* Of the others nothing changes; the call c itself goes on or ends.
OnlyCall(c) ==
    /\ \A b \in Calls \ {c} : step'[b] = step[b] /\ call'[b] = call[b] /\ deleted'[b] = deleted[b]
    /\ step'[c] = "idle" \/ call'[c] = call[c]

LEMMA GoesOn ==
    ASSUME CallsOK, StepsFit, NEW c \in Busy, NEW s \in Steps \ {"idle"},
           step' = [step EXCEPT ![c] = s], UNCHANGED call,
           NEW ds \in SUBSET Dishes, deleted' = [deleted EXCEPT ![c] = ds],
           Fits(call[c].op, s)
    PROVE  CallsOK' /\ StepsFit' /\ OnlyCall(c)
<1>1. CallsOK'
  BY BusyCall, CartAssumption DEF CallsOK
<1>2. StepsFit'
  BY BusyCall DEF CallsOK, StepsFit, Busy
<1>3. OnlyCall(c)
  BY BusyCall DEF CallsOK, OnlyCall
<1>4. QED  BY <1>1, <1>2, <1>3

LEMMA Ends ==
    ASSUME CallsOK, StepsFit, NEW c \in Busy, End(c),
           NEW ds \in SUBSET Dishes, deleted' = [deleted EXCEPT ![c] = ds]
    PROVE  CallsOK' /\ StepsFit' /\ OnlyCall(c) /\ step'[c] = "idle"
<1> USE DEF End
<1>1. CallsOK'
  BY BusyCall DEF CallsOK, Steps
<1>2. StepsFit'
  BY BusyCall DEF CallsOK, StepsFit, Busy
<1>3. OnlyCall(c) /\ step'[c] = "idle"
  BY BusyCall DEF CallsOK, OnlyCall
<1>4. QED  BY <1>1, <1>2, <1>3

\* What a call must do for the cart to stay right: only addItem brings dishes in, only one
\* that writes may change the restaurant, and what it has made sure of is so.
LEMMA CallKeeps ==
    ASSUME IInv, NEW c \in Busy, CallsOK', CartOK', StepsFit', OnlyCall(c),
           UNCHANGED <<cleaner, overlapped>>,
           lines' \subseteq lines \/ c \in Adding,
           restaurant' = restaurant \/ c \in Writers,
           AloneIsRight => Coherent' /\ (c \in Busy' => Ready(c)')
    PROVE  IInv'
<1> SUFFICES ASSUME ~overlapped  PROVE AloneIsRight'
  BY DEF IInv
<1>1. AloneIsRight /\ CallsOK /\ StepsFit
  BY DEF IInv
<1>2. /\ Busy' \subseteq Busy /\ Writers' \subseteq Writers /\ Adding' \subseteq Adding
      /\ \A b \in Busy' \ {c} : b \in Calls /\ step'[b] = step[b] /\ call'[b] = call[b]
                                 /\ deleted'[b] = deleted[b]
  BY BusyCall DEF OnlyCall, Busy, Writers, Adding
<1>3. AddsAlone'
  BY <1>1, <1>2 DEF AloneIsRight, AddsAlone
<1>4. ASSUME NEW b \in Busy' \ {c}  PROVE Ready(b)'
  <2>1. Ready(b) /\ Fits(call[b].op, step[b]) /\ b \in Busy
    BY <1>1, <1>2, <1>4 DEF AloneIsRight, StepsFit
  <2>2. CASE c \in Adding
    <3>1. call[b].op = "update"
      BY <1>1, <2>1, <2>2, <1>4 DEF AloneIsRight, AddsAlone, Writers
    <3>2. QED  BY <1>2, <1>4, <2>1, <3>1 DEF Ready, At, Fits
  <2>3. CASE c \notin Adding
    <3>1. step[b] = "put" => restaurant' = restaurant
      BY <1>1, <1>4, <2>1 DEF AloneIsRight, AddsAlone, Adding, Fits
    <3>2. QED  BY <1>2, <1>4, <2>1, <2>3, <3>1 DEF Ready, At, Dish
  <2>4. QED  BY <2>2, <2>3
<1>5. cleaner' = "reset" => lines' = {}
  BY <1>1 DEF AloneIsRight, AddsAlone
<1>6. QED  BY <1>1, <1>3, <1>4, <1>5 DEF AloneIsRight

\* The calls that only look, or take dishes out.
LEMMA TakingKeeps ==
    ASSUME IInv, NEW c \in Busy, CallsOK', StepsFit', OnlyCall(c),
           UNCHANGED <<menu, restaurant, old, cleaner, overlapped>>, lines' \subseteq lines,
           AloneIsRight /\ c \in Busy' => Ready(c)'
    PROVE  IInv'
<1>1. CartOK'
  BY DEF IInv, CartOK
<1>2. AloneIsRight => Coherent'
  BY DEF AloneIsRight, Coherent
<1>3. QED  BY <1>1, <1>2, CallKeeps

-----------------------------------------------------------------------------
(* The steps of a request. *)

LEMMA EndingKeeps ==
    ASSUME IInv, NEW c \in Busy, Done(c), lines' \subseteq lines,
           UNCHANGED <<menu, restaurant, old, cleaner, overlapped>>
    PROVE  IInv'
<1>1. deleted' = [deleted EXCEPT ![c] = deleted[c]] /\ deleted[c] \in SUBSET Dishes
  BY BusyCall DEF Done, IInv, CallsOK
<1>2. CallsOK' /\ StepsFit' /\ OnlyCall(c) /\ step'[c] = "idle"
  BY <1>1, Ends DEF Done, IInv
<1>3. c \notin Busy'
  BY <1>2 DEF Busy
<1>4. QED  BY <1>2, <1>3, TakingKeeps

LEMMA GoingKeeps ==
    ASSUME IInv, NEW c \in Busy, NEW s \in Steps \ {"idle"}, Goto(c, s), Fits(call[c].op, s),
           lines' \subseteq lines, UNCHANGED <<menu, restaurant, old, cleaner, overlapped>>,
           AloneIsRight => Ready(c)'
    PROVE  IInv'
<1>1. deleted' = [deleted EXCEPT ![c] = deleted[c]] /\ deleted[c] \in SUBSET Dishes
  BY BusyCall DEF Goto, IInv, CallsOK
<1>2. CallsOK' /\ StepsFit' /\ OnlyCall(c)
  BY <1>1, GoesOn DEF Goto, IInv
<1>3. QED  BY <1>2, TakingKeeps

\* Where a call is, and what it was asked.
LEMMA AtStep ==
    ASSUME IInv, NEW c \in Calls, NEW s \in Steps \ {"idle"}, At(c, s)
    PROVE  /\ c \in Busy /\ CallsOK /\ Fits(call[c].op, s) /\ call[c] \in Requests
           /\ Dish(c) \in Dishes /\ Of[Dish(c)] \in Restaurants
           /\ AloneIsRight => Ready(c) /\ Coherent
<1>1. c \in Busy
  BY DEF At, Busy
<1>2. QED  BY <1>1, BusyCall DEF IInv, StepsFit, At, AloneIsRight

LEMMA AddSteps ==
    ASSUME IInv, NEW c \in Calls, ReadDish(c) \/ Drop(c) \/ Name(c) \/ Put(c)
    PROVE  IInv'
<1> USE DEF Steps
<1>1. CASE ReadDish(c)
  <2>1. c \in Busy /\ Fits(call[c].op, "open")
    BY <1>1, AtStep DEF ReadDish, Fits
  <2>2. Goto(c, "open") => Ready(c)'
    BY <2>1, AtStep, BusyCall DEF Goto, Ready, At, IInv, CallsOK
  <2>3. QED  BY <1>1, <2>1, <2>2, GoingKeeps, EndingKeeps DEF ReadDish, cartVars
<1>2. CASE Drop(c)
  <2>1. c \in Busy /\ Fits(call[c].op, "name")
    BY <1>2, AtStep DEF Drop, Fits
  <2>2. step'[c] = "name"
    BY <1>2, <2>1 DEF Drop, Goto, IInv, CallsOK
  <2>3. Ready(c)'
    BY <1>2, <2>2 DEF Drop, Ready, At
  <2>4. QED  BY <1>2, <2>1, <2>3, GoingKeeps DEF Drop
<1>3. CASE Name(c)
  <2>1. /\ c \in Busy /\ Fits(call[c].op, "put") /\ call[c].op = "add"
        /\ Of[Dish(c)] \in Restaurants
        /\ AloneIsRight => \A d \in lines : Of[d] = Of[Dish(c)]
    BY <1>3, AtStep DEF Name, Fits, Ready, At
  <2>2. deleted' = [deleted EXCEPT ![c] = deleted[c]] /\ deleted[c] \in SUBSET Dishes
    BY <1>3, BusyCall DEF Name, Goto, IInv, CallsOK
  <2>3. CallsOK' /\ StepsFit' /\ OnlyCall(c)
    BY <1>3, <2>1, <2>2, GoesOn DEF Name, Goto, IInv
  <2>4. step'[c] = "put" /\ call'[c] = call[c]
    BY <1>3 DEF Name, Goto, IInv, CallsOK
  <2>5. AloneIsRight => Coherent' /\ Ready(c)'
    BY <1>3, <2>1, <2>4 DEF Name, Touch, Coherent, Ready, At, Dish
  <2>6. CartOK'
    BY <1>3, <2>1 DEF Name, Touch, IInv, CartOK
  <2>7. lines' \subseteq lines /\ c \in Writers /\ UNCHANGED <<cleaner, overlapped>>
    BY <1>3, <2>1 DEF Name, Writers
  <2>8. QED  BY <2>1, <2>3, <2>5, <2>6, <2>7, CallKeeps
<1>4. CASE Put(c)
  <2>1. /\ c \in Busy /\ call[c].op = "add" /\ Dish(c) \in Dishes
        /\ AloneIsRight => restaurant = Of[Dish(c)] /\ Coherent
    BY <1>4, AtStep DEF Put, Fits, Ready, At
  <2>2. deleted' = [deleted EXCEPT ![c] = deleted[c]] /\ deleted[c] \in SUBSET Dishes
    BY <1>4, BusyCall DEF Put, Done, IInv, CallsOK
  <2>3. CallsOK' /\ StepsFit' /\ OnlyCall(c) /\ step'[c] = "idle"
    BY <1>4, <2>1, <2>2, Ends DEF Put, Done, IInv
  <2>4. AloneIsRight => Coherent'
    BY <1>4, <2>1 DEF Put, Become, Coherent
  <2>5. CartOK'
    BY <1>4, <2>1 DEF Put, Become, IInv, CartOK
  <2>6. c \in Adding /\ c \notin Busy' /\ UNCHANGED <<restaurant, cleaner, overlapped>>
    BY <1>4, <2>1, <2>3 DEF Put, Become, Adding, Busy
  <2>7. QED  BY <2>1, <2>3, <2>4, <2>5, <2>6, CallKeeps
<1>5. QED  BY <1>1, <1>2, <1>3, <1>4

LEMMA OpenKeeps ==
    ASSUME IInv, NEW c \in Calls, OpenCart(c)
    PROVE  IInv'
<1> DEFINE s == CASE call[c].op = "add" -> IF Mixes(c, restaurant) THEN "drop" ELSE "name"
                  [] call[c].op = "update" -> "set"
                  [] call[c].op = "remove" -> "take"
                  [] OTHER -> "empty"
<1>1. /\ c \in Busy /\ call[c] \in Requests /\ CallsOK
      /\ AloneIsRight => Coherent
  BY AtStep DEF OpenCart, Steps
<1>2. call[c].op \in Ops
  BY <1>1 DEF Requests
<1>3. s \in Steps \ {"idle"} /\ Fits(call[c].op, s)
  BY <1>2 DEF Steps, Fits, Ops
<1>4. s \notin {"put", "unname", "commit"} /\ (s = "name" => ~Mixes(c, restaurant))
  BY <1>2 DEF Ops
<1>5. step' = [step EXCEPT ![c] = s] /\ UNCHANGED <<call, deleted, menu, restaurant, lines, old,
                                                   cleaner, overlapped>>
  BY DEF OpenCart, cartVars
<1> HIDE DEF s
<1>6. step'[c] = s
  BY <1>1, <1>5 DEF CallsOK
<1>7. AloneIsRight => Ready(c)'
  <2> SUFFICES ASSUME AloneIsRight, s = "name"
               PROVE  \A d \in lines : Of[d] = Of[Dish(c)]
    BY <1>4, <1>5, <1>6 DEF Ready, At, Dish
  <2>1. restaurant = None \/ restaurant = Of[Dish(c)]
    BY <1>4 DEF Mixes
  <2>2. \A d \in lines : d \in Dishes /\ restaurant = Of[d]
    BY <1>1 DEF Coherent, IInv, CartOK
  <2>3. QED  BY <2>1, <2>2, CartAssumption
<1>8. Goto(c, s)
  BY <1>5 DEF Goto
<1>9. QED  BY <1>1, <1>3, <1>5, <1>7, <1>8, GoingKeeps

LEMMA OtherSteps ==
    ASSUME IInv, NEW c \in Calls,
           SetQuantity(c) \/ Take(c) \/ CountLeft(c) \/ Unname(c)
    PROVE  IInv'
<1> USE DEF Steps
<1>1. CASE SetQuantity(c)
  BY <1>1, AtStep, EndingKeeps DEF SetQuantity, cartVars
<1>2. CASE Take(c)
  <2>1. c \in Busy /\ Fits(call[c].op, "count")
    BY <1>2, AtStep DEF Take, Fits
  <2>2. Goto(c, "count") => Ready(c)'
    BY <2>1 DEF Goto, Ready, At, IInv, CallsOK
  <2>3. lines' \subseteq lines /\ UNCHANGED <<menu, restaurant, old, cleaner, overlapped>>
    BY <1>2 DEF Take, Become
  <2>4. QED  BY <1>2, <2>1, <2>2, <2>3, GoingKeeps, EndingKeeps DEF Take
<1>3. CASE CountLeft(c)
  <2>1. c \in Busy /\ Fits(call[c].op, "unname")
    BY <1>3, AtStep DEF CountLeft, Fits
  <2>2. UNCHANGED <<menu, restaurant, lines, old, cleaner, overlapped>>
    BY <1>3 DEF CountLeft, cartVars
  <2>3. CASE lines # {}
    BY <1>3, <2>1, <2>2, <2>3, EndingKeeps DEF CountLeft
  <2>4. CASE lines = {}
    <3>1. Goto(c, "unname")
      BY <1>3, <2>4 DEF CountLeft
    <3>2. Ready(c)'
      BY <2>1, <2>2, <2>4, <3>1 DEF Goto, Ready, At, IInv, CallsOK
    <3>3. QED  BY <2>1, <2>2, <3>1, <3>2, GoingKeeps
  <2>5. QED  BY <2>3, <2>4
<1>4. CASE Unname(c)
  <2>1. c \in Busy /\ call[c].op = "remove" /\ (AloneIsRight => lines = {})
    BY <1>4, AtStep DEF Unname, Fits, Ready, At
  <2>2. deleted' = [deleted EXCEPT ![c] = deleted[c]] /\ deleted[c] \in SUBSET Dishes
    BY <1>4, BusyCall DEF Unname, Done, IInv, CallsOK
  <2>3. CallsOK' /\ StepsFit' /\ OnlyCall(c) /\ step'[c] = "idle"
    BY <1>4, <2>1, <2>2, Ends DEF Unname, Done, IInv
  <2>4. AloneIsRight => Coherent'
    BY <1>4, <2>1 DEF Unname, Coherent
  <2>5. CartOK'
    BY <1>4 DEF Unname, Touch, IInv, CartOK
  <2>6. c \in Writers /\ c \notin Busy' /\ lines' \subseteq lines /\ UNCHANGED <<cleaner, overlapped>>
    BY <1>4, <2>1, <2>3 DEF Unname, Writers, Busy
  <2>7. QED  BY <2>1, <2>3, <2>4, <2>5, <2>6, CallKeeps
<1>5. QED  BY <1>1, <1>2, <1>3, <1>4

LEMMA ClearSteps ==
    ASSUME IInv, NEW c \in Calls, Empty(c) \/ CommitClear(c)
    PROVE  IInv'
<1> USE DEF Steps
<1>1. CASE Empty(c)
  <2>1. c \in Busy /\ Fits(call[c].op, "commit") /\ lines \in SUBSET Dishes
    BY <1>1, AtStep DEF Empty, Fits, IInv, CartOK
  <2>2. CallsOK' /\ StepsFit' /\ OnlyCall(c)
    BY <1>1, <2>1, GoesOn DEF Empty, IInv
  <2>3. UNCHANGED <<menu, restaurant, lines, old, cleaner, overlapped>>
    BY <1>1 DEF Empty, cartVars
  <2>4. step'[c] = "commit" /\ deleted'[c] = lines
    BY <1>1 DEF Empty, IInv, CallsOK
  <2>5. Ready(c)'
    BY <2>3, <2>4 DEF Ready, At
  <2>6. QED  BY <2>1, <2>2, <2>3, <2>5, TakingKeeps
<1>2. CASE CommitClear(c)
  <2>1. c \in Busy /\ call[c].op = "clear" /\ (AloneIsRight => lines \subseteq deleted[c])
    BY <1>2, AtStep DEF CommitClear, Fits, Ready, At
  <2>2. CallsOK' /\ StepsFit' /\ OnlyCall(c) /\ step'[c] = "idle"
    <3>1. {} \in SUBSET Dishes /\ End(c) /\ deleted' = [deleted EXCEPT ![c] = {}]
      BY <1>2 DEF CommitClear
    <3>2. QED  BY <2>1, <3>1, Ends DEF IInv
  <2>3. AloneIsRight => Coherent'
    BY <1>2, <2>1 DEF CommitClear, Coherent
  <2>4. CartOK'
    BY <1>2 DEF CommitClear, Touch, IInv, CartOK
  <2>5. c \in Writers /\ c \notin Busy' /\ lines' \subseteq lines /\ UNCHANGED <<cleaner, overlapped>>
    BY <1>2, <2>1, <2>2 DEF CommitClear, Writers, Busy
  <2>6. QED  BY <2>1, <2>2, <2>3, <2>4, <2>5, CallKeeps
<1>3. QED  BY <1>1, <1>2

LEMMA FailKeeps ==
    ASSUME IInv, NEW c \in Calls, Fail(c)
    PROVE  IInv'
<1>1. CallsOK' /\ StepsFit' /\ OnlyCall(c) /\ step'[c] = "idle"
  <2>1. c \in Busy /\ {} \in SUBSET Dishes /\ End(c) /\ deleted' = [deleted EXCEPT ![c] = {}]
    BY DEF Fail
  <2>2. QED  BY <2>1, Ends DEF IInv
<1>2. c \notin Busy'
  BY <1>1 DEF Busy
<1>3. QED  BY <1>1, <1>2, TakingKeeps DEF Fail, cartVars

\* A new request.
LEMMA StartKeeps ==
    ASSUME IInv, NEW c \in Calls, Start(c)
    PROVE  IInv'
<1>1. PICK r \in Requests :
          /\ call' = [call EXCEPT ![c] = r]
          /\ step' = [step EXCEPT ![c] = IF r.op = "add" THEN "dish" ELSE "open"]
          /\ overlapped' = \/ overlapped
                           \/ r.op = "add" /\ (Writers # {} \/ cleaner # "idle")
                           \/ r.op # "update" /\ Adding # {}
  BY DEF Start
<1>2. UNCHANGED <<menu, restaurant, lines, old, deleted, cleaner>> /\ step[c] = "idle"
  BY DEF Start, cartVars, At
<1>3. CallsOK
  BY DEF IInv
<1>4. /\ step'[c] = (IF r.op = "add" THEN "dish" ELSE "open") /\ call'[c] = r
      /\ \A b \in Calls \ {c} : step'[b] = step[b] /\ call'[b] = call[b]
  BY <1>1, <1>3 DEF CallsOK
<1>5. CallsOK'
  BY <1>1, <1>2, <1>3, CartAssumption DEF CallsOK, Steps
<1>6. StepsFit'
  BY <1>4 DEF IInv, StepsFit, Busy, Fits
<1>7. CartOK'
  <2>1. overlapped' \in BOOLEAN
    BY <1>1, Zenon
  <2>2. QED  BY <1>2, <2>1 DEF IInv, CartOK
<1>8. ASSUME ~overlapped'  PROVE AloneIsRight'
  <2>1. /\ ~overlapped
        /\ r.op = "add" => Writers = {} /\ cleaner = "idle"
        /\ r.op # "update" => Adding = {}
    BY <1>1, <1>8, Zenon
  <2>2. AloneIsRight
    BY <2>1 DEF IInv
  <2>3. /\ Busy' \subseteq Busy \cup {c}
        /\ Adding' \subseteq Adding \cup {c} /\ (c \in Adding' => r.op = "add")
        /\ Writers' \subseteq Writers \cup {c} /\ (c \in Writers' => r.op # "update")
    BY <1>4 DEF Busy, Adding, Writers
  <2>4. AddsAlone'
    BY <1>2, <2>1, <2>2, <2>3 DEF AloneIsRight, AddsAlone
  <2>5. ASSUME NEW b \in Busy'  PROVE Ready(b)'
    BY <1>2, <1>4, <2>2, <2>3 DEF AloneIsRight, Ready, At, Dish, Busy
  <2>6. QED  BY <1>2, <2>2, <2>4, <2>5 DEF AloneIsRight, Coherent
<1>9. QED  BY <1>5, <1>6, <1>7, <1>8 DEF IInv

-----------------------------------------------------------------------------
(* The cleanup job and the owner. *)

\* Beside the calls, which go on as they were.
LEMMA OutsideKeeps ==
    ASSUME IInv, CartOK', UNCHANGED callVars, lines' \subseteq lines,
           ~overlapped' => /\ ~overlapped
                           /\ cleaner' \in {cleaner, "idle"} \/ Adding = {}
                           /\ restaurant' = restaurant \/ Adding = {},
           AloneIsRight => Coherent' /\ (cleaner' = "reset" => lines' = {})
    PROVE  IInv'
<1> USE DEF callVars
<1>1. CallsOK' /\ StepsFit'
  BY DEF IInv, CallsOK, StepsFit, Busy
<1>2. ASSUME ~overlapped'  PROVE AloneIsRight'
  <2>1. AloneIsRight /\ StepsFit
    BY <1>2 DEF IInv
  <2>2. Busy' = Busy /\ Adding' = Adding /\ Writers' = Writers
    BY DEF Busy, Adding, Writers
  <2>3. AddsAlone'
    BY <1>2, <2>1, <2>2 DEF AloneIsRight, AddsAlone
  <2>4. ASSUME NEW c \in Busy  PROVE Ready(c)'
    <3>1. step[c] = "put" => restaurant' = restaurant
      BY <1>2, <2>1 DEF StepsFit, Fits, Adding
    <3>2. QED  BY <2>1, <3>1 DEF AloneIsRight, Ready, At, Dish
  <2>5. QED  BY <2>1, <2>2, <2>3, <2>4 DEF AloneIsRight
<1>3. QED  BY <1>1, <1>2 DEF IInv

LEMMA CleaningKeeps ==
    ASSUME IInv, Clean \/ CleanupFails
    PROVE  IInv'
<1> USE DEF cartVars
<1>1. cleaner # "idle" /\ ~overlapped => Adding = {}
  BY DEF IInv, AloneIsRight, AddsAlone
<1>2. CASE SelectStale
  <2>1. overlapped' \in BOOLEAN /\ (~overlapped' => ~overlapped /\ Adding = {})
    BY <1>2, Zenon DEF SelectStale
  <2>2. cleaner' = "delete" /\ UNCHANGED <<menu, restaurant, lines, old, callVars>>
    BY <1>2 DEF SelectStale, Follows
  <2>3. CartOK'
    BY <2>1, <2>2 DEF IInv, CartOK
  <2>4. QED  BY <2>1, <2>2, <2>3, OutsideKeeps DEF AloneIsRight, Coherent
<1>3. CASE DeleteStale
  <2>1. cleaner = "delete" /\ cleaner' = "reset" /\ lines' = {}
        /\ UNCHANGED <<menu, restaurant, old, callVars, overlapped>>
    BY <1>3 DEF DeleteStale, Follows
  <2>2. CartOK'
    BY <2>1 DEF IInv, CartOK
  <2>3. QED  BY <1>1, <2>1, <2>2, OutsideKeeps DEF Coherent
<1>4. CASE ResetStale
  <2>1. cleaner = "reset" /\ cleaner' = "idle" /\ restaurant' = None /\ old' = FALSE
        /\ UNCHANGED <<menu, lines, callVars, overlapped>>
    BY <1>4 DEF ResetStale, Follows, Touch
  <2>2. CartOK'
    BY <2>1 DEF IInv, CartOK
  <2>3. QED  BY <1>1, <2>1, <2>2, OutsideKeeps DEF AloneIsRight, Coherent
<1>5. CASE CleanupFails
  <2>1. cleaner' = "idle" /\ UNCHANGED <<menu, restaurant, lines, old, callVars, overlapped>>
    BY <1>5 DEF CleanupFails
  <2>2. CartOK'
    BY <2>1 DEF IInv, CartOK
  <2>3. QED  BY <2>1, <2>2, OutsideKeeps DEF AloneIsRight, Coherent
<1>6. QED  BY <1>2, <1>3, <1>4, <1>5 DEF Clean

LEMMA WorldKeeps ==
    ASSUME IInv, Age \/ UNCHANGED vars \/ \E d \in Dishes : Switch(d) \/ Delete(d)
    PROVE  IInv'
<1> USE DEF cartVars
<1>1. CASE Age \/ UNCHANGED vars
  <2>1. UNCHANGED <<menu, restaurant, lines, callVars, cleaner, overlapped>> /\ old' \in BOOLEAN
    BY <1>1 DEF Age, vars, IInv, CartOK
  <2>2. CartOK'
    BY <2>1 DEF IInv, CartOK
  <2>3. QED  BY <2>1, <2>2, OutsideKeeps DEF AloneIsRight, Coherent
<1>2. ASSUME NEW d \in Dishes, Switch(d) \/ Delete(d)  PROVE IInv'
  <2>1. /\ UNCHANGED <<restaurant, old, callVars, cleaner, overlapped>> /\ lines' \subseteq lines
        /\ menu' \in [Dishes -> {"on", "off", "gone"}]
        /\ \A x \in lines' : menu'[x] # "gone"
    BY <1>2 DEF Switch, Delete, Become, IInv, CartOK
  <2>2. CartOK'
    BY <2>1 DEF IInv, CartOK
  <2>3. QED  BY <2>1, <2>2, OutsideKeeps DEF AloneIsRight, Coherent
<1>3. QED  BY <1>1, <1>2

LEMMA Invariant == Spec => []IInv
<1>1. Init => IInv
  <2> SUFFICES ASSUME Init  PROVE IInv
    OBVIOUS
  <2>1. CallsOK /\ CartOK
    BY DEF Init, CallsOK, CartOK, Steps
  <2>2. Busy = {} /\ Adding = {}
    BY DEF Init, Busy, Adding
  <2>3. QED
    BY <2>1, <2>2 DEF Init, IInv, StepsFit, AloneIsRight, AddsAlone, Coherent
<1>2. IInv /\ [Next]_vars => IInv'
  <2> SUFFICES ASSUME IInv, [Next]_vars  PROVE IInv'
    OBVIOUS
  <2>1. ASSUME NEW c \in Calls, Start(c) \/ Serve(c) \/ Fail(c)  PROVE IInv'
    BY <2>1, StartKeeps, FailKeeps, AddSteps, OpenKeeps, OtherSteps, ClearSteps DEF Serve
  <2>2. QED  BY <2>1, CleaningKeeps, WorldKeeps DEF Next
<1>3. QED  BY <1>1, <1>2, PTL DEF Spec

-----------------------------------------------------------------------------
\* The cart, its dishes and the requests keep their types; in particular a dish that was
\* deleted is in no cart (schema.sql's cascade), whatever call was about to put it there.
THEOREM TypeCorrect == Spec => []TypeOK
<1>1. IInv => TypeOK
  BY DEF IInv, CallsOK, CartOK, TypeOK
<1>2. QED  BY <1>1, Invariant, PTL

\* All dishes of a cart are of the restaurant it names, for any number of requests and
\* whatever calls failed half way, unless an addItem ran beside another writer: the SELECT,
\* the DELETE, the UPDATE and the upsert of addItem (cart.service.ts) are separate statements.
THEOREM CartsAreOfOneRestaurant == Spec => []OneRestaurant
<1>1. IInv => OneRestaurant
  BY DEF IInv, AloneIsRight, OneRestaurant
<1>2. QED  BY <1>1, Invariant, PTL

\* The cleanup job looks for carts that name a restaurant (cleanup.job.ts:9): a cart that
\* names none, which it never finds, has no dishes, with the same proviso. With this
\* AbandonedCartExpires is about carts the job does find.
THEOREM UnnamedCartsAreEmpty == Spec => [](overlapped \/ (restaurant = None => lines = {}))
<1>1. IInv => (overlapped \/ (restaurant = None => lines = {}))
  <2> SUFFICES ASSUME IInv, ~overlapped, restaurant = None  PROVE lines = {}
    OBVIOUS
  <2>1. \A d \in lines : d \in Dishes /\ Of[d] = None
    BY DEF IInv, AloneIsRight, Coherent, CartOK
  <2>2. QED  BY <2>1, CartAssumption
<1>2. QED  BY <1>1, Invariant, PTL
=============================================================================
