-------------------------- MODULE FulfilmentProofs --------------------------
(***************************************************************************)
(* What fulfilment guarantees for every set of orders, workers, partners   *)
(* and calls, every choice of failures, every status that partners report  *)
(* and every status that admins set by hand: money, acceptance and trip    *)
(* come in this order although nobody checks what the others did, but for  *)
(* the orders an admin put ahead, and the whole implements OrderLife.      *)
(***************************************************************************)
EXTENDS Fulfilment, TLAPS

\* The types that the arguments below need.
WorkTyped ==
    /\ at \in [Workers -> Processing!Steps]
    /\ on \in [Workers -> Orders \cup {None}]
    /\ \A w \in Workers : at[w] # "idle" => on[w] \in Orders
    /\ paid \subseteq Orders

Typed ==
    /\ status \in [Orders -> Statuses]
    /\ WorkTyped
    /\ Courier!TypeOK
    /\ fetched \subseteq Orders /\ shown \subseteq Orders /\ accepted \subseteq Orders
    /\ overruled \subseteq Orders

\* A run about to confirm its order has found it paid, or charged it.
Paying == \A w \in Workers : at[w] = "confirm" => on[w] \in paid

\* An order is cooked once it was accepted, and it was accepted when it was paid; but for an
\* admin's hand.
Cooked ==
    /\ accepted \subseteq paid \cup overruled
    /\ \A o \in Orders : status[o] = "PREPARING" => o \in accepted \cup overruled

\* What a call that passed its guards may still rely on, however long ago that was.
Claiming(c) ==
    /\ call[c].order \in accepted \cup overruled
    /\ step[c] = "publish" => \/ partner[call[c].order] = call[c].who
                              \/ /\ partner[call[c].order] # None
                                 /\ call[c].order \in assigned

Reporting(c) ==
    /\ partner[call[c].order] # None
    /\ step[c] = "publish" => Courier!OrderStatusOf(call[c].to) # None

Passed ==
    \A c \in Calls : step[c] \in {"write", "publish"} =>
        /\ call[c].op = "claim" => Claiming(c)
        /\ call[c].op = "report" => Reporting(c)

Safe ==
    /\ PaidBeforePrepared
    /\ OffersPaid
    /\ LeavesAccepted
    /\ OneCourier
    /\ NoPartnerlessTrip

IInv == Typed /\ Paying /\ Cooked /\ Passed /\ Safe

-----------------------------------------------------------------------------
(* What the worker does to the others' state. *)

Confirmed == \E o \in Orders : status[o] = "PENDING" /\ o \in paid /\ Processing!SetStatus(o, "CONFIRMED")
Charged == \E o \in Orders : paid' = paid \cup {o}

LEMMA WorkerMoves ==
    ASSUME Typed, Paying, Processing!Process
    PROVE  /\ WorkTyped' /\ Paying'
           /\ \/ UNCHANGED <<status, paid>>
              \/ UNCHANGED status /\ Charged
              \/ UNCHANGED paid /\ Confirmed
<1> USE FulfilmentAssumption DEF Typed, WorkTyped, Paying, Processing!Steps
<1>1. ASSUME NEW o \in Orders,
             Processing!Enqueue(o) \/ Processing!Promote(o) \/ Processing!LoseLock(o)
                \/ Processing!Stall(o)
      PROVE  UNCHANGED <<status, at, on, paid>>
  BY <1>1 DEF Processing!Enqueue, Processing!Promote, Processing!LoseLock, Processing!Stall,
              Processing!runVars, Processing!moneyVars
<1>2. ASSUME NEW w \in Workers, at[w] = "confirm", Processing!ConfirmPending(on[w])
      PROVE  UNCHANGED status \/ Confirmed
  BY <1>2 DEF Processing!ConfirmPending, Confirmed
<1>3. ASSUME NEW w \in Workers, at[w] = "charge", Processing!Pay(on[w])
      PROVE  Charged
  BY <1>3 DEF Processing!Pay, Charged
<1>4. ASSUME NEW w \in Workers, at[w] # "idle", NEW s \in Processing!Steps \ {"idle"},
             Processing!Goto(w, s), s = "confirm" => on[w] \in paid',
             UNCHANGED paid \/ Charged
      PROVE  WorkTyped' /\ Paying'
  BY <1>4 DEF Processing!Goto, Charged
<1>5. ASSUME NEW w \in Workers, Processing!Leave(w), UNCHANGED paid \/ Charged
      PROVE  WorkTyped' /\ Paying'
  BY <1>5 DEF Processing!Leave, Charged
<1>6. ASSUME NEW w \in Workers, Processing!Take(w)
      PROVE  WorkTyped' /\ Paying' /\ UNCHANGED <<status, paid>>
  BY <1>6 DEF Processing!Take, Processing!moneyVars
<1>7. ASSUME NEW w \in Workers, Processing!Work(w)
      PROVE  /\ WorkTyped' /\ Paying'
             /\ \/ UNCHANGED <<status, paid>>
                \/ UNCHANGED status /\ Charged
                \/ UNCHANGED paid /\ Confirmed
  <2>1. CASE Processing!ReadOrder(w)
    BY <1>4, <2>1 DEF Processing!ReadOrder, Processing!Skip, Processing!moneyVars
  <2>2. CASE Processing!ReadPayment(w)
    BY <1>4, <2>2 DEF Processing!ReadPayment, Processing!Due, Processing!moneyVars
  <2>3. CASE Processing!Charge(w)
    <3>1. Charged /\ on[w] \in paid'  BY <1>3, <2>3 DEF Processing!Charge, Processing!Pay
    <3>2. QED  BY <1>4, <2>3, <3>1 DEF Processing!Charge
  <2>4. CASE Processing!Confirm(w)
    <3>1. UNCHANGED paid /\ (UNCHANGED status \/ Confirmed)
      BY <1>2, <2>4 DEF Processing!Confirm, Processing!moneyVars
    <3>2. QED  BY <1>4, <2>4, <3>1 DEF Processing!Confirm, Processing!AfterConfirm
  <2>5. CASE Processing!AddEmail(w)
    BY <1>4, <2>5 DEF Processing!AddEmail, Processing!moneyVars
  <2>6. CASE Processing!AddNotice(w)
    BY <1>4, <2>6 DEF Processing!AddNotice, Processing!moneyVars
  <2>7. CASE Processing!Finish(w)
    BY <1>5, <2>7 DEF Processing!Finish, Processing!moneyVars
  <2>8. QED
    BY <1>7, <2>1, <2>2, <2>3, <2>4, <2>5, <2>6, <2>7 DEF Processing!Work
<1>8. ASSUME NEW w \in Workers, Processing!Throw(w) \/ Processing!Crash(w)
      PROVE  WorkTyped' /\ Paying' /\ UNCHANGED <<status, paid>>
  BY <1>5, <1>8 DEF Processing!Throw, Processing!Crash, Processing!Retry, Processing!moneyVars
<1>9. ASSUME NEW w \in Workers, Processing!ThrowAfter(w)
      PROVE  /\ WorkTyped' /\ Paying'
             /\ \/ UNCHANGED <<status, paid>>
                \/ UNCHANGED status /\ Charged
                \/ UNCHANGED paid /\ Confirmed
  <2>1. Processing!Leave(w)  BY <1>9 DEF Processing!ThrowAfter, Processing!Retry
  <2>2. CASE at[w] = "charge"
    BY <1>3, <1>5, <1>9, <2>1, <2>2 DEF Processing!ThrowAfter
  <2>3. CASE at[w] = "confirm"
    <3>1. UNCHANGED paid /\ (UNCHANGED status \/ Confirmed)
      BY <1>2, <1>9, <2>3 DEF Processing!ThrowAfter, Processing!moneyVars
    <3>2. QED  BY <1>5, <2>1, <3>1
  <2>4. at[w] \in {"charge", "confirm"}  BY <1>9 DEF Processing!ThrowAfter
  <2>5. QED  BY <2>2, <2>3, <2>4
<1>10. QED
  <2>1. CASE \E o \in Orders : Processing!Enqueue(o) \/ Processing!Promote(o)
                                 \/ Processing!LoseLock(o) \/ Processing!Stall(o)
    BY <1>1, <2>1
  <2>2. CASE \E w \in Workers : Processing!Take(w) \/ Processing!Work(w) \/ Processing!Throw(w)
                                  \/ Processing!ThrowAfter(w) \/ Processing!Crash(w)
    BY <1>6, <1>7, <1>8, <1>9, <2>2
  <2>3. QED  BY <2>1, <2>2 DEF Processing!Process

-----------------------------------------------------------------------------
(* What a call of delivery does. *)

\* The order o, which was accepted, assigned or put ahead, moves on with its partner.
Moves(o) ==
    /\ o \in accepted \cup assigned \cup overruled /\ partner[o] # None
    /\ Processing!SetStatus(o, "OUT_FOR_DELIVERY") \/ Processing!SetStatus(o, "DELIVERED")
Moved == \E o \in Orders : Moves(o)

\* Rows get a partner for orders that were accepted, assigned or put ahead, and keep one.
RowsKept ==
    /\ assigned \subseteq assigned'
    /\ \A o \in Orders : partner[o] # None => partner'[o] # None
    /\ \A o \in Orders : partner'[o] # None =>
          partner[o] # None \/ o \in accepted \cup assigned' \cup overruled

LEMMA CallTyped ==
    ASSUME Courier!TypeOK, NEW c \in Calls, step[c] # "idle"
    PROVE  /\ call[c].op \in Ops /\ call[c].order \in Orders
           /\ call[c].who \in Partners /\ call[c].to \in Reports
           /\ call[c].who # None
  BY FulfilmentAssumption DEF Courier!TypeOK, Courier!Requests

\* Guards, answers and failures leave everything but the call alone.
LEMMA CallOnly ==
    ASSUME IInv, NEW c \in Calls,
           \/ Courier!Start(c) \/ Courier!Fail(c) \/ Courier!Locate(c)
           \/ Courier!CheckClaim(c) \/ Courier!CheckAssign(c) \/ Courier!CheckPartner(c),
           UNCHANGED <<accepted, overruled>>
    PROVE  /\ Courier!TypeOK' /\ Passed'
           /\ UNCHANGED <<status, partner, trips, assigned>>
<1> USE DEF Courier!rowVars, Courier!historyVars
<1>0. step[c] # "idle" => /\ call[c].op \in Ops /\ call[c].order \in Orders
                          /\ call[c].who \in Partners /\ call[c].who # None
  BY CallTyped DEF IInv, Typed
<1>1. UNCHANGED <<status, partner, progress, trips, assigned>>
  BY DEF Courier!Start, Courier!Fail, Courier!Locate, Courier!CheckClaim, Courier!CheckAssign,
         Courier!CheckPartner, Courier!Check
<1>2. ASSUME Courier!Answer(c)  PROVE Courier!TypeOK' /\ Passed'
  BY <1>1, <1>2 DEF Courier!Answer, IInv, Typed, Courier!TypeOK, Passed, Claiming, Reporting
<1>3. ASSUME Courier!Goto(c, "write"), step[c] # "idle",
             call[c].op = "claim" => call[c].order \in accepted \cup overruled,
             call[c].op = "report" => partner[call[c].order] # None
      PROVE  Courier!TypeOK' /\ Passed'
  BY <1>1, <1>3 DEF Courier!Goto, IInv, Typed, Courier!TypeOK, Passed, Claiming, Reporting
<1>4. CASE Courier!Start(c)
  <2>1. PICK r \in Courier!Requests : call' = [call EXCEPT ![c] = r]
    BY <1>4 DEF Courier!Start
  <2>2. step' = [step EXCEPT ![c] = "check"]  BY <1>4 DEF Courier!Start
  <2>3. QED
    BY <1>1, <2>1, <2>2 DEF IInv, Typed, Courier!TypeOK, Passed, Claiming, Reporting
<1>5. CASE Courier!Fail(c) \/ Courier!Locate(c)
  BY <1>1, <1>2, <1>5 DEF Courier!Fail, Courier!Locate
<1>6. CASE Courier!CheckClaim(c)
  <2>1. call[c].op = "claim" /\ step[c] # "idle"  BY <1>6 DEF Courier!CheckClaim, Courier!At
  <2>2. Courier!Goto(c, "write") => status[call[c].order] = "PREPARING" \/ Courier!Answer(c)
    BY <1>6 DEF Courier!CheckClaim, Courier!Check, Courier!Claimable
  <2>3. Courier!Goto(c, "write") \/ Courier!Answer(c)
    BY <1>6 DEF Courier!CheckClaim, Courier!Check
  <2>4. QED  BY <1>0, <1>1, <1>2, <1>3, <2>1, <2>2, <2>3 DEF IInv, Cooked
<1>7. CASE Courier!CheckAssign(c)
  <2>1. call[c].op = "assign" /\ step[c] # "idle"  BY <1>7 DEF Courier!CheckAssign, Courier!At
  <2>2. Courier!Goto(c, "write") \/ Courier!Answer(c)
    BY <1>7 DEF Courier!CheckAssign, Courier!Check
  <2>3. QED  BY <1>1, <1>2, <1>3, <2>1, <2>2
<1>8. CASE Courier!CheckPartner(c)
  <2>1. call[c].op \in {"report", "locate"} /\ step[c] # "idle"
    BY <1>8 DEF Courier!CheckPartner, Courier!At
  <2>2. Courier!Goto(c, "write") => partner[call[c].order] = call[c].who \/ Courier!Answer(c)
    BY <1>8 DEF Courier!CheckPartner, Courier!Check, Courier!OwnTrip
  <2>3. Courier!Goto(c, "write") \/ Courier!Answer(c)
    BY <1>8 DEF Courier!CheckPartner, Courier!Check
  <2>4. QED  BY <1>0, <1>1, <1>2, <1>3, <2>1, <2>2, <2>3
<1>9. QED  BY <1>1, <1>4, <1>5, <1>6, <1>7, <1>8

\* The upsert of a claim whose order was accepted, or put ahead.
LEMMA TakeTripMoves ==
    ASSUME IInv, NEW c \in Calls, Courier!TakeTrip(c), UNCHANGED <<accepted, overruled>>
    PROVE  Courier!TypeOK' /\ Passed' /\ OneCourier' /\ RowsKept
<1> DEFINE o == call[c].order
           p == call[c].who
<1>1. /\ step[c] = "write" /\ call[c].op = "claim"
      /\ UNCHANGED <<status, trips, assigned>>
  BY DEF Courier!TakeTrip, Courier!At, Courier!historyVars
<1>2. o \in Orders /\ p \in Partners /\ p # None  BY <1>1, CallTyped DEF IInv, Typed
<1>3. o \in accepted \cup overruled  BY <1>1 DEF IInv, Passed, Claiming
<1>4. CASE Courier!Free(o, p) /\ Courier!WriteRow(o, p, "PICKED_UP") /\ Courier!Goto(c, "publish")
  <2>1. /\ partner[o] \in {None, p}
        /\ partner' = [partner EXCEPT ![o] = p] /\ progress' = [progress EXCEPT ![o] = "PICKED_UP"]
        /\ step' = [step EXCEPT ![c] = "publish"] /\ UNCHANGED call
    BY <1>4 DEF Courier!Free, Courier!WriteRow, Courier!Goto
  <2> HIDE DEF o, p
  <2>2. Courier!TypeOK'
    BY <1>1, <1>2, <2>1 DEF IInv, Typed, Courier!TypeOK, Courier!Progress, o
  <2>3. \A x \in Orders : partner[x] # None => partner'[x] = partner[x]
    BY <1>2, <2>1 DEF IInv, Typed, Courier!TypeOK
  <2>4. RowsKept
    BY <1>1, <1>2, <1>3, <2>1, <2>3 DEF RowsKept, IInv, Typed, Courier!TypeOK
  <2>5. Passed'
    <3> SUFFICES ASSUME NEW d \in Calls, step'[d] \in {"write", "publish"}
                 PROVE  /\ call'[d].op = "claim" => Claiming(d)'
                        /\ call'[d].op = "report" => Reporting(d)'
      BY DEF Passed
    <3>1. CASE d = c
      BY <1>1, <1>2, <1>3, <2>1, <3>1 DEF Claiming, IInv, Typed, Courier!TypeOK, o, p
    <3>2. CASE d # c
      <4>1. step[d] = step'[d] /\ call[d] = call'[d] /\ call[d].order \in Orders /\ call[d].who # None
        BY <2>1, <3>2, CallTyped DEF IInv, Typed, Courier!TypeOK
      <4>2. QED
        BY <1>1, <2>3, <4>1 DEF IInv, Passed, Claiming, Reporting
    <3>3. QED  BY <3>1, <3>2
  <2>6. OneCourier'
    <3> SUFFICES ASSUME NEW t \in trips
                 PROVE  partner'[t[1]] = t[2] \/ t[1] \in assigned
      BY <1>1 DEF OneCourier, Courier!OneCourier
    <3>1. t[1] \in Orders /\ t[2] \in Partners  BY DEF IInv, Typed, Courier!TypeOK
    <3>2. t[2] # None  BY <3>1, FulfilmentAssumption
    <3>3. QED  BY <2>3, <3>1, <3>2 DEF IInv, Safe, OneCourier, Courier!OneCourier
  <2>7. QED  BY <2>2, <2>4, <2>5, <2>6
<1>5. CASE Courier!Answer(c) /\ UNCHANGED Courier!rowVars
  BY <1>1, <1>5 DEF Courier!Answer, Courier!rowVars, IInv, Typed, Courier!TypeOK, Passed, Claiming,
     Reporting, Safe, OneCourier, Courier!OneCourier, RowsKept
<1>6. QED  BY <1>4, <1>5 DEF Courier!TakeTrip

\* The rest of a claim: the order leaves with the partner whose row it is.
LEMMA DepartMoves ==
    ASSUME IInv, NEW c \in Calls, Courier!Depart(c), UNCHANGED <<accepted, overruled>>
    PROVE  Courier!TypeOK' /\ Passed' /\ OneCourier' /\ RowsKept /\ Moved
<1> DEFINE o == call[c].order
           p == call[c].who
<1>1. /\ step[c] = "publish" /\ call[c].op = "claim" /\ Courier!Answer(c)
      /\ Courier!SetStatus(o, "OUT_FOR_DELIVERY") /\ trips' = trips \cup {<<o, p>>}
      /\ UNCHANGED <<partner, progress, assigned>>
  BY DEF Courier!Depart, Courier!At, Courier!rowVars
<1>2. o \in Orders /\ p \in Partners /\ p # None  BY <1>1, CallTyped DEF IInv, Typed
<1>3. /\ o \in accepted \cup overruled /\ partner[o] # None
      /\ partner[o] = p \/ o \in assigned
  BY <1>1, <1>2 DEF IInv, Passed, Claiming
<1>4. Moved
  BY <1>1, <1>2, <1>3 DEF Moved, Moves, Courier!SetStatus, Processing!SetStatus
<1>5. status' \in [Orders -> Courier!Statuses]
  BY <1>1, <1>2 DEF IInv, Typed, Courier!TypeOK, Courier!SetStatus, Courier!Statuses
<1> HIDE DEF o, p
<1>6. Courier!TypeOK' /\ Passed' /\ RowsKept
  BY <1>1, <1>2, <1>5 DEF Courier!Answer, IInv, Typed, Courier!TypeOK, Passed, Claiming, Reporting, RowsKept
<1>7. OneCourier'
  BY <1>1, <1>3 DEF IInv, Safe, OneCourier, Courier!OneCourier
<1>8. QED  BY <1>4, <1>6, <1>7

\* The owner gives an order to a partner by hand, whoever has it.
LEMMA AssignMoves ==
    ASSUME IInv, NEW c \in Calls, Courier!Assign(c), UNCHANGED <<accepted, overruled>>
    PROVE  /\ Courier!TypeOK' /\ Passed' /\ OneCourier' /\ RowsKept /\ UNCHANGED status
           /\ \E o \in Orders : assigned' = assigned \cup {o}
<1> DEFINE o == call[c].order
           p == call[c].who
<1>1. /\ step[c] = "write" /\ call[c].op = "assign" /\ Courier!Answer(c)
      /\ partner' = [partner EXCEPT ![o] = p] /\ progress' = [progress EXCEPT ![o] = "ASSIGNED"]
      /\ assigned' = assigned \cup {o} /\ UNCHANGED <<status, trips>>
  BY DEF Courier!Assign, Courier!At, Courier!WriteRow
<1>2. o \in Orders /\ p \in Partners /\ p # None  BY <1>1, CallTyped DEF IInv, Typed
<1> HIDE DEF o, p
<1>3. Courier!TypeOK'
  BY <1>1, <1>2 DEF Courier!Answer, IInv, Typed, Courier!TypeOK, Courier!Progress
<1>4. RowsKept
  BY <1>1, <1>2 DEF IInv, Typed, Courier!TypeOK, RowsKept
<1>5. Passed'
  <2> SUFFICES ASSUME NEW d \in Calls, step'[d] \in {"write", "publish"}
               PROVE  /\ call'[d].op = "claim" => Claiming(d)'
                      /\ call'[d].op = "report" => Reporting(d)'
    BY DEF Passed
  <2>1. /\ step[d] = step'[d] /\ call[d] = call'[d] /\ call[d].order \in Orders
        /\ call[d].who # None
    BY <1>1, CallTyped DEF Courier!Answer, IInv, Typed, Courier!TypeOK
  <2>2. CASE call[d].order = o
    BY <1>1, <1>2, <2>1, <2>2 DEF IInv, Passed, Claiming, Reporting, Typed, Courier!TypeOK
  <2>3. CASE call[d].order # o
    BY <1>1, <1>2, <2>1, <2>3 DEF IInv, Passed, Claiming, Reporting, Typed, Courier!TypeOK
  <2>4. QED  BY <2>2, <2>3
<1>6. OneCourier'
  <2> SUFFICES ASSUME NEW t \in trips
               PROVE  partner'[t[1]] = t[2] \/ t[1] \in assigned'
    BY <1>1 DEF OneCourier, Courier!OneCourier
  <2>1. t[1] \in Orders  BY DEF IInv, Typed, Courier!TypeOK
  <2>2. QED  BY <1>1, <1>2, <2>1 DEF IInv, Safe, OneCourier, Courier!OneCourier, Typed, Courier!TypeOK
<1>7. QED  BY <1>1, <1>2, <1>3, <1>4, <1>5, <1>6

\* A report is about an order that has a partner.
LEMMA ReportMoves ==
    ASSUME IInv, NEW c \in Calls, Courier!Report(c), UNCHANGED <<accepted, overruled>>
    PROVE  Courier!TypeOK' /\ Passed' /\ UNCHANGED <<status, partner, trips, assigned>>
<1>1. /\ step[c] = "write" /\ call[c].op = "report"
      /\ progress' = [progress EXCEPT ![call[c].order] = call[c].to]
      /\ IF Courier!OrderStatusOf(call[c].to) = None THEN Courier!Answer(c)
                                                     ELSE Courier!Goto(c, "publish")
      /\ UNCHANGED <<status, partner, trips, assigned>>
  BY DEF Courier!Report, Courier!At, Courier!historyVars
<1>2. call[c].order \in Orders /\ call[c].to \in Courier!Progress
  BY <1>1, CallTyped, FulfilmentAssumption DEF IInv, Typed, Courier!Progress
<1>3. CASE Courier!Answer(c)
  BY <1>1, <1>2, <1>3
  DEF Courier!Answer, IInv, Typed, Courier!TypeOK, Passed, Claiming, Reporting
<1>4. CASE Courier!OrderStatusOf(call[c].to) # None /\ Courier!Goto(c, "publish")
  BY <1>1, <1>2, <1>4
  DEF Courier!Goto, IInv, Typed, Courier!TypeOK, Passed, Claiming, Reporting
<1>5. QED  BY <1>1, <1>3, <1>4

LEMMA PublishMoves ==
    ASSUME IInv, NEW c \in Calls, Courier!Publish(c), UNCHANGED <<accepted, overruled>>
    PROVE  Courier!TypeOK' /\ Passed' /\ Moved /\ UNCHANGED <<partner, trips, assigned>>
<1> DEFINE o == call[c].order
           s == Courier!OrderStatusOf(call[c].to)
<1>1. /\ step[c] = "publish" /\ call[c].op = "report" /\ Courier!Answer(c)
      /\ Courier!SetStatus(o, s) /\ UNCHANGED <<partner, progress, trips, assigned>>
  BY DEF Courier!Publish, Courier!At, Courier!rowVars, Courier!historyVars
<1>2. o \in Orders  BY <1>1, CallTyped DEF IInv, Typed
<1>3. partner[o] # None /\ s # None  BY <1>1 DEF IInv, Passed, Reporting
<1>4. s \in {"OUT_FOR_DELIVERY", "DELIVERED"}
  BY <1>3 DEF Courier!OrderStatusOf
<1> HIDE DEF s
<1>5. o \in accepted \cup assigned \cup overruled
  BY <1>2, <1>3 DEF IInv, Safe, LeavesAccepted
<1>6. Moved
  BY <1>1, <1>2, <1>3, <1>4, <1>5 DEF Moved, Moves, Courier!SetStatus, Processing!SetStatus
<1>7. status' \in [Orders -> Courier!Statuses]
  BY <1>1, <1>2, <1>4 DEF IInv, Typed, Courier!TypeOK, Courier!SetStatus, Courier!Statuses
<1>8. Courier!TypeOK' /\ Passed'
  BY <1>1, <1>7 DEF Courier!Answer, IInv, Typed, Courier!TypeOK, Passed, Claiming, Reporting
<1>9. QED  BY <1>1, <1>6, <1>8

LEMMA DeliveryMoves ==
    ASSUME IInv, Courier!Deliver, UNCHANGED <<accepted, overruled>>
    PROVE  /\ Courier!TypeOK' /\ Passed' /\ OneCourier' /\ RowsKept
           /\ \/ UNCHANGED <<status, assigned>>
              \/ UNCHANGED assigned /\ Moved
              \/ UNCHANGED status /\ \E o \in Orders : assigned' = assigned \cup {o}
<1>1. PICK c \in Calls : Courier!Start(c) \/ Courier!Handle(c) \/ Courier!Fail(c)
  BY DEF Courier!Deliver
<1>2. ASSUME UNCHANGED <<partner, trips, assigned>>  PROVE OneCourier' /\ RowsKept
  BY <1>2 DEF OneCourier, Courier!OneCourier, RowsKept, IInv, Safe
<1>3. CASE \/ Courier!Start(c) \/ Courier!Fail(c) \/ Courier!Locate(c)
           \/ Courier!CheckClaim(c) \/ Courier!CheckAssign(c) \/ Courier!CheckPartner(c)
  BY <1>2, <1>3, CallOnly
<1>4. CASE Courier!TakeTrip(c)
  BY <1>4, TakeTripMoves DEF Courier!TakeTrip, Courier!historyVars
<1>5. CASE Courier!Depart(c)
  BY <1>5, DepartMoves DEF Courier!Depart
<1>6. CASE Courier!Assign(c)  BY <1>6, AssignMoves
<1>7. CASE Courier!Report(c)  BY <1>2, <1>7, ReportMoves
<1>8. CASE Courier!Publish(c)  BY <1>2, <1>8, PublishMoves
<1>9. QED  BY <1>1, <1>3, <1>4, <1>5, <1>6, <1>7, <1>8 DEF Courier!Handle

-----------------------------------------------------------------------------
(* Every step keeps the invariant, and does what OrderLife may do. *)

\* What the worker, a call, the owner or an admin leaves of the rest, and a status that only
\* moves in the ways above, keep the order of money, acceptance and trip.
LEMMA SafeKept ==
    ASSUME IInv, paid \subseteq paid', accepted \subseteq accepted', overruled \subseteq overruled',
           accepted' \subseteq paid' \cup overruled',
           OneCourier', RowsKept,
           (shown \cup fetched)' \subseteq paid' \cup overruled',
           \/ UNCHANGED status
           \/ Confirmed
           \/ Moved
           \/ \E o \in Orders : o \in accepted' /\ Processing!SetStatus(o, "PREPARING")
           \/ \E o \in Orders, s \in Statuses :
                 Processing!SetStatus(o, s) /\ (s \in Ahead => o \in overruled')
    PROVE  Cooked' /\ Safe' /\ status' \in [Orders -> Statuses]
<1> DEFINE Good == /\ Cooked' /\ PaidBeforePrepared' /\ LeavesAccepted' /\ NoPartnerlessTrip'
                   /\ status' \in [Orders -> Statuses]
<1> USE DEF IInv, Typed, Statuses, Ahead, Courier!HasPartner
<1>1. ASSUME UNCHANGED status  PROVE Good
  BY <1>1 DEF Cooked, Safe, PaidBeforePrepared, LeavesAccepted, NoPartnerlessTrip, RowsKept
<1>2. ASSUME NEW o \in Orders, NEW s \in Statuses, Processing!SetStatus(o, s),
             \/ o \in overruled'
             \/ s \in {"PENDING", "CANCELLED"}
             \/ s = "PREPARING" /\ o \in accepted'
             \/ s = "CONFIRMED" /\ o \in paid
      PROVE  Good
  <2>1. /\ status' \in [Orders -> Statuses] /\ status'[o] = s
        /\ \A x \in Orders : x # o => status'[x] = status[x]
    BY <1>2 DEF Processing!SetStatus
  <2>2. QED
    BY <1>2, <2>1 DEF Cooked, Safe, PaidBeforePrepared, LeavesAccepted, NoPartnerlessTrip, RowsKept
<1>3. ASSUME NEW o \in Orders, Moves(o)  PROVE Good
  <2>1. /\ status' \in [Orders -> Statuses]
        /\ status'[o] \in {"OUT_FOR_DELIVERY", "DELIVERED"}
        /\ \A x \in Orders : x # o => status'[x] = status[x]
    BY <1>3 DEF Moves, Processing!SetStatus
  <2>2. o \in accepted \cup assigned \cup overruled /\ partner[o] # None  BY <1>3 DEF Moves
  <2>3. QED
    BY <2>1, <2>2 DEF Cooked, Safe, PaidBeforePrepared, LeavesAccepted, NoPartnerlessTrip, RowsKept
<1>4. Good
  <2>1. CASE Confirmed \/ Moved \/ UNCHANGED status
    BY <1>1, <1>2, <1>3, <2>1 DEF Confirmed, Moved
  <2>2. ASSUME NEW o \in Orders, o \in accepted', Processing!SetStatus(o, "PREPARING")  PROVE Good
    BY <1>2, <2>2
  <2>3. ASSUME NEW o \in Orders, NEW s \in Statuses, Processing!SetStatus(o, s),
               s \in Ahead => o \in overruled'
        PROVE  Good
    BY <1>2, <2>3
  <2>4. QED  BY <2>1, <2>2, <2>3
<1>5. QED  BY <1>4 DEF Safe, OffersPaid

\* A step is the worker's, a call's, the owner's or an admin's.
LEMMA NextStep ==
    ASSUME IInv, Next
    PROVE  IInv' /\ [Life!Next]_(Life!vars)
<1> USE DEF workVars, deliveryVars, ownerVars, pageVars, Life!vars
<1>1. CASE Processing!Process /\ UNCHANGED <<deliveryVars, ownerVars>>
  <2>1. /\ WorkTyped' /\ Paying'
        /\ \/ UNCHANGED <<status, paid>>
           \/ UNCHANGED status /\ Charged
           \/ UNCHANGED paid /\ Confirmed
    BY <1>1, WorkerMoves DEF IInv
  <2>2. paid \subseteq paid'  BY <2>1 DEF Charged
  <2>3. OneCourier' /\ RowsKept /\ Passed'
    BY <1>1 DEF IInv, Safe, OneCourier, Courier!OneCourier, RowsKept, Passed, Claiming, Reporting
  <2>4. Cooked' /\ Safe' /\ status' \in [Orders -> Statuses]
    BY <1>1, <2>1, <2>2, <2>3, SafeKept DEF IInv, Safe, Cooked, OffersPaid
  <2>5. Courier!TypeOK'
    BY <1>1, <2>4 DEF IInv, Typed, Courier!TypeOK, Statuses, Courier!Statuses
  <2>6. IInv'
    BY <1>1, <2>1, <2>3, <2>4, <2>5 DEF IInv, Typed
  <2>7. [Life!Next]_(Life!vars)
    BY <1>1, <2>1 DEF Charged, Confirmed, Life!Next, Life!Charge, Life!Confirm,
       Processing!SetStatus, Life!SetStatus
  <2>8. QED  BY <2>6, <2>7
<1>2. CASE Courier!Deliver /\ UNCHANGED <<workVars, ownerVars>>
  <2>1. /\ Courier!TypeOK' /\ Passed' /\ OneCourier' /\ RowsKept
        /\ \/ UNCHANGED <<status, assigned>>
           \/ UNCHANGED assigned /\ Moved
           \/ UNCHANGED status /\ \E o \in Orders : assigned' = assigned \cup {o}
    BY <1>2, DeliveryMoves
  <2>2. Cooked' /\ Safe' /\ status' \in [Orders -> Statuses]
    BY <1>2, <2>1, SafeKept DEF IInv, Safe, Cooked, OffersPaid
  <2>3. IInv'
    BY <1>2, <2>1, <2>2 DEF IInv, Typed, WorkTyped, Paying
  <2>4. [Life!Next]_(Life!vars)
    BY <1>2, <2>1 DEF Moved, Moves, Life!Next, Life!Assign, Life!Leave,
       Processing!SetStatus, Life!SetStatus
  <2>5. QED  BY <2>3, <2>4
<1>3. ASSUME Owner \/ Admin
      PROVE  IInv' /\ [Life!Next]_(Life!vars)
  <2>1. UNCHANGED <<workVars, deliveryVars>>
    BY <1>3 DEF Owner, Fetch, Arrive, Accept, Admin
  <2>2. WorkTyped' /\ Paying' /\ Passed' /\ OneCourier' /\ RowsKept
    <3>1. accepted \subseteq accepted' /\ overruled \subseteq overruled'
      BY <1>3 DEF Owner, Fetch, Arrive, Accept, Admin
    <3>2. QED
      BY <2>1, <3>1 DEF IInv, Typed, WorkTyped, Paying, Passed, Claiming, Reporting, Safe,
         OneCourier, Courier!OneCourier, RowsKept
  <2>3. CASE Fetch \/ Arrive
    <3>1. /\ (shown \cup fetched)' \subseteq paid \cup overruled
          /\ UNCHANGED <<status, accepted, overruled>>
      BY <2>3 DEF Fetch, Arrive, Offered, IInv, Safe, PaidBeforePrepared, OffersPaid
    <3>2. Cooked' /\ Safe' /\ status' \in [Orders -> Statuses]
      BY <2>1, <2>2, <3>1, SafeKept DEF IInv, Cooked
    <3>3. Courier!TypeOK'
      BY <2>1, <3>2 DEF IInv, Typed, Courier!TypeOK, Statuses, Courier!Statuses
    <3>4. (fetched \subseteq Orders /\ shown \subseteq Orders /\ accepted \subseteq Orders
           /\ overruled \subseteq Orders)'
      BY <2>3 DEF Fetch, Arrive, Offered, IInv, Typed
    <3>5. QED  BY <2>1, <2>2, <3>1, <3>2, <3>3, <3>4 DEF IInv, Typed
  <2>4. ASSUME NEW o \in Orders, Accept(o)
        PROVE  IInv' /\ [Life!Next]_(Life!vars)
    <3>1. /\ o \in paid \cup overruled /\ Processing!SetStatus(o, "PREPARING")
          /\ accepted' = accepted \cup {o} /\ shown' \subseteq shown
          /\ UNCHANGED <<fetched, overruled>>
      BY <2>4 DEF Accept, IInv, Safe, OffersPaid, SetStatus, Processing!SetStatus
    <3>2. Cooked' /\ Safe' /\ status' \in [Orders -> Statuses]
      BY <2>1, <2>2, <3>1, SafeKept DEF IInv, Cooked, Safe, OffersPaid
    <3>3. Courier!TypeOK'
      BY <2>1, <3>2 DEF IInv, Typed, Courier!TypeOK, Statuses, Courier!Statuses
    <3>4. IInv'  BY <2>1, <2>2, <3>1, <3>2, <3>3 DEF IInv, Typed
    <3>5. Life!Accept(o)
      BY <2>1, <3>1 DEF Life!Accept, Processing!SetStatus, Life!SetStatus
    <3>6. QED  BY <3>4, <3>5 DEF Life!Next
  <2>5. CASE Admin
    <3>1. PICK o \in Orders, s \in Decisions :
              /\ status' = [status EXCEPT ![o] = s]
              /\ overruled' = IF s \in Ahead THEN overruled \cup {o} ELSE overruled
      BY <2>5 DEF Admin, SetStatus
    <3>2. UNCHANGED <<fetched, shown, accepted>>  BY <2>5 DEF Admin
    <3>3. s \in Statuses /\ Processing!SetStatus(o, s) /\ (s \in Ahead => o \in overruled')
      BY <3>1, DecisionsAssumption DEF Processing!SetStatus
    <3>4. overruled \subseteq overruled' /\ overruled' \subseteq Orders
      BY <3>1 DEF IInv, Typed
    <3>5. Cooked' /\ Safe' /\ status' \in [Orders -> Statuses]
      BY <2>1, <2>2, <3>2, <3>3, <3>4, SafeKept DEF IInv, Cooked, Safe, OffersPaid
    <3>6. Courier!TypeOK'
      BY <2>1, <3>5 DEF IInv, Typed, Courier!TypeOK, Statuses, Courier!Statuses
    <3>7. IInv'  BY <2>1, <2>2, <3>2, <3>4, <3>5, <3>6 DEF IInv, Typed
    <3>8. Life!Overrule(o)
      BY <2>1, <3>1, <3>2 DEF Life!Overrule, Life!SetStatus, Ahead, Life!Ahead
    <3>9. QED  BY <3>7, <3>8 DEF Life!Next
  <2>6. QED  BY <1>3, <2>3, <2>4, <2>5 DEF Owner
<1>4. QED  BY <1>1, <1>2, <1>3 DEF Next

LEMMA IInvInit == Init => IInv
<1> SUFFICES ASSUME Init PROVE IInv  OBVIOUS
<1> USE FulfilmentAssumption DEF Init, Processing!Init, Courier!Init, Processing!Placed
<1>1. Typed
  BY DEF Typed, WorkTyped, Courier!TypeOK, Statuses, Courier!Statuses, Processing!Steps
<1>2. Paying /\ Cooked /\ Passed /\ Safe
  BY DEF Paying, Cooked, Passed, Safe, PaidBeforePrepared, OffersPaid, LeavesAccepted,
     OneCourier, Courier!OneCourier, NoPartnerlessTrip, Courier!HasPartner
<1>3. QED  BY <1>1, <1>2 DEF IInv

LEMMA IInvStep ==
    ASSUME IInv, [Next]_vars
    PROVE  IInv' /\ [Life!Next]_(Life!vars)
<1>1. CASE Next  BY <1>1, NextStep
<1>2. CASE UNCHANGED vars
  <2> USE <1>2 DEF vars, workVars, deliveryVars, ownerVars, pageVars
  <2>1. Typed'  BY DEF IInv, Typed, WorkTyped, Courier!TypeOK
  <2>2. (Paying /\ Cooked /\ Passed)'
    BY DEF IInv, Paying, Cooked, Passed, Claiming, Reporting
  <2>3. Safe'
    BY DEF IInv, Safe, PaidBeforePrepared, OffersPaid, LeavesAccepted, OneCourier,
       Courier!OneCourier, NoPartnerlessTrip, Courier!HasPartner
  <2>4. UNCHANGED Life!vars  BY DEF Life!vars
  <2>5. QED  BY <2>1, <2>2, <2>3, <2>4 DEF IInv
<1>3. QED  BY <1>1, <1>2

LEMMA Invariant == Spec => []IInv
<1>1. IInv /\ [Next]_vars => IInv'  BY IInvStep
<1>2. QED  BY <1>1, IInvInit, PTL DEF Spec

-----------------------------------------------------------------------------
(* The theorems. *)

\* Rows, calls and the page keep their types: a call at an await has a request, and an
\* order with a partner has a progress.
THEOREM TypeCorrect == Spec => []TypeOK
<1>1. IInv => TypeOK  BY DEF IInv, Typed, TypeOK
<1>2. QED  BY <1>1, Invariant, PTL

\* No kitchen cooks what was not charged: any number of runs of one job, an owner's page of
\* any age, racing partners and failing calls do not bring an unpaid order to a kitchen.  Only
\* an admin who puts it ahead by hand does.
THEOREM NothingUnpaidIsCooked == Spec => [](PaidBeforePrepared /\ OffersPaid)
<1>1. IInv => PaidBeforePrepared /\ OffersPaid  BY DEF IInv, Safe
<1>2. QED  BY <1>1, Invariant, PTL

\* An order leaves the kitchen, or has a partner's row, only after the owner accepted it or
\* assigned it by hand, or an admin put it ahead.
THEOREM NothingUnacceptedLeaves == Spec => []LeavesAccepted
<1>1. IInv => LeavesAccepted  BY DEF IInv, Safe
<1>2. QED  BY <1>1, Invariant, PTL

\* However many partners race for a trip, and whichever of their claims fail half way, one
\* of them is told that it is his, and the row says so until an owner assigns another.
THEOREM OneCourierWins == Spec => []OneCourier
<1>1. IInv => OneCourier  BY DEF IInv, Safe
<1>2. QED  BY <1>1, Invariant, PTL

\* No order travels, or is delivered, without a partner's name on it: handlers that fail half
\* way, hand assignments and late reports leave none.  Only an admin can set such a status.
THEOREM TripsHavePartners == Spec => []NoPartnerlessTrip
<1>1. IInv => NoPartnerlessTrip  BY DEF IInv, Safe
<1>2. QED  BY <1>1, Invariant, PTL

\* Worker, partners, owner and admins together do what OrderLife promises: first the money,
\* then the acceptance, then the road, for any number of each, whatever admins set by hand.
THEOREM FulfilmentImplementsLife == Spec => ImplementsLife
<1>1. Init => Life!Init
  BY DEF Init, Life!Init, Life!Placed, Processing!Init, Processing!Placed, Courier!Init
<1>2. IInv /\ [Next]_vars => [Life!Next]_(Life!vars)  BY IInvStep
<1>3. QED  BY <1>1, <1>2, Invariant, PTL DEF Spec, ImplementsLife, Life!Spec

-----------------------------------------------------------------------------
(* What is delivered stays so. *)

\* A settled order is left alone by every call, but for a report that it is delivered.
LEMMA CallsLeaveSettled ==
    ASSUME IInv, "PICKED_UP" \notin Reports, NEW o \in Orders, Courier!Settled(o),
           Courier!Deliver
    PROVE  Courier!Settled(o)'
<1>1. PICK c \in Calls : Courier!Start(c) \/ Courier!Handle(c) \/ Courier!Fail(c)
  BY DEF Courier!Deliver
<1>2. \A d \in Calls \ {c} : step'[d] = step[d] /\ call'[d] = call[d]
  BY <1>1
  DEF IInv, Typed, Courier!TypeOK, Courier!Start, Courier!Handle, Courier!Fail,
      Courier!CheckClaim, Courier!TakeTrip, Courier!Depart, Courier!CheckAssign, Courier!Assign,
      Courier!CheckPartner, Courier!Report, Courier!Publish, Courier!Locate, Courier!Check,
      Courier!Goto, Courier!Answer
<1>3. ASSUME step'[c] \notin {"write", "publish"} \/ call'[c].op # "claim" \/ call'[c].order # o,
             status'[o] = "DELIVERED"
      PROVE  Courier!Settled(o)'
  BY <1>2, <1>3 DEF Courier!Settled
<1>4. CASE Courier!Start(c)
  BY <1>3, <1>4 DEF Courier!Start, Courier!Settled, IInv, Typed, Courier!TypeOK
<1>5. ASSUME Courier!Answer(c), status'[o] = "DELIVERED"  PROVE Courier!Settled(o)'
  BY <1>3, <1>5 DEF Courier!Answer, IInv, Typed, Courier!TypeOK
<1>6. CASE Courier!Fail(c) \/ Courier!Locate(c) \/ Courier!Assign(c)
  BY <1>5, <1>6 DEF Courier!Fail, Courier!Locate, Courier!Assign, Courier!Settled
<1>7. CASE Courier!CheckClaim(c)
  <2>1. UNCHANGED status /\ (Courier!Goto(c, "write") \/ Courier!Answer(c))
    BY <1>7 DEF Courier!CheckClaim, Courier!Check
  <2>2. CASE Courier!Answer(c)  BY <1>5, <2>1, <2>2 DEF Courier!Settled
  <2>3. CASE ~Courier!Answer(c)
    <3>1. status[call[c].order] = "PREPARING"
      BY <1>7, <2>3 DEF Courier!CheckClaim, Courier!Check, Courier!Claimable
    <3>2. call[c].order # o  BY <3>1 DEF Courier!Settled
    <3>3. QED  BY <1>3, <2>1, <2>3, <3>2 DEF Courier!Goto, Courier!Settled
  <2>4. QED  BY <2>2, <2>3
<1>8. CASE Courier!CheckAssign(c) \/ Courier!CheckPartner(c) \/ Courier!Report(c)
  <2>1. /\ UNCHANGED status /\ call[c].op # "claim"
        /\ Courier!Answer(c) \/ UNCHANGED call
    BY <1>8 DEF Courier!CheckAssign, Courier!CheckPartner, Courier!Report, Courier!At, Courier!Check,
       Courier!Goto
  <2>2. QED  BY <1>3, <1>5, <2>1 DEF Courier!Settled
<1>9. CASE Courier!TakeTrip(c)
  <2>1. /\ UNCHANGED status /\ call[c].order # o
        /\ Courier!Answer(c) \/ UNCHANGED call
    BY <1>9 DEF Courier!TakeTrip, Courier!At, Courier!Settled, Courier!Goto
  <2>2. QED  BY <1>3, <1>5, <2>1 DEF Courier!Settled
<1>10. CASE Courier!Depart(c)
  <2>1. /\ Courier!Answer(c) /\ call[c].order # o /\ call[c].order \in Orders
        /\ status' = [status EXCEPT ![call[c].order] = "OUT_FOR_DELIVERY"]
    BY <1>10, CallTyped
    DEF Courier!Depart, Courier!At, Courier!Settled, Courier!SetStatus, IInv, Typed
  <2>2. QED  BY <1>5, <2>1 DEF Courier!Settled, IInv, Typed
<1>11. CASE Courier!Publish(c)
  <2>1. /\ Courier!Answer(c) /\ step[c] = "publish" /\ call[c].op = "report"
        /\ status' = [status EXCEPT ![call[c].order] = Courier!OrderStatusOf(call[c].to)]
    BY <1>11 DEF Courier!Publish, Courier!At, Courier!SetStatus
  <2>2. call[c].order \in Orders /\ call[c].to \in Reports
    BY <2>1, CallTyped DEF IInv, Typed
  <2>3. Courier!OrderStatusOf(call[c].to) # None
    BY <2>1 DEF IInv, Passed, Reporting
  <2>4. Courier!OrderStatusOf(call[c].to) = "DELIVERED"
    BY <2>2, <2>3 DEF Courier!OrderStatusOf
  <2>5. QED  BY <1>5, <2>1, <2>2, <2>4 DEF Courier!Settled, IInv, Typed
<1>12. QED
  BY <1>1, <1>4, <1>6, <1>7, <1>8, <1>9, <1>10, <1>11 DEF Courier!Handle

\* While no partner reports PICKED_UP, as their dashboard does not, no call or job that comes
\* late takes a delivered order out again, whatever was under way when it was delivered.
THEOREM DeliveredIsFinal ==
    ASSUME "PICKED_UP" \notin Reports
    PROVE  Spec => DeliveredStays
<1> DEFINE Stays(o) == Courier!Settled(o)' \/ Accept(o) \/ Admin
<1>1. ASSUME IInv, [Next]_vars, NEW o \in Orders, Courier!Settled(o)
      PROVE  Stays(o)
  <2> USE DEF workVars, deliveryVars, ownerVars
  <2>1. ASSUME UNCHANGED <<step, call>>, status'[o] = status[o]  PROVE Stays(o)
    BY <1>1, <2>1 DEF Courier!Settled
  <2>2. CASE Processing!Process /\ UNCHANGED <<deliveryVars, ownerVars>>
    <3>1. UNCHANGED status \/ Confirmed  BY <1>1, <2>2, WorkerMoves DEF IInv
    <3>2. status'[o] = status[o]
      <4>1. ASSUME NEW x \in Orders, status[x] = "PENDING", Processing!SetStatus(x, "CONFIRMED")
            PROVE  status'[o] = status[o]
        <5>1. x # o  BY <1>1, <4>1 DEF Courier!Settled
        <5>2. status \in [Orders -> Statuses]  BY <1>1 DEF IInv, Typed
        <5>3. QED  BY <4>1, <5>1, <5>2 DEF Processing!SetStatus
      <4>2. QED  BY <3>1, <4>1 DEF Confirmed
    <3>3. QED  BY <2>1, <2>2, <3>2
  <2>3. CASE Courier!Deliver
    BY <1>1, <2>3, CallsLeaveSettled
  <2>4. CASE Owner
    <3>1. CASE Fetch \/ Arrive  BY <2>1, <3>1 DEF Fetch, Arrive
    <3>2. ASSUME NEW x \in Orders, Accept(x)  PROVE Stays(o)
      <4>1. UNCHANGED <<step, call>> /\ status' = [status EXCEPT ![x] = "PREPARING"]
        BY <3>2 DEF Accept, SetStatus
      <4>2. CASE x = o  BY <3>2, <4>2
      <4>3. CASE x # o  BY <1>1, <2>1, <4>1, <4>3 DEF IInv, Typed
      <4>4. QED  BY <4>2, <4>3
    <3>3. QED  BY <2>4, <3>1, <3>2 DEF Owner
  <2>5. CASE Admin  BY <2>5
  <2>6. CASE UNCHANGED vars  BY <2>1, <2>6 DEF vars
  <2>7. QED  BY <1>1, <2>2, <2>3, <2>4, <2>5, <2>6 DEF Next
<1>2. IInv /\ [Next]_vars => [\A o \in Orders : Courier!Settled(o) => Stays(o)]_vars
  BY <1>1
<1>3. QED  BY <1>2, Invariant, PTL DEF Spec, DeliveredStays
=============================================================================
