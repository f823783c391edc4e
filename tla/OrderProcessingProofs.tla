----------------------- MODULE OrderProcessingProofs -----------------------
(***************************************************************************)
(* What order processing guarantees for every set of orders and workers,   *)
(* every number of attempts and stalls, and every choice of failures.      *)
(***************************************************************************)
EXTENDS OrderProcessing, TLAPS

\* A job that is not settled has an attempt left, and only active jobs are locked.
Live ==
    \A o \in Orders :
        /\ job[o] \notin {"completed", "failed"} =>
              attempts[o] < MaxAttempts /\ stalls[o] <= MaxStalls
        /\ holder[o] # None => job[o] = "active"

Base == TypeOK /\ Live

-----------------------------------------------------------------------------
(* What the parts of an action do to the types. *)

\* A worker that is not idle works on an order.
LEMMA Busy ==
    ASSUME TypeOK, NEW w \in Workers, at[w] # "idle"
    PROVE  on[w] \in Orders
  BY ProcessingAssumption DEF TypeOK

LEMMA GotoKeepsTypes ==
    ASSUME TypeOK, NEW w \in Workers, at[w] # "idle", NEW s \in Steps \ {"idle"}, Goto(w, s)
    PROVE  /\ at' \in [Workers -> Steps] /\ on' \in [Workers -> Orders \cup {None}]
           /\ \A v \in Workers : at'[v] = "idle" <=> on'[v] = None
  BY DEF TypeOK, Goto

LEMMA LeaveKeepsTypes ==
    ASSUME TypeOK, NEW w \in Workers, Leave(w)
    PROVE  /\ at' \in [Workers -> Steps] /\ on' \in [Workers -> Orders \cup {None}]
           /\ \A v \in Workers : at'[v] = "idle" <=> on'[v] = None
  BY DEF TypeOK, Leave, Steps

LEMMA PayKeepsTypes ==
    ASSUME TypeOK, NEW o \in Orders, Pay(o)
    PROVE  paid' \subseteq Orders /\ charges' \in [Orders -> Nat]
  BY DEF TypeOK, Pay

LEMMA SetStatusKeepsTypes ==
    ASSUME status \in [Orders -> Statuses], NEW o \in Orders, NEW s \in Statuses, SetStatus(o, s)
    PROVE  status' \in [Orders -> Statuses]
  BY DEF SetStatus

LEMMA ConfirmKeepsTypes ==
    ASSUME TypeOK, NEW o \in Orders, ConfirmPending(o)
    PROVE  status' \in [Orders -> Statuses]
<1>1. CASE SetStatus(o, "CONFIRMED")
  BY <1>1, SetStatusKeepsTypes DEF TypeOK, Statuses
<1>2. CASE UNCHANGED status  BY <1>2 DEF TypeOK
<1>3. QED  BY <1>1, <1>2 DEF ConfirmPending

JobTypes ==
    /\ job \in [Orders -> {"none", "waiting", "active", "delayed", "completed", "failed"}]
    /\ holder \in [Orders -> Workers \cup {None}]
    /\ attempts \in [Orders -> 0 .. MaxAttempts]
    /\ stalls \in [Orders -> 0 .. MaxStalls + 1]

LEMMA RetryKeepsJobs ==
    ASSUME Base, NEW w \in Workers, at[w] # "idle", Retry(w)
    PROVE  JobTypes' /\ Live' /\ Leave(w)
<1> DEFINE o == on[w]
<1>1. o \in Orders  BY Busy DEF Base
<1>2. CASE holder[o] = w
  <2>1. job[o] = "active" /\ attempts[o] < MaxAttempts
    BY <1>1, <1>2, ProcessingAssumption DEF Base, Live
  <2>2. attempts' = [attempts EXCEPT ![o] = @ + 1] /\ UNCHANGED stalls
    BY <1>2 DEF Retry
  <2>3. /\ job' = [job EXCEPT ![o] = IF attempts[o] + 1 < MaxAttempts THEN "delayed" ELSE "failed"]
        /\ holder' = [holder EXCEPT ![o] = None]
    BY <1>1, <1>2, <2>2 DEF Retry, AttemptsLeft, Base, TypeOK
  <2> HIDE DEF o
  <2>4. JobTypes'
    BY <1>1, <2>1, <2>2, <2>3, ProcessingAssumption DEF Base, TypeOK, JobTypes
  <2>5. Live'
    BY <1>1, <2>1, <2>2, <2>3, ProcessingAssumption DEF Base, TypeOK, Live
  <2>6. QED  BY <2>4, <2>5 DEF Retry
<1>3. CASE holder[o] # w
  BY <1>3 DEF Retry, Base, TypeOK, Live, JobTypes
<1>4. QED  BY <1>2, <1>3

-----------------------------------------------------------------------------
(* Every step keeps the types. *)

LEMMA QueueStep ==
    ASSUME Base, NEW o \in Orders, Enqueue(o) \/ Promote(o) \/ LoseLock(o) \/ Stall(o)
    PROVE  Base'
<1> USE ProcessingAssumption
<1>1. CASE Enqueue(o)  BY <1>1 DEF Base, TypeOK, Live, Enqueue, runVars, moneyVars, tellVars
<1>2. CASE Promote(o)  BY <1>2 DEF Base, TypeOK, Live, Promote, runVars, moneyVars, tellVars
<1>3. CASE LoseLock(o)  BY <1>3 DEF Base, TypeOK, Live, LoseLock, runVars, moneyVars, tellVars
<1>4. CASE Stall(o)
  <2> USE DEF Stall, runVars, moneyVars, tellVars
  <2>1. stalls[o] <= MaxStalls /\ stalls[o] \in Nat  BY <1>4 DEF Base, TypeOK, Live
  <2>2. TypeOK'  BY <1>4, <2>1 DEF Base, TypeOK
  <2>3. Live'  BY <1>4, <2>1 DEF Base, TypeOK, Live
  <2>4. QED  BY <2>2, <2>3 DEF Base
<1>5. QED  BY <1>1, <1>2, <1>3, <1>4

LEMMA WorkerStep ==
    ASSUME Base, NEW w \in Workers,
           Take(w) \/ Work(w) \/ Throw(w) \/ ThrowAfter(w) \/ Crash(w)
    PROVE  Base'
<1> USE ProcessingAssumption
<1>a. at[w] # "idle" => on[w] \in Orders  BY Busy DEF Base
<1>1. CASE Take(w)
  BY <1>1 DEF Base, TypeOK, Live, Take, Steps, moneyVars, tellVars
<1>2. CASE ReadOrder(w)
  BY <1>2, <1>a, GotoKeepsTypes DEF ReadOrder, Skip, Base, TypeOK, Live, Steps, jobVars, moneyVars, tellVars
<1>3. CASE ReadPayment(w)
  BY <1>3, <1>a, GotoKeepsTypes DEF ReadPayment, Base, TypeOK, Live, Steps, jobVars, moneyVars, tellVars
<1>4. CASE Charge(w)
  BY <1>4, <1>a, GotoKeepsTypes, PayKeepsTypes DEF Charge, Base, TypeOK, Live, Steps, jobVars, tellVars
<1>5. CASE Confirm(w)
  BY <1>5, <1>a, GotoKeepsTypes, ConfirmKeepsTypes DEF Confirm, AfterConfirm, Base, TypeOK, Live, Steps, jobVars, moneyVars, tellVars
<1>6. CASE AddEmail(w)
  BY <1>6, <1>a, GotoKeepsTypes DEF AddEmail, Base, TypeOK, Live, Steps, jobVars, moneyVars
<1>7. CASE AddNotice(w)
  BY <1>7, <1>a, GotoKeepsTypes DEF AddNotice, Base, TypeOK, Live, Steps, jobVars, moneyVars
<1>8. CASE Finish(w)
  BY <1>8, <1>a, LeaveKeepsTypes DEF Finish, Base, TypeOK, Live, moneyVars, tellVars
<1>9. CASE Throw(w)
  <2>1. at[w] # "idle"  BY <1>9 DEF Throw
  <2>2. QED
    BY <1>9, <2>1, RetryKeepsJobs, LeaveKeepsTypes DEF Throw, Base, TypeOK, JobTypes, moneyVars, tellVars
<1>10. CASE ThrowAfter(w)
  <2>1. at[w] # "idle"  BY <1>10 DEF ThrowAfter
  <2>2. /\ status' \in [Orders -> Statuses]
        /\ paid' \subseteq Orders /\ charges' \in [Orders -> Nat]
    BY <1>10, <2>1, <1>a, PayKeepsTypes, ConfirmKeepsTypes DEF ThrowAfter, Base, TypeOK, moneyVars
  <2>3. QED
    BY <1>10, <2>1, <2>2, RetryKeepsJobs, LeaveKeepsTypes DEF ThrowAfter, Base, TypeOK, JobTypes, tellVars
<1>11. CASE Crash(w)
  BY <1>11, LeaveKeepsTypes DEF Crash, Base, TypeOK, Live, moneyVars, tellVars
<1>12. QED
  BY <1>1, <1>2, <1>3, <1>4, <1>5, <1>6, <1>7, <1>8, <1>9, <1>10, <1>11 DEF Work

LEMMA DecisionStep ==
    ASSUME Base, NEW o \in Orders, Decide(o), UNCHANGED workVars
    PROVE  Base'
<1>1. status' \in [Orders -> Statuses]
  BY DecisionsAssumption, SetStatusKeepsTypes DEF Decide, Base, TypeOK
<1>2. QED
  BY <1>1 DEF Base, TypeOK, Live, workVars, jobVars, runVars, moneyVars, tellVars

LEMMA BaseInit == Init => Base
  BY ProcessingAssumption DEF Init, Placed, Base, TypeOK, Live, Steps, Statuses

LEMMA BaseStep == Base /\ [Next]_vars => Base'
<1> SUFFICES ASSUME Base, [Next]_vars PROVE Base'  OBVIOUS
<1>1. CASE UNCHANGED vars
  BY <1>1 DEF Base, TypeOK, Live, vars, workVars, jobVars, runVars, moneyVars, tellVars
<1>2. QED  BY <1>1, QueueStep, WorkerStep, DecisionStep DEF Next, Process

\* The state of orders, jobs and workers has its types; in particular no job is tried
\* more often than it has attempts, also when its lock lapsed or the worker crashed.
THEOREM TypeCorrect == Spec => []TypeOK
<1>1. Spec => []Base  BY BaseInit, BaseStep, PTL DEF Spec
<1>2. Base => TypeOK  BY DEF Base
<1>3. QED  BY <1>1, <1>2, PTL

-----------------------------------------------------------------------------
(* Nothing is said of money that was not paid. *)

Paying == \A w \in Workers : at[w] \in {"confirm", "email", "notify"} => on[w] \in paid

PaidFirst == Paying /\ ToldOnlyPaid

LEMMA PaidFirstStep == Base /\ PaidFirst /\ [Next]_vars => PaidFirst'
<1> SUFFICES ASSUME Base, PaidFirst, [Next]_vars PROVE PaidFirst'  OBVIOUS
<1> USE DEF Base, TypeOK, PaidFirst, Paying, ToldOnlyPaid
<1>1. CASE UNCHANGED <<runVars, moneyVars, tellVars>>
  BY <1>1 DEF runVars, moneyVars, tellVars
<1>2. ASSUME NEW w \in Workers, at[w] # "idle" PROVE on[w] \in Orders  BY <1>2, Busy
<1>3. ASSUME NEW w \in Workers, Take(w) PROVE PaidFirst'
  BY <1>3 DEF Take, moneyVars, tellVars
<1>4. ASSUME NEW w \in Workers, Work(w) PROVE PaidFirst'
  <2>1. CASE ReadOrder(w)  BY <2>1 DEF ReadOrder, Skip, Goto, moneyVars, tellVars
  <2>2. CASE ReadPayment(w)  BY <2>2 DEF ReadPayment, Due, Goto, moneyVars, tellVars
  <2>3. CASE Charge(w)  BY <2>3, <1>2 DEF Charge, Pay, Goto, tellVars
  <2>4. CASE Confirm(w)  BY <2>4 DEF Confirm, AfterConfirm, Goto, moneyVars, tellVars
  <2>5. CASE AddEmail(w)  BY <2>5, <1>2 DEF AddEmail, Goto, moneyVars
  <2>6. CASE AddNotice(w)  BY <2>6, <1>2 DEF AddNotice, Goto, moneyVars
  <2>7. CASE Finish(w)  BY <2>7 DEF Finish, Leave, moneyVars, tellVars
  <2>8. QED  BY <1>4, <2>1, <2>2, <2>3, <2>4, <2>5, <2>6, <2>7 DEF Work
<1>5. ASSUME NEW w \in Workers, Throw(w) \/ ThrowAfter(w) \/ Crash(w) PROVE PaidFirst'
  <2>1. Leave(w) /\ UNCHANGED tellVars
    BY <1>5 DEF Throw, ThrowAfter, Crash, Retry
  <2>2. paid \subseteq paid'
    BY <1>5 DEF Throw, ThrowAfter, Crash, Pay, moneyVars
  <2>3. QED  BY <2>1, <2>2 DEF Leave, tellVars
<1>6. QED
  BY <1>1, <1>3, <1>4, <1>5
  DEF Next, Process, Enqueue, Promote, LoseLock, Stall, vars, workVars

\* "is confirmed and payment received": customers are told of a confirmation only when
\* their payment was written, for any number of workers running a job at once.
THEOREM NoWordBeforePayment == Spec => []ToldOnlyPaid
<1>1. Init => PaidFirst
  BY DEF Init, PaidFirst, Paying, ToldOnlyPaid
<1>2. Spec => [](Base /\ PaidFirst)
  BY <1>1, BaseInit, BaseStep, PaidFirstStep, PTL DEF Spec
<1>3. PaidFirst => ToldOnlyPaid  BY DEF PaidFirst
<1>4. QED  BY <1>2, <1>3, PTL

-----------------------------------------------------------------------------
(* A job is done when its order is. *)

PastConfirm == {"email", "notify", "finish"}
Handled ==
    /\ \A w \in Workers : at[w] \in PastConfirm => status[on[w]] # "PENDING"
    /\ CompletedIsHandled

\* Nobody makes an order PENDING again.
LEMMA NoReset ==
    ASSUME Base, [Next]_vars, "PENDING" \notin Decisions
    PROVE  \A o \in Orders : status[o] # "PENDING" => status'[o] # "PENDING"
<1> USE DEF Base, TypeOK
<1>1. ASSUME NEW o \in Orders, NEW s \in Statuses \ {"PENDING"}, SetStatus(o, s)
      PROVE  \A p \in Orders : status[p] # "PENDING" => status'[p] # "PENDING"
  BY <1>1 DEF SetStatus
<1>2. CASE UNCHANGED status  BY <1>2
<1>3. CASE \E o \in Orders : Decide(o)
  BY <1>1, <1>3, DecisionsAssumption DEF Decide
<1>4. CASE \E w \in Workers : Confirm(w) \/ ThrowAfter(w)
  <2>1. PICK w \in Workers : Confirm(w) \/ ThrowAfter(w)  BY <1>4
  <2>2. on[w] \in Orders  BY <2>1, Busy, ProcessingAssumption DEF Confirm, ThrowAfter
  <2>3. UNCHANGED status \/ SetStatus(on[w], "CONFIRMED")
    BY <2>1 DEF Confirm, ThrowAfter, ConfirmPending
  <2>4. QED  BY <1>1, <1>2, <2>2, <2>3 DEF Statuses
<1>5. QED
  BY <1>2, <1>3, <1>4
  DEF Next, Process, Enqueue, Promote, LoseLock, Stall, Take, Work, ReadOrder, ReadPayment,
      Charge, AddEmail, AddNotice, Finish, Throw, Crash, vars

LEMMA HandledStep ==
    ASSUME Base, Handled, [Next]_vars, "PENDING" \notin Decisions
    PROVE  Handled'
<1> USE DEF Base, TypeOK, Handled, CompletedIsHandled, PastConfirm
<1>1. \A o \in Orders : status[o] # "PENDING" => status'[o] # "PENDING"  BY NoReset
<1>2. ASSUME NEW w \in Workers, at[w] # "idle" PROVE on[w] \in Orders  BY <1>2, Busy
<1>3. CASE UNCHANGED <<jobVars, runVars>>
  BY <1>1, <1>2, <1>3 DEF jobVars, runVars
<1>4. ASSUME NEW o \in Orders, Enqueue(o) \/ Promote(o) \/ LoseLock(o) \/ Stall(o)
      PROVE  Handled'
  BY <1>4 DEF Enqueue, Promote, LoseLock, Stall, runVars
<1>5. ASSUME NEW w \in Workers, Take(w) PROVE Handled'
  BY <1>5 DEF Take
<1>6. ASSUME NEW w \in Workers, Work(w) PROVE Handled'
  <2>1. CASE ReadOrder(w)
    BY <1>2, <2>1 DEF ReadOrder, Unprocessed, Skip, Goto, jobVars
  <2>2. CASE ReadPayment(w) \/ Charge(w)
    BY <1>2, <2>2 DEF ReadPayment, Charge, Goto, jobVars
  <2>3. CASE Confirm(w)
    <3>1. on[w] \in Orders /\ status'[on[w]] # "PENDING"
      BY <1>1, <1>2, <2>3 DEF Confirm, ConfirmPending, SetStatus
    <3>2. QED  BY <1>1, <1>2, <2>3, <3>1 DEF Confirm, AfterConfirm, Goto, jobVars
  <2>4. CASE AddEmail(w) \/ AddNotice(w)
    BY <1>2, <2>4 DEF AddEmail, AddNotice, Goto, jobVars
  <2>5. CASE Finish(w)
    BY <1>2, <2>5 DEF Finish, Leave
  <2>6. QED  BY <1>6, <2>1, <2>2, <2>3, <2>4, <2>5 DEF Work
<1>7. ASSUME NEW w \in Workers, Throw(w) \/ ThrowAfter(w) \/ Crash(w) PROVE Handled'
  <2>1. /\ Leave(w)
        /\ \A o \in Orders : job'[o] = "completed" => job[o] = "completed"
    BY <1>7 DEF Throw, ThrowAfter, Crash, Retry
  <2>2. \A v \in Workers : at'[v] # "idle" => at'[v] = at[v] /\ on'[v] = on[v]
    BY <2>1 DEF Leave
  <2>3. QED  BY <1>1, <1>2, <2>1, <2>2
<1>8. QED
  BY <1>3, <1>4, <1>5, <1>6, <1>7 DEF Next, Process, vars, workVars

\* If nobody sets orders back to PENDING, a completed job has left its order processed,
\* whoever took it back from whom meanwhile: no order is dropped between two workers.
THEOREM CompletedJobsAreDone ==
    ASSUME "PENDING" \notin Decisions
    PROVE  Spec => []CompletedIsHandled
<1>1. Init => Handled
  BY DEF Init, Handled, CompletedIsHandled, PastConfirm
<1>2. Base /\ Handled /\ [Next]_vars => Handled'
  BY HandledStep
<1>3. Spec => [](Base /\ Handled)
  BY <1>1, <1>2, BaseInit, BaseStep, PTL DEF Spec
<1>4. Handled => CompletedIsHandled  BY DEF Handled
<1>5. QED  BY <1>3, <1>4, PTL

-----------------------------------------------------------------------------
(* One worker. *)

\* The worker charges an order that is not paid, and each paid order was charged once.
Single ==
    /\ \A w \in Workers : at[w] = "charge" => on[w] \notin paid
    /\ \A o \in Orders : charges[o] = (IF o \in paid THEN 1 ELSE 0)

LEMMA SingleStep ==
    ASSUME Base, Single, [Next]_vars, \A v, w \in Workers : v = w
    PROVE  Single'
<1> USE DEF Base, TypeOK, Single
<1>1. CASE UNCHANGED <<runVars, moneyVars>>  BY <1>1 DEF runVars, moneyVars
<1>2. ASSUME NEW w \in Workers, Take(w) PROVE Single'
  BY <1>2 DEF Take, moneyVars
<1>3. ASSUME NEW w \in Workers, at[w] # "idle" PROVE on[w] \in Orders  BY <1>3, Busy
<1>4. ASSUME NEW w \in Workers, at[w] = "charge", Pay(on[w]), at'[w] # "charge"
      PROVE  Single'
  <2>1. \A v \in Workers : at'[v] # "charge"  BY <1>4
  <2>2. QED  BY <1>3, <1>4, <2>1 DEF Pay
<1>5. ASSUME NEW w \in Workers, Work(w) PROVE Single'
  <2>1. CASE ReadOrder(w)  BY <2>1 DEF ReadOrder, Skip, Goto, moneyVars
  <2>2. CASE ReadPayment(w)  BY <2>2 DEF ReadPayment, Due, Goto, moneyVars
  <2>3. CASE Charge(w)  BY <1>4, <2>3 DEF Charge, Goto
  <2>4. CASE Confirm(w)  BY <2>4 DEF Confirm, AfterConfirm, Goto, moneyVars
  <2>5. CASE AddEmail(w) \/ AddNotice(w)
    BY <2>5 DEF AddEmail, AddNotice, Goto, moneyVars
  <2>6. CASE Finish(w)  BY <2>6 DEF Finish, Leave, moneyVars
  <2>7. QED  BY <1>5, <2>1, <2>2, <2>3, <2>4, <2>5, <2>6 DEF Work
<1>6. ASSUME NEW w \in Workers, Leave(w), UNCHANGED moneyVars PROVE Single'
  BY <1>6 DEF Leave, moneyVars
<1>7. ASSUME NEW w \in Workers, Throw(w) \/ ThrowAfter(w) \/ Crash(w) PROVE Single'
  <2>1. Leave(w)  BY <1>7 DEF Throw, ThrowAfter, Crash, Retry
  <2>2. UNCHANGED moneyVars \/ (at[w] = "charge" /\ Pay(on[w]))
    BY <1>7 DEF Throw, ThrowAfter, Crash
  <2>3. at'[w] = "idle"  BY <2>1 DEF Leave
  <2>4. QED  BY <1>4, <1>6, <2>1, <2>2, <2>3
<1>8. QED
  BY <1>1, <1>2, <1>5, <1>7
  DEF Next, Process, Enqueue, Promote, LoseLock, Stall, vars, workVars

\* "Prevents double-charging": with one worker process no order is charged twice, however
\* often its job is retried, stalls or is run by a worker that has lost its lock.
THEOREM NoDoubleCharge ==
    ASSUME \A v, w \in Workers : v = w
    PROVE  Spec => []ChargedOnce
<1>1. Init => Single
  BY DEF Init, Single
<1>2. Base /\ Single /\ [Next]_vars => Single'
  BY SingleStep
<1>3. Spec => [](Base /\ Single)
  BY <1>1, <1>2, BaseInit, BaseStep, PTL DEF Spec
<1>4. Single => ChargedOnce
  <2>1. ASSUME Single, NEW o \in Orders PROVE charges[o] = 0 \/ charges[o] = 1
    BY <2>1 DEF Single
  <2>2. ASSUME Single, NEW o \in Orders PROVE charges[o] <= 1
    BY <2>1, <2>2
  <2>3. QED  BY <2>2 DEF ChargedOnce
<1>5. QED  BY <1>3, <1>4, PTL

\* What the steps of a run have told the customer so far.
Telling ==
    \A w \in Workers :
        /\ at[w] \in {"readPayment", "charge", "confirm", "email"} => emails[on[w]] = 0
        /\ at[w] = "notify" => emails[on[w]] = 1 /\ notices[on[w]] = 0

PendingUntold == \A o \in Orders : status[o] = "PENDING" => emails[o] = 0

Untold == Telling /\ PendingUntold /\ OneConfirmation

LEMMA UntoldStep ==
    ASSUME Base, Handled, Untold, [Next]_vars,
           "PENDING" \notin Decisions, \A v, w \in Workers : v = w
    PROVE  Untold'
<1> USE DEF Base, TypeOK, Untold, Telling, PendingUntold, OneConfirmation
<1>1. \A o \in Orders : status[o] # "PENDING" => status'[o] # "PENDING"  BY NoReset
<1>2. ASSUME NEW w \in Workers, at[w] # "idle" PROVE on[w] \in Orders  BY <1>2, Busy
<1>3. CASE UNCHANGED <<runVars, tellVars>>
  BY <1>1, <1>2, <1>3 DEF runVars, tellVars
<1>4. ASSUME NEW w \in Workers, Leave(w), UNCHANGED tellVars PROVE Untold'
  BY <1>1, <1>4 DEF Leave, tellVars
<1>5. ASSUME NEW w \in Workers, Take(w) PROVE Untold'
  BY <1>1, <1>5 DEF Take, tellVars
<1>6. ASSUME NEW w \in Workers, Work(w) PROVE Untold'
  <2>1. CASE ReadOrder(w)
    BY <1>1, <1>2, <2>1 DEF ReadOrder, Unprocessed, Skip, Goto, tellVars
  <2>2. CASE ReadPayment(w)
    BY <1>1, <1>2, <2>2 DEF ReadPayment, Goto, tellVars
  <2>3. CASE Charge(w)
    BY <1>1, <1>2, <2>3 DEF Charge, Goto, tellVars
  <2>4. CASE Confirm(w)
    BY <1>1, <1>2, <2>4 DEF Confirm, AfterConfirm, Goto, tellVars
  <2>5. CASE AddEmail(w)
    <3>1. on[w] \in Orders /\ emails[on[w]] = 0 /\ status[on[w]] # "PENDING"
      BY <1>2, <2>5 DEF AddEmail, Handled, PastConfirm
    <3>2. notices[on[w]] = 0  BY <3>1
    <3>3. QED  BY <1>1, <2>5, <3>1, <3>2 DEF AddEmail, Goto
  <2>6. CASE AddNotice(w)
    <3>1. on[w] \in Orders /\ emails[on[w]] = 1 /\ notices[on[w]] = 0
      BY <1>2, <2>6 DEF AddNotice
    <3>2. QED  BY <1>1, <2>6, <3>1 DEF AddNotice, Goto
  <2>7. CASE Finish(w)  BY <1>4, <2>7 DEF Finish
  <2>8. QED  BY <1>6, <2>1, <2>2, <2>3, <2>4, <2>5, <2>6, <2>7 DEF Work
<1>7. ASSUME NEW w \in Workers, Throw(w) \/ ThrowAfter(w) \/ Crash(w) PROVE Untold'
  BY <1>4, <1>7 DEF Throw, ThrowAfter, Crash, Retry
<1>8. QED
  BY <1>3, <1>5, <1>6, <1>7
  DEF Next, Process, Enqueue, Promote, LoseLock, Stall, vars, workVars

\* With one worker process, and nobody setting orders back to PENDING, no customer is
\* sent the confirmation twice, whatever fails between the two adds and the job's end.
THEOREM ConfirmedOnce ==
    ASSUME "PENDING" \notin Decisions, \A v, w \in Workers : v = w
    PROVE  Spec => []OneConfirmation
<1>1. Init => Handled /\ Untold
  BY DEF Init, Handled, CompletedIsHandled, PastConfirm,
         Untold, Telling, PendingUntold, OneConfirmation
<1>2. Base /\ Handled /\ Untold /\ [Next]_vars => Handled' /\ Untold'
  BY HandledStep, UntoldStep
<1>3. Spec => [](Base /\ Handled /\ Untold)
  BY <1>1, <1>2, BaseInit, BaseStep, PTL DEF Spec
<1>4. Untold => OneConfirmation  BY DEF Untold
<1>5. QED  BY <1>3, <1>4, PTL
=============================================================================
