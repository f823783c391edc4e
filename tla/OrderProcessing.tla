-------------------------- MODULE OrderProcessing --------------------------
(***************************************************************************)
(* The order queue and the worker process: BullMQ hands each job to a      *)
(* worker, which charges the order, confirms it and adds the e-mail and    *)
(* the notification, one action per await of processOrderJob.  BullMQ      *)
(* retries a run that throws and takes back a job whose lock has lapsed,   *)
(* while the run that held it may still be going on.                       *)
(***************************************************************************)
EXTENDS Integers, OrderStatus

CONSTANTS
    Workers,       \* instances of orderWorker, each with concurrency 1
    None,
    MaxAttempts,   \* defaultJobOptions.attempts
    MaxStalls,     \* defaultWorkerOptions.maxStalledCount
    Failing,       \* the steps whose call may throw without effect
    Losing,        \* the steps whose SQL may take effect and its answer be lost
    LocksLapse,    \* whether a live worker may lose the lock of its job
    MayCrash       \* whether the worker process may die

Steps == {"idle", "read", "readPayment", "charge", "confirm", "email", "notify", "finish"}

ASSUME ProcessingAssumption ==
    /\ None \notin Orders \cup Workers
    /\ MaxAttempts \in Nat \ {0} /\ MaxStalls \in Nat
    /\ Failing \subseteq Steps \ {"idle", "finish"}
    /\ Losing \subseteq {"charge", "confirm"}
    /\ LocksLapse \in BOOLEAN /\ MayCrash \in BOOLEAN

VARIABLES
    job, holder,        \* per order: where its job is, and the worker with its lock
    attempts, stalls,   \* per order: attemptsMade and stalledCounter of its job
    at, on,             \* per worker: its step and the order it works on
    paid, charges,      \* payments with status PAID; history: how often each was written
    emails, notices     \* per order: jobs added to the e-mail and notification queues

jobVars == <<job, holder, attempts, stalls>>
runVars == <<at, on>>
moneyVars == <<paid, charges>>
tellVars == <<emails, notices>>
workVars == <<jobVars, runVars, moneyVars, tellVars>>
vars == <<status, workVars>>

TypeOK ==
    /\ status \in [Orders -> Statuses]
    /\ job \in [Orders -> {"none", "waiting", "active", "delayed", "completed", "failed"}]
    /\ holder \in [Orders -> Workers \cup {None}]
    /\ attempts \in [Orders -> 0 .. MaxAttempts]
    /\ stalls \in [Orders -> 0 .. MaxStalls + 1]
    /\ at \in [Workers -> Steps]
    /\ on \in [Workers -> Orders \cup {None}]
    /\ \A w \in Workers : at[w] = "idle" <=> on[w] = None
    /\ paid \subseteq Orders
    /\ charges \in [Orders -> Nat] /\ emails \in [Orders -> Nat] /\ notices \in [Orders -> Nat]

Init ==
    /\ Placed
    /\ job = [o \in Orders |-> "none"] /\ holder = [o \in Orders |-> None]
    /\ attempts = [o \in Orders |-> 0] /\ stalls = [o \in Orders |-> 0]
    /\ at = [w \in Workers |-> "idle"] /\ on = [w \in Workers |-> None]
    /\ paid = {} /\ charges = [o \in Orders |-> 0]
    /\ emails = [o \in Orders |-> 0] /\ notices = [o \in Orders |-> 0]

-----------------------------------------------------------------------------
(* The queue. *)

\* The add of placeOrder; it may never come, if the API dies after COMMIT.
Enqueue(o) ==
    /\ job[o] = "none"
    /\ job' = [job EXCEPT ![o] = "waiting"]
    /\ UNCHANGED <<status, holder, attempts, stalls, runVars, moneyVars, tellVars>>

Take(w) ==
    /\ at[w] = "idle"
    /\ \E o \in Orders :
          /\ job[o] = "waiting"
          /\ job' = [job EXCEPT ![o] = "active"]
          /\ holder' = [holder EXCEPT ![o] = w]
          /\ on' = [on EXCEPT ![w] = o]
    /\ at' = [at EXCEPT ![w] = "read"]
    /\ UNCHANGED <<status, attempts, stalls, moneyVars, tellVars>>

\* The backoff of a failed attempt is over.
Promote(o) ==
    /\ job[o] = "delayed"
    /\ job' = [job EXCEPT ![o] = "waiting"]
    /\ UNCHANGED <<status, holder, attempts, stalls, runVars, moneyVars, tellVars>>

\* The worker could not renew the lock of its job in time.
LoseLock(o) ==
    /\ LocksLapse
    /\ holder[o] # None
    /\ holder' = [holder EXCEPT ![o] = None]
    /\ UNCHANGED <<status, job, attempts, stalls, runVars, moneyVars, tellVars>>

\* The stalled check finds an active job that nobody holds.
Stall(o) ==
    /\ job[o] = "active" /\ holder[o] = None
    /\ stalls' = [stalls EXCEPT ![o] = @ + 1]
    /\ job' = [job EXCEPT ![o] = IF stalls[o] < MaxStalls THEN "waiting" ELSE "failed"]
    /\ UNCHANGED <<status, holder, attempts, runVars, moneyVars, tellVars>>

-----------------------------------------------------------------------------
(* One run of processOrderJob. *)

Goto(w, next) == at' = [at EXCEPT ![w] = next] /\ UNCHANGED on

PollUntilPending == "read"
Skip == "finish"

HandleAny(o) == TRUE
Unprocessed(o) == status[o] = "PENDING"

\* An order that is not PENDING has been processed: the run returns.
ReadOrder(w) ==
    /\ at[w] = "read"
    /\ Goto(w, IF Unprocessed(on[w]) THEN "readPayment" ELSE Skip)
    /\ UNCHANGED <<status, jobVars, moneyVars, tellVars>>

AlwaysDue(o) == TRUE
Due(o) == o \notin paid

\* processPayment: an order that is PAID is not charged again.
ReadPayment(w) ==
    /\ at[w] = "readPayment"
    /\ Goto(w, IF Due(on[w]) THEN "charge" ELSE "confirm")
    /\ UNCHANGED <<status, jobVars, moneyVars, tellVars>>

PayLater(o) == UNCHANGED moneyVars

\* The rest of processPayment: the upsert of the payment in its transaction.
Pay(o) ==
    /\ paid' = paid \cup {o}
    /\ charges' = [charges EXCEPT ![o] = @ + 1]

Charge(w) ==
    /\ at[w] = "charge"
    /\ Pay(on[w])
    /\ Goto(w, "confirm")
    /\ UNCHANGED <<status, jobVars, tellVars>>

ConfirmLater(o) == UNCHANGED status
ConfirmAnyway(o) == SetStatus(o, "CONFIRMED")
ConfirmPending(o) == IF status[o] = "PENDING" THEN SetStatus(o, "CONFIRMED") ELSE UNCHANGED status

AfterConfirm == "email"

Confirm(w) ==
    /\ at[w] = "confirm"
    /\ ConfirmPending(on[w])
    /\ Goto(w, AfterConfirm)
    /\ UNCHANGED <<jobVars, moneyVars, tellVars>>

AddEmail(w) ==
    /\ at[w] = "email"
    /\ emails' = [emails EXCEPT ![on[w]] = @ + 1]
    /\ Goto(w, "notify")
    /\ UNCHANGED <<status, jobVars, moneyVars, notices>>

AddNotice(w) ==
    /\ at[w] = "notify"
    /\ notices' = [notices EXCEPT ![on[w]] = @ + 1]
    /\ Goto(w, "finish")
    /\ UNCHANGED <<status, jobVars, moneyVars, emails>>

Leave(w) ==
    /\ at' = [at EXCEPT ![w] = "idle"]
    /\ on' = [on EXCEPT ![w] = None]

\* The run returns.  A worker that has lost the lock cannot move the job any more.
Finish(w) ==
    /\ at[w] = "finish"
    /\ IF holder[on[w]] = w
       THEN /\ job' = [job EXCEPT ![on[w]] = "completed"]
            /\ holder' = [holder EXCEPT ![on[w]] = None]
       ELSE UNCHANGED <<job, holder>>
    /\ Leave(w)
    /\ UNCHANGED <<status, attempts, stalls, moneyVars, tellVars>>

OneMoreAttempt(n) == n <= MaxAttempts
AttemptsLeft(n) == n < MaxAttempts

\* The run throws: the job waits out its backoff, or has used its last attempt.
Retry(w) ==
    /\ IF holder[on[w]] = w
       THEN /\ attempts' = [attempts EXCEPT ![on[w]] = @ + 1]
            /\ job' = [job EXCEPT ![on[w]] =
                         IF AttemptsLeft(attempts'[on[w]]) THEN "delayed" ELSE "failed"]
            /\ holder' = [holder EXCEPT ![on[w]] = None]
       ELSE UNCHANGED <<attempts, job, holder>>
    /\ Leave(w)
    /\ UNCHANGED stalls

Throw(w) ==
    /\ at[w] \in Failing
    /\ Retry(w)
    /\ UNCHANGED <<status, moneyVars, tellVars>>

\* The connection breaks after Postgres committed.
ThrowAfter(w) ==
    /\ at[w] \in Losing
    /\ IF at[w] = "charge"
       THEN Pay(on[w]) /\ UNCHANGED status
       ELSE ConfirmPending(on[w]) /\ UNCHANGED moneyVars
    /\ Retry(w)
    /\ UNCHANGED tellVars

\* The worker process dies in a run; the restarted one holds no locks.
Crash(w) ==
    /\ MayCrash
    /\ at[w] # "idle"
    /\ holder' = [o \in Orders |-> IF holder[o] = w THEN None ELSE holder[o]]
    /\ Leave(w)
    /\ UNCHANGED <<status, job, attempts, stalls, moneyVars, tellVars>>

Work(w) ==
    \/ ReadOrder(w) \/ ReadPayment(w) \/ Charge(w) \/ Confirm(w)
    \/ AddEmail(w) \/ AddNotice(w) \/ Finish(w)

\* What the worker and BullMQ do, without the owner and the admin.
Process ==
    \/ \E o \in Orders : Enqueue(o) \/ Promote(o) \/ LoseLock(o) \/ Stall(o)
    \/ \E w \in Workers : Take(w) \/ Work(w) \/ Throw(w) \/ ThrowAfter(w) \/ Crash(w)

Next ==
    \/ Process
    \/ \E o \in Orders : Decide(o) /\ UNCHANGED workVars

Spec == Init /\ [][Next]_vars

\* Workers poll and run, the scheduler promotes delayed jobs and takes back stalled ones.
FairSpec ==
    /\ Spec
    /\ \A w \in Workers : WF_vars(Take(w)) /\ WF_vars(Work(w))
    /\ \A o \in Orders : WF_vars(Promote(o)) /\ WF_vars(Stall(o))
-----------------------------------------------------------------------------
\* README.md:29, "Prevents double-charging": with one worker process, as deployed
\* (docker-compose.yml), an order is charged once however often its job is run again.
ChargedOnce == \A o \in Orders : charges[o] <= 1

\* "is confirmed and payment received" (order.worker.ts:44) is only said of paid orders.
ToldOnlyPaid == \A o \in Orders : emails[o] + notices[o] > 0 => o \in paid

\* With one worker process no customer gets the confirmation twice, whatever is
\* retried, unless somebody sets the order back to PENDING.
OneConfirmation == \A o \in Orders : emails[o] <= 1 /\ notices[o] <= emails[o]

\* A completed job does not leave its order PENDING, unless somebody sets it back.
CompletedIsHandled == \A o \in Orders : job[o] = "completed" => status[o] # "PENDING"

\* However often workers fail, crash and lose locks, a queued job ends up completed
\* or in the failed set, where an operator sees it.
EveryJobSettles == \A o \in Orders : job[o] = "waiting" ~> job[o] \in {"completed", "failed"}
=============================================================================
