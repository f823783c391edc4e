----------------------------- MODULE Concierge ------------------------------
(***************************************************************************)
(* What the search ranks dishes by: an embedding of each dish's text and   *)
(* of its restaurant's name, in a column of its row.  A handler of a       *)
(* Catalogue that changes a dish queues an ingest job after its DEL; the   *)
(* ingest worker, one job at a time, reads the row, has the text embedded  *)
(* and stores the result.  The ingestion script, run by hand, does so for  *)
(* all dishes from one query at its start.  Texts are kept relative to the *)
(* row: "current", or "old" once it has changed.  A search only reads.     *)
(***************************************************************************)
EXTENDS Catalogue

CONSTANT Attempts    \* defaultJobOptions.attempts

ASSUME ConciergeAssumption ==
    /\ Attempts \in Nat \ {0}
    /\ None \notin Dishes \cup [dish : Dishes, left : Nat, stalled : BOOLEAN]

VARIABLES
    index,       \* per dish: the text that its embedding is of
    jobs,        \* the jobs that wait; two alike count as one
    running,     \* the job that the worker has
    held,        \* per ingester and dish: a text it has read and not yet stored
    unindexed    \* history: dishes whose embedding nothing is left to bring up to date

searchVars == <<index, jobs, running, held, unindexed>>
vars == <<catalogueVars, searchVars>>

Ingesters == {"worker", "script"}
Texts == {"none", "old", "current"}
Jobs == [dish : Dishes, left : 1..Attempts, stalled : BOOLEAN]
Live == {d \in Dishes : dish[d] \in {"on", "off"}}
Job(d) == [dish |-> d, left |-> Attempts, stalled |-> FALSE]

TypeOK ==
    /\ CatalogueOK
    /\ index \in [Dishes -> Texts]
    /\ jobs \subseteq Jobs
    /\ running = None \/ running \in Jobs
    /\ held \in [Ingesters -> [Dishes -> Texts]]
    /\ unindexed \subseteq Dishes

Init ==
    /\ CatalogueInit
    /\ index = [d \in Dishes |-> IF dish[d] = "on" THEN "current" ELSE "none"]
    /\ jobs = {} /\ running = None
    /\ held = [i \in Ingesters |-> [d \in Dishes |-> "none"]]
    /\ unindexed = {}

-----------------------------------------------------------------------------
(* The handlers that edit.                                                 *)

Aged(texts, ds) ==
    [d \in Dishes |-> IF d \in ds /\ texts[d] = "current" THEN "old" ELSE texts[d]]

\* The text of the dishes ds changes.
Retext(ds) ==
    /\ index' = Aged(index, ds)
    /\ held' = [i \in Ingesters |-> Aged(held[i], ds)]
    /\ UNCHANGED <<jobs, running>>
Gone(ds) ==
    /\ index' = [d \in Dishes |-> IF d \in ds THEN "none" ELSE index[d]]
    /\ unindexed' = unindexed \ ds
    /\ UNCHANGED <<jobs, running, held>>

EditDish(d) ==
    \/ CreateMenuItem(d) /\ UNCHANGED searchVars
    \/ UpdateMenuItem(d) /\ UNCHANGED searchVars
    \/ UpdateMenuItem(d) /\ Retext({d}) /\ UNCHANGED unindexed
    \/ DeleteMenuItem(d, {}) /\ Gone({d})

\* A new name is in the text of its dishes; no job is queued for them.
EditRestaurant(r) ==
    LET ds == {d \in Live : Of[d] = r} IN
    \/ CreateRestaurant(r) /\ UNCHANGED searchVars
    \/ UpdateRestaurant(r) /\ UNCHANGED searchVars
    \/ UpdateRestaurant(r) /\ Retext(ds) /\ unindexed' = unindexed \cup ds
    \/ DeleteRestaurant(r, {}) /\ Gone(ds)

OnceEach(d) == jobs' = IF running # None /\ running.dish = d THEN jobs ELSE jobs \cup {Job(d)}
Enqueue(d) == jobs' = jobs \cup {Job(d)}

\* After the DEL the handler adds the job, without waiting for it.
Finish(e) ==
    /\ Invalidate(e)
    /\ IF e.ingest = None THEN UNCHANGED jobs ELSE Enqueue(e.ingest)
    /\ UNCHANGED <<index, running, held, unindexed>>

\* The DEL or the add fails, which nobody hears of, or the process dies before it.
Cut(e) ==
    /\ Invalidate(e) \/ LoseInvalidation(e)
    /\ unindexed' = unindexed \cup ({e.ingest} \cap Dishes)
    /\ UNCHANGED <<index, jobs, running, held>>

-----------------------------------------------------------------------------
(* The ingest worker.                                                      *)

FirstOnly(j) == running = None /\ j \in jobs /\ j.left = Attempts
\* A failed job waits for its backoff: jobs are taken in any order.
Ready(j) == running = None /\ j \in jobs
Take(j) ==
    /\ Ready(j)
    /\ running' = j /\ jobs' = jobs \ {j}
    /\ UNCHANGED <<catalogueVars, index, held, unindexed>>

Hold(i, d, text) == held' = [held EXCEPT ![i][d] = text]

\* The dish may be gone; then the job is done.
ReadRow ==
    /\ running # None /\ held["worker"][running.dish] = "none"
    /\ IF running.dish \in Live
       THEN Hold("worker", running.dish, "current") /\ UNCHANGED running
       ELSE running' = None /\ UNCHANGED held
    /\ UNCHANGED <<catalogueVars, index, jobs, unindexed>>

\* The UPDATE finds the row or not.
Store(i, d) ==
    /\ held[i][d] # "none"
    /\ index' = IF d \in Live THEN [index EXCEPT ![d] = held[i][d]] ELSE index
    /\ Hold(i, d, "none")
    /\ unindexed' = CASE \A o \in Ingesters : held[o][d] # "old" -> unindexed \ {d}
                      [] held[i][d] = "old" /\ i = "script" -> unindexed \cup ({d} \cap Live)
                      [] OTHER -> unindexed
    /\ UNCHANGED catalogueVars

StoreJob ==
    /\ running # None /\ Store("worker", running.dish)
    /\ running' = None /\ UNCHANGED jobs

\* The job goes back to the queue, or stays failed.
Return(j, again) ==
    /\ running' = None
    /\ Hold("worker", j.dish, "none")
    /\ jobs' = IF again THEN jobs \cup {j} ELSE jobs
    /\ unindexed' = IF again THEN unindexed ELSE unindexed \cup ({j.dish} \cap Live)
    /\ UNCHANGED <<catalogueVars, index>>

RetryWithoutEnd == running # None /\ Return([running EXCEPT !.left = @ - 1], TRUE)
\* Postgres or the embedding service refuses.
FailJob ==
    /\ running # None
    /\ IF running.left > 1
       THEN Return([running EXCEPT !.left = @ - 1], TRUE)
       ELSE Return(running, FALSE)

\* The process dies, and the job is found stalled: once (maxStalledCount) it is run again.
Stall ==
    /\ running # None
    /\ Return([running EXCEPT !.stalled = TRUE], ~running.stalled)

-----------------------------------------------------------------------------
(* The ingestion script.                                                   *)

StartScript ==
    /\ \A d \in Dishes : held["script"][d] = "none"
    /\ held' = [held EXCEPT !["script"] =
                    [d \in Dishes |-> IF d \in Live THEN "current" ELSE "none"]]
    /\ UNCHANGED <<catalogueVars, index, jobs, running, unindexed>>

\* A dish that fails is skipped.
ScriptItem(d) ==
    \/ Store("script", d) /\ UNCHANGED <<jobs, running>>
    \/ /\ held["script"][d] # "none"
       /\ Hold("script", d, "none")
       /\ UNCHANGED <<catalogueVars, index, jobs, running, unindexed>>

Handlers == \E e \in edits : Finish(e)
Worker == (\E j \in jobs : Take(j)) \/ ReadRow \/ StoreJob

Next ==
    \/ \E d \in Dishes \cap Edited : EditDish(d)
    \/ \E r \in Restaurants \cap Edited : EditRestaurant(r)
    \/ Handlers \/ \E e \in edits : Cut(e)
    \/ Worker \/ FailJob \/ Stall
    \/ StartScript \/ \E d \in Dishes : ScriptItem(d)

Spec == Init /\ [][Next]_vars

\* A handler goes on after its UPDATE, and the worker while there is work.
FairSpec == Spec /\ WF_vars(Handlers) /\ WF_vars(Worker)
-----------------------------------------------------------------------------
Queued(d) == \E j \in jobs \cup ({running} \cap Jobs) : j.dish = d

\* A dish that the search ranks by an old text, or does not find at all, is one whose edit
\* still has its job to queue (menu.service.ts:120), a job for it waits or runs, or the
\* service gave it up: an add or a DEL failed, the job's attempts are used up, its
\* restaurant was renamed, or the script stored what it had read before an edit.
NoneForgotten ==
    \A d \in Live : \/ index[d] = "current" \/ Queued(d) \/ d \in unindexed
                    \/ \E e \in edits : e.ingest = d

\* When owners stop editing, the search ends up with the texts of all other dishes: no
\* chain of failures, stalled jobs and late stores leaves a dish waiting for ever.
IndexConverges ==
    <>[](edits = {}) =>
        \A d \in Dishes : <>[](d \in Live => index[d] = "current" \/ d \in unindexed)
=============================================================================
