-------------------------- MODULE ConciergeProofs --------------------------
(***************************************************************************)
(* The index of the search, for every set of dishes and restaurants, any   *)
(* number of attempts and of edits under way: no dish is left with an old  *)
(* text, or without one, but for the losses that Concierge names.          *)
(***************************************************************************)
EXTENDS Concierge, FiniteSetTheorems, TLAPS

\* The types of the rows, the copies and the edits under way.
RowsInv == CatalogueOK /\ IsFiniteSet(edits)

SearchTyped ==
    /\ index \in [Dishes -> Texts]
    /\ jobs \subseteq Jobs
    /\ running = None \/ running \in Jobs
    /\ held \in [Ingesters -> [Dishes -> Texts]]
    /\ unindexed \subseteq Dishes

\* The worker holds a text of the dish of its job alone.
HeldIsRunning ==
    \A d \in Dishes : held["worker"][d] # "none" => running # None /\ running.dish = d

\* Something is left that will bring the text of d up to date, whatever the worker stores now.
Pending(d) ==
    \/ d \in unindexed
    \/ \E j \in jobs : j.dish = d
    \/ \E e \in edits : e.ingest = d

\* An edit overtook what the worker holds: then another job follows.
OldIsPending == \A d \in Live : held["worker"][d] = "old" => Pending(d)

SearchInv == SearchTyped /\ HeldIsRunning /\ OldIsPending /\ NoneForgotten
IInv == RowsInv /\ SearchInv

\* Once more what NoneForgotten says of a dish.
LEMMA ForgottenIsPending ==
    NoneForgotten <=>
        \A d \in Live : index[d] = "current" \/ Pending(d)
                            \/ (running \in Jobs /\ running.dish = d)
BY DEF NoneForgotten, Pending, Queued

\* How a step may leave a dish without forgetting it.
Same(d) ==
    /\ d \in Live /\ (Pending(d) => Pending(d)')
    /\ index'[d] = index[d]
    /\ held'["worker"][d] = "old" => held["worker"][d] = "old"
    /\ running \in Jobs /\ running.dish = d => running' \in Jobs /\ running'.dish = d
Started(d) == running' \in Jobs /\ running'.dish = d /\ held'["worker"][d] # "old"
Stored(d) == index'[d] = "current" /\ held'["worker"][d] # "old"

LEMMA NoneIsLost ==
    ASSUME SearchInv, SearchTyped', HeldIsRunning',
           \A d \in Live' : Pending(d)' \/ Same(d) \/ Started(d) \/ Stored(d)
    PROVE  SearchInv'
<1>1. OldIsPending'
  BY DEF SearchInv, OldIsPending, Same, Started, Stored
<1>2. \A d \in Live' : index'[d] = "current" \/ Pending(d)'
                           \/ (running' \in Jobs /\ running'.dish = d)
  BY ForgottenIsPending DEF SearchInv, Same, Started, Stored
<1>3. NoneForgotten'  BY <1>2 DEF NoneForgotten, Pending, Queued
<1>4. QED  BY <1>1, <1>3 DEF SearchInv

LEMMA TypedIngesters == "worker" \in Ingesters /\ "script" \in Ingesters
BY DEF Ingesters

LEMMA LiveSame == UNCHANGED dish => Live' = Live
BY DEF Live

-----------------------------------------------------------------------------
(* Rows and edits keep their types. *)

RowsTyped ==
    /\ restaurant \in [Restaurants -> {"new", "open", "closed", "gone"}]
    /\ dish \in [Dishes -> {"new", "on", "off", "gone"}]
    /\ stock \in [Dishes -> 0..MaxStock]
    /\ \A d \in Dishes : dish[d] \in {"on", "off"} => restaurant[Of[d]] \in {"open", "closed"}

\* No more edits of a copy are under way than MaxEdits: one more begins, or some end.
LEMMA EditsBounded ==
    ASSUME RowsInv,
           \/ edits' \in SUBSET edits
           \/ \E k \in Copies, d \in Dishes \cup {None} : Begin(k, d)
    PROVE  /\ edits' \subseteq [copy : Copies, ingest : Dishes \cup {None}] /\ IsFiniteSet(edits')
           /\ \A j \in Copies : Cardinality(Under(j)') <= MaxEdits
<1>1. ASSUME NEW j \in Copies
      PROVE  /\ IsFiniteSet(Under(j)) /\ Cardinality(Under(j)) \in Nat
             /\ Cardinality(Under(j)) <= MaxEdits
  <2>1. Under(j) \in SUBSET edits  BY DEF Under
  <2>2. QED  BY <2>1, FS_Subset, FS_CardinalityType DEF RowsInv, CatalogueOK
<1>2. CASE edits' \in SUBSET edits
  <2>1. IsFiniteSet(edits')  BY <1>2, FS_Subset DEF RowsInv
  <2>2. ASSUME NEW j \in Copies  PROVE Cardinality(Under(j)') <= MaxEdits
    <3>1. Under(j)' \in SUBSET Under(j)  BY <1>2 DEF Under
    <3>2. /\ Cardinality(Under(j)') \in Nat
          /\ Cardinality(Under(j)') <= Cardinality(Under(j))
      BY <1>1, <3>1, FS_Subset, FS_CardinalityType
    <3>3. QED  BY <1>1, <3>2, CatalogueAssumption
  <2>3. QED  BY <1>2, <2>1, <2>2 DEF RowsInv, CatalogueOK
<1>3. ASSUME NEW k \in Copies, NEW d \in Dishes \cup {None}, Begin(k, d)
      PROVE  /\ edits' \subseteq [copy : Copies, ingest : Dishes \cup {None}]
             /\ IsFiniteSet(edits')
             /\ \A j \in Copies : Cardinality(Under(j)') <= MaxEdits
  <2> DEFINE e == [copy |-> k, ingest |-> d]
  <2>1. /\ edits' = edits \cup {e} /\ IsFiniteSet(edits')
        /\ Under(k)' = Under(k) \cup {e} /\ \A j \in Copies \ {k} : Under(j)' = Under(j)
    BY <1>3, FS_AddElement DEF RowsInv, Begin, Under
  <2>2. edits' \subseteq [copy : Copies, ingest : Dishes \cup {None}]
    BY <2>1 DEF RowsInv, CatalogueOK
  <2> HIDE DEF e
  <2>3. Cardinality(Under(k) \cup {e}) \in {Cardinality(Under(k)), Cardinality(Under(k)) + 1}
    BY <1>1, FS_AddElement, Zenon
  <2>4. Cardinality(Under(k)) < MaxEdits  BY <1>3 DEF Begin
  <2>5. Cardinality(Under(k)') <= MaxEdits  BY <1>1, <2>1, <2>3, <2>4, CatalogueAssumption
  <2>6. QED  BY <1>1, <2>1, <2>2, <2>5
<1>4. QED  BY <1>2, <1>3

LEMMA EditTyped ==
    ASSUME RowsInv, NEW k \in Copies, NEW d \in Dishes \cup {None}, Begin(k, d), RowsTyped',
           raced' \in SUBSET Copies, UNCHANGED <<cache, readVars>>
    PROVE  RowsInv'
<1>1. /\ edits' \subseteq [copy : Copies, ingest : Dishes \cup {None}] /\ IsFiniteSet(edits')
      /\ \A j \in Copies : Cardinality(Under(j)') <= MaxEdits
  BY EditsBounded
<1>2. QED  BY <1>1 DEF RowsInv, CatalogueOK, RowsTyped, readVars

LEMMA RowsInvEdits ==
    ASSUME RowsInv,
           \/ \E d \in Dishes : CreateMenuItem(d) \/ UpdateMenuItem(d) \/ DeleteMenuItem(d, {})
           \/ \E r \in Restaurants :
                  CreateRestaurant(r) \/ UpdateRestaurant(r) \/ DeleteRestaurant(r, {})
    PROVE  RowsInv'
<1> USE CatalogueAssumption DEF RowsInv, CatalogueOK
<1>1. ASSUME NEW d \in Dishes, CreateMenuItem(d) \/ UpdateMenuItem(d) \/ DeleteMenuItem(d, {})
      PROVE  RowsInv'
  <2>1. PICK i \in Dishes \cup {None} : Edits(Of[d], i)
    BY <1>1 DEF CreateMenuItem, UpdateMenuItem, DeleteMenuItem
  <2>2. PICK s \in {"on", "off", "gone"}, n \in 0..MaxStock :
            SetDish(d, s, n) /\ (s # "gone" => restaurant[Of[d]] \in {"open", "closed"})
    <3>1. 0 \in 0..MaxStock  OBVIOUS
    <3>2. QED  BY <1>1, <3>1 DEF CreateMenuItem, UpdateMenuItem, DeleteMenuItem
  <2>3. RowsTyped'  BY <2>2 DEF SetDish, RowsTyped
  <2>4. /\ Begin(Of[d], i) /\ raced' \in SUBSET Copies /\ UNCHANGED <<cache, readVars>>
        /\ Of[d] \in Copies
    BY <2>1 DEF Edits, Copies
  <2>5. QED  BY <2>3, <2>4, EditTyped
<1>2. ASSUME NEW r \in Restaurants, CreateRestaurant(r) \/ UpdateRestaurant(r)
      PROVE  RowsInv'
  <2>1. PICK s \in {"open", "closed"} : SetRestaurant(r, s)
    BY <1>2 DEF CreateRestaurant, UpdateRestaurant
  <2>2. RowsTyped'  BY <2>1 DEF SetRestaurant, RowsTyped
  <2>3. /\ Begin(List, None) /\ raced' \in SUBSET Copies /\ UNCHANGED <<cache, readVars>>
        /\ List \in Copies
    BY <1>2 DEF CreateRestaurant, UpdateRestaurant, Edits, Copies
  <2>4. QED  BY <2>2, <2>3, EditTyped
<1>3. ASSUME NEW r \in Restaurants, DeleteRestaurant(r, {})
      PROVE  RowsInv'
  <2>1. RowsTyped'  BY <1>3 DEF DeleteRestaurant, RowsTyped
  <2>2. /\ Begin(List, None) /\ raced' \in SUBSET Copies /\ UNCHANGED <<cache, readVars>>
        /\ List \in Copies
    BY <1>3 DEF DeleteRestaurant, Orphan, Copies
  <2>3. QED  BY <2>1, <2>2, EditTyped
<1>4. QED  BY <1>1, <1>2, <1>3

LEMMA RowsInvEnds ==
    ASSUME RowsInv, NEW e \in edits, Invalidate(e) \/ LoseInvalidation(e)
    PROVE  RowsInv'
<1>1. e.copy \in Copies /\ edits' \in SUBSET edits
  BY DEF RowsInv, CatalogueOK, Invalidate, LoseInvalidation
<1>2. /\ edits' \subseteq [copy : Copies, ingest : Dishes \cup {None}] /\ IsFiniteSet(edits')
      /\ \A j \in Copies : Cardinality(Under(j)') <= MaxEdits
  BY <1>1, EditsBounded
<1>3. /\ cache' \in [Copies -> Rows \cup {None}] /\ raced' \subseteq Copies
      /\ UNCHANGED <<rowVars, readVars>>
  BY <1>1 DEF RowsInv, CatalogueOK, Invalidate, LoseInvalidation, Drop
<1>4. QED  BY <1>2, <1>3 DEF RowsInv, CatalogueOK, rowVars, readVars

LEMMA RowsInvStays == RowsInv /\ UNCHANGED catalogueVars => RowsInv'
BY DEF RowsInv, CatalogueOK, catalogueVars, rowVars, cacheVars, readVars, Under

LEMMA RowsInvInit == CatalogueInit => RowsInv
<1> SUFFICES ASSUME CatalogueInit PROVE RowsInv  OBVIOUS
<1>1. \A k \in Copies : Cardinality(Under(k)) <= MaxEdits
  <2>1. Cardinality({}) = 0  BY FS_EmptySet
  <2>2. \A k \in Copies : Under(k) = {}  BY DEF CatalogueInit, Under
  <2>3. QED  BY <2>1, <2>2, CatalogueAssumption
<1>2. RowsTyped
  <2>1. stock \in [Dishes -> 0..MaxStock]  BY CatalogueAssumption DEF CatalogueInit
  <2>2. QED  BY <2>1 DEF CatalogueInit, RowsTyped
<1>3. {} \in Rows  BY DEF Rows
<1>4. QED  BY <1>1, <1>2, <1>3, FS_EmptySet DEF CatalogueInit, RowsInv, CatalogueOK, RowsTyped

-----------------------------------------------------------------------------
(* The edits. *)

LEMMA AgedTyped ==
    ASSUME NEW texts \in [Dishes -> Texts], NEW ds
    PROVE  /\ Aged(texts, ds) \in [Dishes -> Texts]
           /\ \A d \in Dishes : /\ d \notin ds => Aged(texts, ds)[d] = texts[d]
                                /\ Aged(texts, ds)[d] = "none" <=> texts[d] = "none"
BY DEF Aged, Texts

LEMMA RetextKeeps ==
    ASSUME SearchInv, NEW ds \in SUBSET Dishes, Retext(ds),
           unindexed' \in SUBSET Dishes, unindexed \subseteq unindexed', edits \subseteq edits',
           Live' = Live, \A d \in ds : Pending(d)'
    PROVE  SearchInv'
<1> USE TypedIngesters DEF SearchInv, SearchTyped
<1>1. SearchTyped'
  BY AgedTyped DEF Retext
<1>2. \A d \in Dishes : held'["worker"][d] = Aged(held["worker"], ds)[d]
  BY DEF Retext
<1>3. HeldIsRunning'
  <2>1. \A d \in Dishes : held'["worker"][d] = "none" <=> held["worker"][d] = "none"
    BY <1>2, AgedTyped
  <2>2. QED  BY <2>1 DEF HeldIsRunning, Retext
<1>4. ASSUME NEW d \in Live \ ds
      PROVE  Same(d)
  <2>1. d \in Dishes  BY DEF Live
  <2>2. index'[d] = index[d] /\ held'["worker"][d] = held["worker"][d]
    BY <1>2, <2>1, AgedTyped DEF Retext
  <2>3. QED  BY <1>4, <2>2 DEF Same, Pending, Retext
<1>5. QED  BY <1>1, <1>3, <1>4, NoneIsLost

LEMMA UntouchedKeeps ==
    ASSUME SearchInv, UNCHANGED searchVars, edits \subseteq edits',
           \A d \in Live' : d \in Live \/ Pending(d)'
    PROVE  SearchInv'
<1>1. SearchTyped' /\ HeldIsRunning'
  BY DEF SearchInv, SearchTyped, HeldIsRunning, searchVars
<1>2. \A d \in Live : Same(d)
  BY DEF Same, Pending, searchVars
<1>3. QED  BY <1>1, <1>2, NoneIsLost

LEMMA GoneKeeps ==
    ASSUME SearchInv, NEW ds, Gone(ds), edits \subseteq edits', Live' \subseteq Live \ ds
    PROVE  SearchInv'
<1>1. SearchTyped' /\ HeldIsRunning'
  BY DEF SearchInv, SearchTyped, HeldIsRunning, Gone, Texts
<1>2. \A d \in Live \ ds : Same(d)
  BY DEF Same, Pending, Gone, Live
<1>3. QED  BY <1>1, <1>2, NoneIsLost

LEMMA EditDishKeeps ==
    ASSUME IInv, NEW d \in Dishes, EditDish(d)
    PROVE  IInv'
<1> USE DEF IInv
<1>1. RowsInv'
  BY RowsInvEdits DEF EditDish
<1>2. CASE CreateMenuItem(d) /\ UNCHANGED searchVars
  <2>1. Live' \subseteq Live \cup {d} /\ Pending(d)' /\ edits \subseteq edits'
    BY <1>2 DEF CreateMenuItem, SetDish, Edits, Begin, Live, Pending, RowsInv, CatalogueOK
  <2>2. QED  BY <1>1, <1>2, <2>1, UntouchedKeeps
<1>3. CASE UpdateMenuItem(d) /\ UNCHANGED searchVars
  <2>1. Live' = Live /\ edits \subseteq edits'
    BY <1>3 DEF UpdateMenuItem, SetDish, Edits, Begin, Live, RowsInv, CatalogueOK
  <2>2. QED  BY <1>1, <1>3, <2>1, UntouchedKeeps
<1>4. CASE UpdateMenuItem(d) /\ Retext({d}) /\ UNCHANGED unindexed
  <2>1. Live' = Live /\ edits \subseteq edits' /\ Pending(d)'
    BY <1>4 DEF UpdateMenuItem, SetDish, Edits, Begin, Live, Pending, RowsInv, CatalogueOK
  <2>2. QED  BY <1>1, <1>4, <2>1, RetextKeeps DEF SearchInv, SearchTyped
<1>5. CASE DeleteMenuItem(d, {}) /\ Gone({d})
  <2>1. Live' \subseteq Live \ {d} /\ edits \subseteq edits'
    BY <1>5 DEF DeleteMenuItem, SetDish, Edits, Begin, Live, RowsInv, CatalogueOK
  <2>2. QED  BY <1>1, <1>5, <2>1, GoneKeeps
<1>6. QED  BY <1>2, <1>3, <1>4, <1>5 DEF EditDish

LEMMA EditRestaurantKeeps ==
    ASSUME IInv, NEW r \in Restaurants, EditRestaurant(r)
    PROVE  IInv'
<1> DEFINE ds == {d \in Live : Of[d] = r}
<1> USE DEF IInv
<1>1. RowsInv'
  BY RowsInvEdits DEF EditRestaurant
<1>2. CASE (CreateRestaurant(r) \/ UpdateRestaurant(r)) /\ UNCHANGED searchVars
  <2>1. Live' = Live /\ edits \subseteq edits'
    BY <1>2, LiveSame DEF CreateRestaurant, UpdateRestaurant, SetRestaurant, Edits, Begin
  <2>2. QED  BY <1>1, <1>2, <2>1, UntouchedKeeps
<1>3. CASE UpdateRestaurant(r) /\ Retext(ds) /\ unindexed' = unindexed \cup ds
  <2>1. Live' = Live /\ edits \subseteq edits'
    BY <1>3, LiveSame DEF UpdateRestaurant, SetRestaurant, Edits, Begin
  <2>2. ds \in SUBSET Dishes  BY DEF Live
  <2>3. \A d \in ds : Pending(d)'  BY <1>3 DEF Pending
  <2>4. unindexed' \in SUBSET Dishes /\ unindexed \subseteq unindexed'
    BY <1>3, <2>2 DEF SearchInv, SearchTyped
  <2>5. SearchInv'
    <3> HIDE DEF ds
    <3>1. QED  BY <1>3, <2>1, <2>2, <2>3, <2>4, RetextKeeps
  <2>6. QED  BY <1>1, <2>5
<1>4. CASE DeleteRestaurant(r, {}) /\ Gone(ds)
  <2>1. Live' \subseteq Live \ ds /\ edits \subseteq edits'
    BY <1>4 DEF DeleteRestaurant, Begin, Live
  <2>2. SearchInv'
    <3> HIDE DEF ds
    <3>1. QED  BY <1>4, <2>1, GoneKeeps
  <2>3. QED  BY <1>1, <2>2
<1>5. QED  BY <1>2, <1>3, <1>4 DEF EditRestaurant

\* The job is added, or the dish is given up.
LEMMA HandlerKeeps ==
    ASSUME IInv, NEW e \in edits, Finish(e) \/ Cut(e)
    PROVE  IInv'
<1> USE DEF IInv
<1>1. RowsInv'
  BY RowsInvEnds DEF Finish, Cut
<1>2. /\ UNCHANGED <<dish, index, running, held>> /\ edits' = edits \ {e}
      /\ e.ingest \in Dishes \cup {None}
  BY DEF Finish, Cut, Invalidate, LoseInvalidation, Drop, rowVars, RowsInv, CatalogueOK
<1>3. /\ jobs' \subseteq Jobs /\ jobs \subseteq jobs'
      /\ unindexed' \subseteq Dishes /\ unindexed \subseteq unindexed'
      /\ \/ e.ingest = None
         \/ \E j \in jobs' : j.dish = e.ingest
         \/ e.ingest \in unindexed'
  <2>1. CASE Finish(e)
    <3>1. e.ingest # None => Job(e.ingest) \in Jobs /\ Job(e.ingest).dish = e.ingest
      BY <1>2, ConciergeAssumption DEF Job, Jobs
    <3>2. QED  BY <2>1, <3>1 DEF Finish, Enqueue, SearchInv, SearchTyped
  <2>2. CASE Cut(e)
    BY <1>2, <2>2 DEF Cut, SearchInv, SearchTyped
  <2>3. QED  BY <2>1, <2>2
<1>4. SearchTyped' /\ HeldIsRunning'
  BY <1>2, <1>3 DEF SearchInv, SearchTyped, HeldIsRunning
<1>5. \A d \in Live : Pending(d) => Pending(d)'
  BY <1>2, <1>3, ConciergeAssumption DEF Pending, Live
<1>6. \A d \in Live' : Same(d)
  BY <1>2, <1>5, LiveSame DEF Same
<1>7. QED  BY <1>1, <1>4, <1>6, NoneIsLost

-----------------------------------------------------------------------------
(* Worker and script. *)

LEMMA HoldTyped ==
    ASSUME SearchTyped, NEW i \in Ingesters, NEW d \in Dishes, NEW text \in Texts, Hold(i, d, text)
    PROVE  /\ held' \in [Ingesters -> [Dishes -> Texts]]
           /\ held'[i][d] = text
           /\ \A o \in Ingesters, x \in Dishes : o # i \/ x # d => held'[o][x] = held[o][x]
BY DEF SearchTyped, Hold

LEMMA TakeKeeps ==
    ASSUME SearchInv, UNCHANGED catalogueVars, NEW j \in jobs, Take(j)
    PROVE  SearchInv'
<1> USE DEF SearchInv, SearchTyped
<1>1. j \in Jobs  OBVIOUS
<1>2. SearchTyped'  BY <1>1 DEF Take
<1>3. \A d \in Dishes : held["worker"][d] = "none"  BY DEF HeldIsRunning, Take, Ready
<1>4. HeldIsRunning'  BY <1>3 DEF HeldIsRunning, Take
<1>5. ASSUME NEW d \in Live'
      PROVE  Same(d) \/ Started(d)
  <2>1. d \in Live /\ d \in Dishes
    BY LiveSame DEF Live, catalogueVars, rowVars
  <2>2. CASE j.dish = d  BY <1>1, <1>3, <2>1, <2>2 DEF Started, Take
  <2>3. CASE j.dish # d
    BY <2>1, <2>3, ConciergeAssumption DEF Same, Pending, Take, Ready, catalogueVars, cacheVars, Jobs
  <2>4. QED  BY <2>2, <2>3
<1>6. QED  BY <1>2, <1>4, <1>5, NoneIsLost

LEMMA ReadRowKeeps ==
    ASSUME SearchInv, ReadRow
    PROVE  SearchInv'
<1> USE DEF SearchInv, SearchTyped
<1>1. running \in Jobs /\ running.dish \in Dishes  BY DEF ReadRow, Jobs
<1>2. Live' = Live /\ UNCHANGED edits  BY LiveSame DEF ReadRow, catalogueVars, rowVars, cacheVars
<1>3. CASE running.dish \in Live
  <2>1. /\ held' \in [Ingesters -> [Dishes -> Texts]]
        /\ held'["worker"][running.dish] = "current"
        /\ \A x \in Dishes : x # running.dish => held'["worker"][x] = held["worker"][x]
    BY <1>1, <1>3, HoldTyped, TypedIngesters DEF ReadRow, Texts
  <2>2. SearchTyped' /\ HeldIsRunning'
    BY <1>1, <1>3, <2>1 DEF ReadRow, HeldIsRunning
  <2>3. \A d \in Live : Same(d)
    BY <1>1, <1>2, <1>3, <2>1 DEF ReadRow, Same, Pending, Live
  <2>4. QED  BY <1>2, <2>2, <2>3, NoneIsLost
<1>4. CASE running.dish \notin Live
  <2>1. \A d \in Dishes : held["worker"][d] = "none"  BY DEF HeldIsRunning, ReadRow
  <2>2. SearchTyped' /\ HeldIsRunning'
    BY <1>4, <2>1 DEF ReadRow, HeldIsRunning
  <2>3. \A d \in Live : Same(d)
    BY <1>2, <1>4 DEF ReadRow, Same, Pending
  <2>4. QED  BY <1>2, <2>2, <2>3, NoneIsLost
<1>5. QED  BY <1>3, <1>4

\* A text is stored: the dish is up to date with it, or another text is to come, or it is given up.
LEMMA StoreMoves ==
    ASSUME SearchInv, NEW i \in Ingesters, NEW d \in Dishes, Store(i, d)
    PROVE  /\ index' \in [Dishes -> Texts] /\ unindexed' \subseteq Dishes
           /\ held' \in [Ingesters -> [Dishes -> Texts]]
           /\ held'[i][d] = "none"
           /\ \A o \in Ingesters, x \in Dishes : o # i \/ x # d => held'[o][x] = held[o][x]
           /\ Live' = Live /\ UNCHANGED edits
           /\ \A x \in Live \ {d} : /\ index'[x] = index[x]
                                    /\ x \in unindexed => x \in unindexed'
           /\ d \in Live => \/ Stored(d)
                            \/ d \in unindexed'
                            \/ held["worker"][d] = "old" /\ UNCHANGED unindexed
<1> USE TypedIngesters DEF SearchInv, SearchTyped
<1>1. /\ held' \in [Ingesters -> [Dishes -> Texts]]
      /\ held'[i][d] = "none"
      /\ \A o \in Ingesters, x \in Dishes : o # i \/ x # d => held'[o][x] = held[o][x]
  <2>1. "none" \in Texts  BY DEF Texts
  <2>2. QED  BY <2>1, HoldTyped DEF Store
<1>2. Live' = Live /\ UNCHANGED edits  BY LiveSame DEF Store, catalogueVars, rowVars, cacheVars
<1>3. index' \in [Dishes -> Texts] /\ \A x \in Live \ {d} : index'[x] = index[x]
  BY DEF Store, Live
<1>4. unindexed' \subseteq Dishes /\ \A x \in Live \ {d} : x \in unindexed => x \in unindexed'
  BY DEF Store
<1>5. ASSUME d \in Live
      PROVE  \/ Stored(d) \/ d \in unindexed'
             \/ held["worker"][d] = "old" /\ UNCHANGED unindexed
  <2>1. index'[d] = held[i][d]  BY <1>5 DEF Store
  <2>2. held[i][d] \in {"old", "current"}  BY DEF Store, Texts
  <2>3. CASE \A o \in Ingesters : held[o][d] # "old"
    <3>1. held["worker"][d] # "old" /\ held[i][d] = "current"  BY <2>2, <2>3
    <3>2. held'["worker"][d] # "old"  BY <1>1, <3>1
    <3>3. QED  BY <2>1, <3>1, <3>2 DEF Stored
  <2>4. CASE ~ \A o \in Ingesters : held[o][d] # "old"
    <3>1. CASE held[i][d] = "old" /\ i = "script"
      BY <1>5, <2>4, <3>1 DEF Store
    <3>2. CASE ~(held[i][d] = "old" /\ i = "script")
      <4>1. UNCHANGED unindexed  BY <2>4, <3>2 DEF Store
      <4>2. held["worker"][d] = "old" \/ (i = "worker" /\ held[i][d] = "current")
        BY <2>2, <2>4, <3>2 DEF Ingesters
      <4>3. CASE i = "worker" /\ held[i][d] = "current"
        BY <1>1, <2>1, <4>3 DEF Stored
      <4>4. QED  BY <4>1, <4>2, <4>3
    <3>3. QED  BY <3>1, <3>2
  <2>5. QED  BY <2>3, <2>4
<1>6. QED  BY <1>1, <1>2, <1>3, <1>4, <1>5

LEMMA StoreKeeps ==
    ASSUME SearchInv, NEW i \in Ingesters, NEW d \in Dishes, Store(i, d), UNCHANGED jobs,
           i = "worker" => running \in Jobs /\ running.dish = d /\ running' = None,
           i = "script" => UNCHANGED running
    PROVE  SearchInv'
<1> USE TypedIngesters DEF SearchInv, SearchTyped
<1>1. SearchTyped'  BY StoreMoves DEF Ingesters
<1>2. HeldIsRunning'
  <2>1. \A x \in Dishes : held'["worker"][x] # "none" => held["worker"][x] # "none" /\ (x # d \/ i # "worker")
    BY StoreMoves
  <2>2. QED  BY <2>1 DEF HeldIsRunning, Ingesters
<1>3. \A x \in Dishes : held'["worker"][x] = "old" => held["worker"][x] = "old"
  BY StoreMoves
<1>4. ASSUME NEW x \in Live', x # d
      PROVE  Same(x)
  <2>1. x \in Live \ {d} /\ x \in Dishes  BY <1>4, StoreMoves DEF Live
  <2>2. Pending(x) => Pending(x)'  BY <2>1, StoreMoves DEF Pending
  <2>3. index'[x] = index[x]  BY <2>1, StoreMoves
  <2>4. QED  BY <1>3, <1>4, <2>1, <2>2, <2>3 DEF Same, Ingesters
<1>5. ASSUME d \in Live'
      PROVE  Stored(d) \/ Pending(d)'
  <2>1. d \in Live  BY <1>5, StoreMoves
  <2>2. CASE held["worker"][d] = "old" /\ UNCHANGED unindexed
    <3>1. Pending(d)  BY <2>1, <2>2 DEF OldIsPending
    <3>2. QED  BY <2>2, <3>1, StoreMoves DEF Pending
  <2>3. QED  BY <2>1, <2>2, StoreMoves DEF Pending
<1>6. QED  BY <1>1, <1>2, <1>4, <1>5, NoneIsLost

\* A run that fails is queued again, or its dish is given up.
LEMMA ReturnKeeps ==
    ASSUME SearchInv, running \in Jobs, NEW j \in Jobs, j.dish = running.dish,
           NEW again \in BOOLEAN, Return(j, again)
    PROVE  SearchInv'
<1> USE TypedIngesters DEF SearchInv, SearchTyped
<1>1. j.dish \in Dishes  BY DEF Jobs
<1>2. /\ held' \in [Ingesters -> [Dishes -> Texts]]
      /\ held'["worker"][j.dish] = "none"
      /\ \A x \in Dishes : x # j.dish => held'["worker"][x] = held["worker"][x]
  BY <1>1, HoldTyped DEF Return, Texts
<1>3. jobs' \subseteq Jobs /\ unindexed' \subseteq Dishes /\ jobs \subseteq jobs' /\ unindexed \subseteq unindexed'
  BY <1>1 DEF Return
<1>4. SearchTyped'  BY <1>2, <1>3 DEF Return
<1>5. HeldIsRunning'
  BY <1>2 DEF HeldIsRunning, Return
<1>6. Live' = Live /\ UNCHANGED <<edits, index>>
  BY LiveSame DEF Return, catalogueVars, rowVars, cacheVars
<1>7. ASSUME NEW d \in Live
      PROVE  Same(d) \/ Pending(d)'
  <2>1. CASE d = j.dish
    BY <2>1, <1>7 DEF Return, Pending
  <2>2. CASE d # j.dish
    <3>1. d \in Dishes  BY DEF Live
    <3>2. Pending(d) => Pending(d)'  BY <1>3, <1>6 DEF Pending
    <3>3. QED  BY <1>2, <1>6, <1>7, <2>2, <3>1, <3>2 DEF Same
  <2>3. QED  BY <2>1, <2>2
<1>8. QED  BY <1>4, <1>5, <1>6, <1>7, NoneIsLost

LEMMA FailureKeeps ==
    ASSUME SearchInv, FailJob \/ Stall
    PROVE  SearchInv'
<1>1. running \in Jobs  BY DEF SearchInv, SearchTyped, FailJob, Stall
<1>2. CASE FailJob
  <2>1. CASE running.left > 1
    <3> DEFINE j == [running EXCEPT !.left = @ - 1]
    <3>1. j \in Jobs /\ j.dish = running.dish
      BY <1>1, <2>1, ConciergeAssumption DEF Jobs
    <3>2. Return(j, TRUE)  BY <1>2, <2>1 DEF FailJob
    <3> HIDE DEF j
    <3>3. QED  BY <1>1, <3>1, <3>2, ReturnKeeps
  <2>2. CASE ~(running.left > 1)
    <3>1. Return(running, FALSE)  BY <1>2, <2>2 DEF FailJob
    <3>2. QED  BY <1>1, <3>1, ReturnKeeps
  <2>3. QED  BY <2>1, <2>2
<1>3. CASE Stall
  <2> DEFINE j == [running EXCEPT !.stalled = TRUE]
  <2>1. j \in Jobs /\ j.dish = running.dish  BY <1>1 DEF Jobs
  <2>2. Return(j, ~running.stalled)  BY <1>3 DEF Stall
  <2> HIDE DEF j
  <2>3. (~running.stalled) \in BOOLEAN  OBVIOUS
  <2>4. QED  BY <1>1, <2>1, <2>2, <2>3, ReturnKeeps
<1>4. QED  BY <1>2, <1>3

\* The script holds texts of its own; the worker's and the index stay.
LEMMA ScriptHoldKeeps ==
    ASSUME SearchInv, held' \in [Ingesters -> [Dishes -> Texts]], held'["worker"] = held["worker"],
           UNCHANGED <<catalogueVars, index, jobs, running, unindexed>>
    PROVE  SearchInv'
<1>1. SearchTyped' /\ HeldIsRunning'
  BY DEF SearchInv, SearchTyped, HeldIsRunning
<1>2. Live' = Live /\ UNCHANGED edits  BY LiveSame DEF catalogueVars, rowVars, cacheVars
<1>3. \A d \in Live : Same(d)  BY <1>2 DEF Same, Pending
<1>4. QED  BY <1>1, <1>2, <1>3, NoneIsLost

LEMMA ScriptKeeps ==
    ASSUME SearchInv, StartScript \/ \E d \in Dishes : ScriptItem(d)
    PROVE  SearchInv'
<1> USE TypedIngesters DEF SearchInv, SearchTyped
<1>1. CASE StartScript
  <2>1. held' \in [Ingesters -> [Dishes -> Texts]] /\ held'["worker"] = held["worker"]
    BY <1>1 DEF StartScript, Texts
  <2>2. QED  BY <1>1, <2>1, ScriptHoldKeeps DEF StartScript
<1>2. ASSUME NEW d \in Dishes, Store("script", d), UNCHANGED <<jobs, running>>
      PROVE  SearchInv'
  BY <1>2, StoreKeeps
<1>3. ASSUME NEW d \in Dishes, Hold("script", d, "none"),
             UNCHANGED <<catalogueVars, index, jobs, running, unindexed>>
      PROVE  SearchInv'
  <2>1. held' \in [Ingesters -> [Dishes -> Texts]] /\ held'["worker"] = held["worker"]
    BY <1>3 DEF Hold, Texts
  <2>2. QED  BY <1>3, <2>1, ScriptHoldKeeps
<1>4. QED  BY <1>1, <1>2, <1>3 DEF ScriptItem

LEMMA StepKeepsIInv == IInv /\ [Next]_vars => IInv'
<1> SUFFICES ASSUME IInv, [Next]_vars PROVE IInv'  OBVIOUS
<1>1. ASSUME UNCHANGED catalogueVars, SearchInv'
      PROVE  IInv'
  BY <1>1, RowsInvStays DEF IInv
<1>2. ASSUME NEW d \in Dishes, EditDish(d)
      PROVE  IInv'
  BY <1>2, EditDishKeeps
<1>3. ASSUME NEW r \in Restaurants, EditRestaurant(r)
      PROVE  IInv'
  BY <1>3, EditRestaurantKeeps
<1>4. ASSUME NEW e \in edits, Finish(e) \/ Cut(e)
      PROVE  IInv'
  BY <1>4, HandlerKeeps
<1>5. CASE Worker
  <2>1. UNCHANGED catalogueVars  BY <1>5 DEF Worker, Take, ReadRow, StoreJob, Store
  <2>2. CASE \E j \in jobs : Take(j)  BY <1>1, <2>1, <2>2, TakeKeeps DEF IInv
  <2>3. CASE ReadRow  BY <1>1, <2>1, <2>3, ReadRowKeeps DEF IInv
  <2>4. CASE StoreJob
    <3>1. running \in Jobs /\ running.dish \in Dishes
      BY <2>4 DEF StoreJob, IInv, SearchInv, SearchTyped, Jobs
    <3>2. SearchInv'
      BY <2>4, <3>1, StoreKeeps, TypedIngesters DEF StoreJob, IInv
    <3>3. QED  BY <1>1, <2>1, <3>2
  <2>5. QED  BY <1>5, <2>2, <2>3, <2>4 DEF Worker
<1>6. CASE FailJob \/ Stall
  <2>1. UNCHANGED catalogueVars  BY <1>6 DEF FailJob, Stall, Return
  <2>2. QED  BY <1>1, <1>6, <2>1, FailureKeeps DEF IInv
<1>7. CASE StartScript \/ \E d \in Dishes : ScriptItem(d)
  <2>1. UNCHANGED catalogueVars  BY <1>7 DEF StartScript, ScriptItem, Store
  <2>2. QED  BY <1>1, <1>7, <2>1, ScriptKeeps DEF IInv
<1>8. CASE UNCHANGED vars
  <2>1. UNCHANGED catalogueVars /\ UNCHANGED searchVars  BY <1>8 DEF vars
  <2>2. Live' = Live /\ UNCHANGED edits  BY <2>1, LiveSame DEF catalogueVars, rowVars, cacheVars
  <2>3. QED  BY <1>1, <2>1, <2>2, UntouchedKeeps DEF IInv
<1>9. QED  BY <1>2, <1>3, <1>4, <1>5, <1>6, <1>7, <1>8 DEF Next, Handlers

LEMMA Invariant == Spec => []IInv
<1>1. Init => IInv
  <2> SUFFICES ASSUME Init PROVE IInv  OBVIOUS
  <2>1. RowsInv  BY RowsInvInit DEF Init
  <2>2. SearchTyped  BY DEF Init, SearchTyped, Texts
  <2>3. \A d \in Dishes : held["worker"][d] = "none"  BY DEF Init, Ingesters
  <2>4. HeldIsRunning /\ OldIsPending  BY <2>3 DEF HeldIsRunning, OldIsPending, Live
  <2>5. \A d \in Live : index[d] = "current"
    BY DEF Init, Live, CatalogueInit
  <2>6. QED  BY <2>1, <2>2, <2>4, <2>5 DEF IInv, SearchInv, NoneForgotten
<1>2. QED  BY <1>1, StepKeepsIInv, PTL DEF Spec

-----------------------------------------------------------------------------
\* Rows, copies, jobs, index and what is held keep their types: among others no job has more
\* attempts than it began with, nor less than one.
THEOREM TypeCorrect == Spec => []TypeOK
<1>1. IInv => TypeOK
  BY DEF IInv, RowsInv, SearchInv, SearchTyped, TypeOK
<1>2. QED  BY <1>1, Invariant, PTL

\* A dish that the search ranks by an old text, or does not find, has its job to come,
\* waiting or running, or is one that the service gave up: whatever worker, script, edits
\* and failures do to each other (menu.service.ts:120, ingest.worker.ts).
THEOREM NoDishIsForgotten == Spec => []NoneForgotten
<1>1. IInv => NoneForgotten  BY DEF IInv, SearchInv
<1>2. QED  BY <1>1, Invariant, PTL
=============================================================================
