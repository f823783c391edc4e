-------------------------- MODULE StorefrontProofs --------------------------
(***************************************************************************)
(* What the storefront guarantees for every set of dishes and restaurants, *)
(* any number of readers and of edits under way: no basket mixes           *)
(* restaurants, and an old copy has one of the known reasons.              *)
(***************************************************************************)
EXTENDS Storefront, FiniteSetTheorems, TLAPS

-----------------------------------------------------------------------------
(* The rows and their copies: an invariant of Catalogue, step by step.       *)

\* What a reader is about to store was current when an edit could still see it do so.
SelectedIsCurrent ==
    \A g \in Readers :
        step[g] = "fill" => Shows(asked[g], list[g], Ordered) \/ asked[g] \in raced

CatalogueInv ==
    /\ CatalogueOK /\ IsFiniteSet(edits)
    /\ CopyIsCurrent /\ SelectedIsCurrent

\* A step that leaves alone what a query for j returns; what rows selected before it show
\* after it.
OnSaleNext(j) == {d \in Dishes : Of[d] = j /\ dish'[d] = "on"}
OpenNext == {r \in Restaurants : restaurant'[r] = "open"}
SameRows(j) ==
    /\ OnSaleNext(j) = OnSale(j)
    /\ \A d \in OnSale(j) : stock'[d] = stock[d]
    /\ j = List => OpenNext = Current(List)

ShowsNext(j, rows) ==
    IF j = List THEN rows = OpenNext
    ELSE /\ rows \subseteq Items /\ Names(rows) = OnSaleNext(j)
         /\ \A i \in rows : \/ i.left = stock'[i.dish]
                            \/ i.left > stock'[i.dish] /\ i.dish \in Ordered'

LEMMA ShowsStays ==
    ASSUME NEW j \in Copies, NEW rows, Shows(j, rows, Ordered), SameRows(j),
           UNCHANGED orders
    PROVE  ShowsNext(j, rows)
<1>1. CASE j = List  BY <1>1 DEF Shows, ShowsNext, SameRows
<1>2. CASE j # List
  <2>1. rows \subseteq Items /\ Names(rows) = OnSale(j)  BY <1>2 DEF Shows
  <2>2. \A i \in rows : i.dish \in Names(rows)  BY <2>1 DEF Names, Items
  <2>3. \A i \in rows : stock'[i.dish] = stock[i.dish]  BY <2>1, <2>2 DEF SameRows
  <2>4. Ordered' = Ordered  BY DEF Ordered
  <2>5. QED  BY <1>2, <2>1, <2>3, <2>4 DEF Shows, ShowsNext, SameRows
<1>3. QED  BY <1>1, <1>2

LEMMA RowsStay ==
    ASSUME UNCHANGED <<rowVars, orders>>, NEW j \in Copies, NEW rows, Shows(j, rows, Ordered)
    PROVE  ShowsNext(j, rows)
<1>1. SameRows(j)  BY DEF rowVars, SameRows, OnSale, OnSaleNext, Current, OpenNext
<1>2. QED  BY <1>1, ShowsStays

LEMMA NextCopies ==
    ASSUME \A j \in Copies : \/ cache'[j] = None \/ ShowsNext(j, cache'[j])
                             \/ Under(j)' # {} \/ j \in raced'
    PROVE  CopyIsCurrent'
BY DEF CopyIsCurrent, Shows, ShowsNext, Names, OnSale, OnSaleNext, Current, OpenNext

LEMMA NextSelections ==
    ASSUME \A g \in Readers :
              step'[g] = "fill" => ShowsNext(asked'[g], list'[g]) \/ asked'[g] \in raced'
    PROVE  SelectedIsCurrent'
<1> SUFFICES ASSUME NEW g \in Readers, step'[g] = "fill"
             PROVE  (Shows(asked[g], list[g], Ordered) \/ asked[g] \in raced)'
  BY DEF SelectedIsCurrent
<1>1. ShowsNext(asked'[g], list'[g]) \/ asked'[g] \in raced'  OBVIOUS
<1>2. QED  BY <1>1 DEF Shows, ShowsNext, Names, OnSale, OnSaleNext, Current, OpenNext

LEMMA CurrentShows ==
    ASSUME NEW k \in Copies, CatalogueOK
    PROVE  Shows(k, Current(k), Ordered)
<1>1. CASE k = List  BY <1>1 DEF Shows
<1>2. CASE k # List
  <2>1. Current(k) = Menu(k)  BY <1>2 DEF Current
  <2>2. Menu(k) \subseteq Items  BY DEF Menu, OnSale, Items, CatalogueOK
  <2>3. Names(Menu(k)) = OnSale(k)
    <3>1. \A d \in OnSale(k) : [dish |-> d, left |-> stock[d]].dish = d  OBVIOUS
    <3>2. \A i \in Menu(k) : \E d \in OnSale(k) : i.dish = d  BY DEF Menu
    <3>3. \A d \in OnSale(k) : \E i \in Menu(k) : i.dish = d  BY <3>1 DEF Menu
    <3>4. OnSale(k) \subseteq Dishes  BY DEF OnSale
    <3>5. QED  BY <3>2, <3>3, <3>4 DEF Names
  <2>4. \A i \in Menu(k) : i.left = stock[i.dish]  BY DEF Menu
  <2>5. QED  BY <1>2, <2>1, <2>2, <2>3, <2>4 DEF Shows
<1>3. QED  BY <1>1, <1>2

LEMMA CurrentIsRows ==
    ASSUME NEW k \in Copies, CatalogueOK
    PROVE  Current(k) \in Rows
<1>1. Menu(k) \in SUBSET Items  BY DEF Menu, OnSale, Items, CatalogueOK
<1>2. CASE k = List  BY <1>2 DEF Current, Rows
<1>3. CASE k # List  BY <1>1, <1>3 DEF Current, Rows
<1>4. QED  BY <1>2, <1>3

\* The rows of one copy change, and perhaps those of copies that are marked at once.
RowsTyped ==
    /\ restaurant \in [Restaurants -> {"new", "open", "closed", "gone"}]
    /\ dish \in [Dishes -> {"new", "on", "off", "gone"}]
    /\ stock \in [Dishes -> 0..MaxStock]
    /\ \A d \in Dishes : dish[d] \in {"on", "off"} => restaurant[Of[d]] \in {"open", "closed"}

LEMMA EditKeeps ==
    ASSUME CatalogueInv, NEW k \in Copies, NEW d \in Dishes \cup {None}, Begin(k, d),
           UNCHANGED <<cache, readVars, orders>>, RowsTyped',
           raced' \in SUBSET Copies, raced \subseteq raced', Filling(k) => k \in raced',
           \A j \in Copies \ {k} : SameRows(j) \/ j \in raced'
    PROVE  CatalogueInv'
<1> DEFINE e == [copy |-> k, ingest |-> d]
<1>1. /\ edits' = edits \cup {e} /\ IsFiniteSet(edits')
      /\ Under(k)' = Under(k) \cup {e} /\ \A j \in Copies \ {k} : Under(j)' = Under(j)
  BY FS_AddElement DEF CatalogueInv, Begin, Under
<1>2. \A j \in Copies : Cardinality(Under(j)') <= MaxEdits
  <2> HIDE DEF e
  <2>1. IsFiniteSet(Under(k))
    <3>1. Under(k) \in SUBSET edits  BY DEF Under
    <3>2. QED  BY <3>1, FS_Subset DEF CatalogueInv
  <2>2. Cardinality(Under(k)) \in Nat  BY <2>1, FS_CardinalityType
  <2>3. Cardinality(Under(k)') <= Cardinality(Under(k)) + 1
    <3>1. Cardinality(Under(k) \cup {e}) \in {Cardinality(Under(k)), Cardinality(Under(k)) + 1}
      BY <2>1, FS_AddElement, Zenon
    <3>2. QED  BY <1>1, <2>2, <3>1
  <2>4. Cardinality(Under(k)') \in Nat
    BY <1>1, <2>1, FS_AddElement, FS_CardinalityType
  <2>5. Cardinality(Under(k)') <= MaxEdits
    BY <2>2, <2>3, <2>4, CatalogueAssumption DEF Begin
  <2>6. QED  BY <1>1, <2>5 DEF CatalogueInv, CatalogueOK
<1>3. CatalogueOK'
  <2>1. edits' \subseteq [copy : Copies, ingest : Dishes \cup {None}]
    BY <1>1 DEF CatalogueInv, CatalogueOK
  <2>2. QED  BY <1>2, <2>1 DEF CatalogueInv, CatalogueOK, RowsTyped, readVars
<1>4. CopyIsCurrent'
  <2>1. ASSUME NEW j \in Copies
        PROVE  \/ cache'[j] = None \/ ShowsNext(j, cache'[j])
               \/ Under(j)' # {} \/ j \in raced'
    <3>1. CASE j = k  BY <1>1, <3>1
    <3>2. CASE j # k
      <4>1. \/ cache[j] = None \/ Shows(j, cache[j], Ordered) \/ Under(j) # {} \/ j \in raced
        BY DEF CatalogueInv, CopyIsCurrent
      <4>2. QED  BY <1>1, <3>2, <4>1, ShowsStays
    <3>3. QED  BY <3>1, <3>2
  <2>2. QED  BY <2>1, NextCopies
<1>5. SelectedIsCurrent'
  <2>1. ASSUME NEW g \in Readers, step[g] = "fill"
        PROVE  ShowsNext(asked[g], list[g]) \/ asked[g] \in raced'
    <3>1. asked[g] \in Copies  BY <2>1 DEF CatalogueInv, CatalogueOK
    <3>2. CASE asked[g] = k  BY <2>1, <3>2 DEF Filling
    <3>3. CASE asked[g] # k
      <4>1. Shows(asked[g], list[g], Ordered) \/ asked[g] \in raced'
        BY <2>1 DEF CatalogueInv, SelectedIsCurrent
      <4>2. QED  BY <3>1, <3>3, <4>1, ShowsStays
    <3>4. QED  BY <3>2, <3>3
  <2>2. UNCHANGED <<step, asked, list>>  BY DEF readVars
  <2>3. QED  BY <2>1, <2>2, NextSelections
<1>6. QED  BY <1>1, <1>3, <1>4, <1>5 DEF CatalogueInv

LEMMA MarksFilling ==
    ASSUME CatalogueInv, NEW k \in Copies, NEW d, Edits(k, d)
    PROVE  /\ UNCHANGED <<cache, readVars>> /\ Begin(k, d)
           /\ raced' \in SUBSET Copies /\ raced \subseteq raced' /\ (Filling(k) => k \in raced')
BY DEF CatalogueInv, CatalogueOK, Edits

LEMMA DishEditKeeps ==
    ASSUME CatalogueInv, NEW d \in Dishes, NEW i \in Dishes \cup {None},
           NEW s \in {"on", "off", "gone"}, NEW n \in 0..MaxStock, SetDish(d, s, n),
           s \in {"on", "off"} => restaurant[Of[d]] \in {"open", "closed"},
           Edits(Of[d], i), UNCHANGED orders
    PROVE  CatalogueInv'
<1> USE CatalogueAssumption
<1>1. Of[d] \in Copies  BY DEF Copies
<1>2. RowsTyped'  BY DEF CatalogueInv, CatalogueOK, RowsTyped, SetDish
<1>3. ASSUME NEW j \in Copies \ {Of[d]}
      PROVE  SameRows(j)
  <2>1. \A x \in Dishes : Of[x] = j => dish'[x] = dish[x] /\ stock'[x] = stock[x]
    BY <1>3 DEF SetDish, CatalogueInv, CatalogueOK
  <2>2. OnSaleNext(j) = OnSale(j)  BY <2>1 DEF OnSale, OnSaleNext
  <2>3. OpenNext = Current(List)  BY DEF Current, OpenNext, SetDish
  <2>4. QED  BY <2>1, <2>2, <2>3 DEF SameRows, OnSale
<1>4. QED  BY <1>1, <1>2, <1>3, EditKeeps, MarksFilling

LEMMA RestaurantEditKeeps ==
    ASSUME CatalogueInv, NEW r \in Restaurants, NEW s \in {"open", "closed"},
           SetRestaurant(r, s), Edits(List, None), UNCHANGED orders
    PROVE  CatalogueInv'
<1> USE CatalogueAssumption
<1>1. List \in Copies  BY DEF Copies
<1>2. RowsTyped'  BY DEF CatalogueInv, CatalogueOK, RowsTyped, SetRestaurant
<1>3. ASSUME NEW j \in Copies \ {List}
      PROVE  SameRows(j)
  BY <1>3 DEF SetRestaurant, SameRows, OnSale, OnSaleNext
<1>4. QED  BY <1>1, <1>2, <1>3, EditKeeps, MarksFilling

LEMMA DeletionKeeps ==
    ASSUME CatalogueInv, NEW r \in Restaurants, NEW ordered, DeleteRestaurant(r, ordered),
           UNCHANGED orders
    PROVE  CatalogueInv'
<1> USE CatalogueAssumption
<1>1. List \in Copies /\ r \in Copies  BY DEF Copies
<1>2. RowsTyped'  BY DEF CatalogueInv, CatalogueOK, RowsTyped, DeleteRestaurant
<1>3. /\ raced' \in SUBSET Copies /\ raced \subseteq raced'
      /\ r \in raced' /\ (Filling(List) => List \in raced')
  BY <1>1 DEF CatalogueInv, CatalogueOK, DeleteRestaurant, Orphan
<1>4. ASSUME NEW j \in Copies \ {List}
      PROVE  SameRows(j) \/ j \in raced'
  BY <1>3, <1>4
  DEF DeleteRestaurant, SameRows, OnSale, OnSaleNext, Copies, CatalogueInv, CatalogueOK
<1>5. QED  BY <1>1, <1>2, <1>3, <1>4, EditKeeps DEF DeleteRestaurant

\* The handlers that edit, up to their UPDATE.
DishEdit(d, ordered) == CreateMenuItem(d) \/ UpdateMenuItem(d) \/ DeleteMenuItem(d, ordered)
RestaurantEdit(r, ordered) ==
    CreateRestaurant(r) \/ UpdateRestaurant(r) \/ DeleteRestaurant(r, ordered)

LEMMA EditsKeep ==
    ASSUME CatalogueInv, NEW ordered,
           \/ \E d \in Dishes : DishEdit(d, ordered)
           \/ \E r \in Restaurants : RestaurantEdit(r, ordered),
           UNCHANGED orders
    PROVE  CatalogueInv'
<1>1. ASSUME NEW d \in Dishes, DishEdit(d, ordered)
      PROVE  CatalogueInv'
  <2>1. CASE CreateMenuItem(d)  BY <2>1, DishEditKeeps DEF CreateMenuItem
  <2>2. CASE UpdateMenuItem(d)
    <3>1. restaurant[Of[d]] \in {"open", "closed"}
      BY <2>2 DEF UpdateMenuItem, CatalogueInv, CatalogueOK
    <3>2. QED  BY <2>2, <3>1, DishEditKeeps DEF UpdateMenuItem
  <2>3. CASE DeleteMenuItem(d, ordered)
    BY <2>3, DishEditKeeps, CatalogueAssumption DEF DeleteMenuItem
  <2>4. QED  BY <1>1, <2>1, <2>2, <2>3 DEF DishEdit
<1>2. ASSUME NEW r \in Restaurants, RestaurantEdit(r, ordered)
      PROVE  CatalogueInv'
  BY <1>2, RestaurantEditKeeps, DeletionKeeps
  DEF RestaurantEdit, CreateRestaurant, UpdateRestaurant
<1>3. QED  BY <1>1, <1>2

-----------------------------------------------------------------------------
(* The end of a copy. *)

LEMMA DropKeeps ==
    ASSUME CatalogueInv, NEW k \in Copies, Drop(k), edits' \in SUBSET edits,
           UNCHANGED orders,
           \A j \in Copies \ {k} : Under(j)' = Under(j)
    PROVE  CatalogueInv'
<1>1. IsFiniteSet(edits')  BY FS_Subset DEF CatalogueInv
<1>2. \A j \in Copies : Cardinality(Under(j)') <= MaxEdits
  <2>1. IsFiniteSet(Under(k))  BY FS_Subset DEF CatalogueInv, Under
  <2>2. Under(k)' \in SUBSET Under(k)  BY DEF Under
  <2>3. /\ Cardinality(Under(k)) \in Nat /\ Cardinality(Under(k)') \in Nat
        /\ Cardinality(Under(k)') <= Cardinality(Under(k))
    BY <2>1, <2>2, FS_CardinalityType, FS_Subset
  <2>4. Cardinality(Under(k)) <= MaxEdits  BY DEF CatalogueInv, CatalogueOK
  <2>5. Cardinality(Under(k)') <= MaxEdits  BY <2>3, <2>4, CatalogueAssumption
  <2>6. QED  BY <2>5 DEF CatalogueInv, CatalogueOK
<1>3. UNCHANGED <<restaurant, dish, stock, asked, step, list>>  BY DEF Drop, rowVars, readVars
<1>4. \A j \in Copies : SameRows(j)  BY <1>3 DEF SameRows, OnSale, OnSaleNext, Current, OpenNext
<1>5. CatalogueOK'
  BY <1>2, <1>3 DEF CatalogueInv, CatalogueOK, Drop
<1>6. cache'[k] = None /\ \A j \in Copies \ {k} : cache'[j] = cache[j] /\ (j \in raced => j \in raced')
  BY DEF Drop, CatalogueInv, CatalogueOK
<1>7. CopyIsCurrent'
  <2>1. ASSUME NEW j \in Copies \ {k}
        PROVE  \/ cache'[j] = None \/ ShowsNext(j, cache'[j])
               \/ Under(j)' # {} \/ j \in raced'
    <3>1. \/ cache[j] = None \/ Shows(j, cache[j], Ordered) \/ Under(j) # {} \/ j \in raced
      BY DEF CatalogueInv, CopyIsCurrent
    <3>2. QED  BY <1>4, <1>6, <3>1, ShowsStays
  <2>2. QED  BY <1>6, <2>1, NextCopies
<1>8. SelectedIsCurrent'
  <2>1. ASSUME NEW g \in Readers, step[g] = "fill"
        PROVE  ShowsNext(asked[g], list[g]) \/ asked[g] \in raced'
    <3>1. asked[g] \in Copies  BY <2>1 DEF CatalogueInv, CatalogueOK
    <3>2. asked[g] \in raced => asked[g] \in raced'
      BY <2>1, <3>1 DEF Drop, Filling
    <3>3. Shows(asked[g], list[g], Ordered) \/ asked[g] \in raced
      BY <2>1 DEF CatalogueInv, SelectedIsCurrent
    <3>4. QED  BY <1>4, <3>1, <3>2, <3>3, ShowsStays
  <2>2. QED  BY <1>3, <2>1, NextSelections
<1>9. QED  BY <1>1, <1>5, <1>7, <1>8 DEF CatalogueInv

LEMMA InvalidationKeeps ==
    ASSUME CatalogueInv, NEW e \in edits, Invalidate(e), UNCHANGED orders
    PROVE  CatalogueInv'
<1>1. e.copy \in Copies  BY DEF CatalogueInv, CatalogueOK
<1>2. \A j \in Copies \ {e.copy} : Under(j)' = Under(j)  BY DEF Under, Invalidate
<1>3. QED  BY <1>1, <1>2, DropKeeps DEF Invalidate

LEMMA LossKeeps ==
    ASSUME CatalogueInv, NEW e \in edits, LoseInvalidation(e), UNCHANGED orders
    PROVE  CatalogueInv'
<1>1. e.copy \in Copies /\ IsFiniteSet(edits')
  BY FS_Subset DEF CatalogueInv, CatalogueOK, LoseInvalidation
<1>2. ASSUME NEW j \in Copies
      PROVE  /\ Under(j)' \subseteq Under(j) /\ (j # e.copy => Under(j)' = Under(j))
             /\ Cardinality(Under(j)') <= MaxEdits
  <2>1. Under(j)' \in SUBSET Under(j) /\ (j # e.copy => Under(j)' = Under(j))
    BY DEF Under, LoseInvalidation
  <2>2. IsFiniteSet(Under(j))  BY FS_Subset DEF CatalogueInv, Under
  <2>3. /\ Cardinality(Under(j)) \in Nat /\ Cardinality(Under(j)') \in Nat
        /\ Cardinality(Under(j)') <= Cardinality(Under(j))
    BY <2>1, <2>2, FS_CardinalityType, FS_Subset
  <2>4. Cardinality(Under(j)) <= MaxEdits  BY DEF CatalogueInv, CatalogueOK
  <2>5. Cardinality(Under(j)') <= MaxEdits  BY <2>3, <2>4, CatalogueAssumption
  <2>6. QED  BY <2>1, <2>5
<1>3. CatalogueOK'
  BY <1>1, <1>2 DEF CatalogueInv, CatalogueOK, LoseInvalidation, rowVars, readVars
<1>4. CopyIsCurrent'
  <2>1. ASSUME NEW j \in Copies
        PROVE  \/ cache'[j] = None \/ ShowsNext(j, cache'[j])
               \/ Under(j)' # {} \/ j \in raced'
    <3>1. \/ cache[j] = None \/ Shows(j, cache[j], Ordered) \/ Under(j) # {} \/ j \in raced
      BY DEF CatalogueInv, CopyIsCurrent
    <3>2. cache' = cache /\ raced' = raced \cup {e.copy} /\ UNCHANGED rowVars
      BY DEF LoseInvalidation
    <3>3. QED  BY <1>2, <3>1, <3>2, RowsStay
  <2>2. QED  BY <2>1, NextCopies
<1>5. SelectedIsCurrent'
  <2>1. ASSUME NEW g \in Readers, step[g] = "fill"
        PROVE  ShowsNext(asked[g], list[g]) \/ asked[g] \in raced'
    BY <2>1, RowsStay
    DEF CatalogueInv, CatalogueOK, SelectedIsCurrent, LoseInvalidation
  <2>2. QED  BY <2>1, NextSelections DEF LoseInvalidation, readVars
<1>6. QED  BY <1>1, <1>3, <1>4, <1>5 DEF CatalogueInv

LEMMA EndKeeps ==
    ASSUME CatalogueInv, End, UNCHANGED orders
    PROVE  CatalogueInv'
<1>1. ASSUME NEW k \in Copies, Expire(k)
      PROVE  CatalogueInv'
  BY <1>1, DropKeeps DEF Expire, Under
<1>2. QED  BY <1>1, InvalidationKeeps, LossKeeps DEF End

-----------------------------------------------------------------------------
(* The readers. *)

\* A reader's step that stores nothing.
LEMMA ReaderKeeps ==
    ASSUME CatalogueInv, NEW g \in Readers, NEW s \in {"idle", "select", "fill"},
           NEW k \in Copies \cup {None}, NEW rows \in Rows, s # "idle" => k # None,
           Go(g, s), For(g, k), Has(g, rows),
           s = "fill" => ShowsNext(k, rows),
           UNCHANGED <<rowVars, cacheVars, orders>>
    PROVE  CatalogueInv'
<1>1. /\ asked' \in [Readers -> Copies \cup {None}] /\ list' \in [Readers -> Rows]
      /\ step' \in [Readers -> {"idle", "select", "fill"}]
      /\ asked'[g] = k /\ step'[g] = s /\ list'[g] = rows
      /\ \A h \in Readers \ {g} :
            asked'[h] = asked[h] /\ step'[h] = step[h] /\ list'[h] = list[h]
  BY DEF CatalogueInv, CatalogueOK, Go, For, Has
<1>2. CatalogueOK'
  <2>1. \A j \in Copies : Under(j)' = Under(j)  BY DEF cacheVars, Under
  <2>2. \A h \in Readers : step'[h] # "idle" => asked'[h] # None
    BY <1>1 DEF CatalogueInv, CatalogueOK
  <2>3. QED  BY <1>1, <2>1, <2>2 DEF CatalogueInv, CatalogueOK, rowVars, cacheVars
<1>3. IsFiniteSet(edits')  BY DEF CatalogueInv, cacheVars
<1>4. CopyIsCurrent'
  <2>1. ASSUME NEW j \in Copies
        PROVE  \/ cache'[j] = None \/ ShowsNext(j, cache'[j])
               \/ Under(j)' # {} \/ j \in raced'
    <3>1. \/ cache[j] = None \/ Shows(j, cache[j], Ordered) \/ Under(j) # {} \/ j \in raced
      BY DEF CatalogueInv, CopyIsCurrent
    <3>2. QED  BY <3>1, RowsStay DEF cacheVars, Under
  <2>2. QED  BY <2>1, NextCopies
<1>5. SelectedIsCurrent'
  <2>1. ASSUME NEW h \in Readers, step'[h] = "fill"
        PROVE  ShowsNext(asked'[h], list'[h]) \/ asked'[h] \in raced'
    <3>1. CASE h = g  BY <1>1, <2>1, <3>1
    <3>2. CASE h # g
      <4>1. step[h] = "fill" /\ asked[h] \in Copies
        BY <1>1, <2>1, <3>2 DEF CatalogueInv, CatalogueOK
      <4>2. Shows(asked[h], list[h], Ordered) \/ asked[h] \in raced
        BY <4>1 DEF CatalogueInv, SelectedIsCurrent
      <4>3. QED  BY <1>1, <3>2, <4>1, <4>2, RowsStay DEF cacheVars
    <3>3. QED  BY <3>1, <3>2
  <2>2. QED  BY <2>1, NextSelections
<1>6. QED  BY <1>2, <1>3, <1>4, <1>5 DEF CatalogueInv

LEMMA StutterKeeps ==
    ASSUME CatalogueInv, UNCHANGED <<catalogueVars, orders>>
    PROVE  CatalogueInv'
<1>1. CatalogueOK' /\ IsFiniteSet(edits')
  BY DEF CatalogueInv, CatalogueOK, catalogueVars, rowVars, cacheVars, readVars, Under
<1>2. Ordered' = Ordered  BY DEF Ordered
<1>3. CopyIsCurrent'
  BY <1>2 DEF CatalogueInv, CopyIsCurrent, Shows, Names, OnSale, Current, Under,
              catalogueVars, rowVars, cacheVars
<1>4. SelectedIsCurrent'
  BY <1>2 DEF CatalogueInv, SelectedIsCurrent, Shows, Names, OnSale, Current,
              catalogueVars, rowVars, cacheVars, readVars
<1>5. QED  BY <1>1, <1>3, <1>4 DEF CatalogueInv

LEMMA AskKeeps ==
    ASSUME CatalogueInv, NEW g \in Readers, NEW k \in Copies, Ask(g, k), UNCHANGED orders
    PROVE  CatalogueInv'
<1>1. CASE cache[k] = None
  <2>1. list[g] \in Rows /\ Has(g, list[g])
    BY <1>1 DEF CatalogueInv, CatalogueOK, Ask, Has
  <2>2. k # None  BY CatalogueAssumption DEF Copies
  <2>3. Go(g, "select") /\ For(g, k) /\ UNCHANGED <<rowVars, cacheVars, orders>>
    BY <1>1 DEF Ask
  <2>4. QED  BY <2>1, <2>2, <2>3, ReaderKeeps
<1>2. CASE cache[k] # None
  BY <1>2, StutterKeeps DEF Ask, catalogueVars, readVars
<1>3. QED  BY <1>1, <1>2

LEMMA FailKeeps ==
    ASSUME CatalogueInv, NEW g \in Readers, Fail(g), UNCHANGED orders
    PROVE  CatalogueInv'
<1>1. {} \in Rows  BY DEF Rows
<1>2. QED  BY <1>1, ReaderKeeps DEF Fail, Done

LEMMA ReadKeeps ==
    ASSUME CatalogueInv, NEW g \in Readers, Read(g), UNCHANGED orders
    PROVE  CatalogueInv'
<1>1. asked \in [Readers -> Copies \cup {None}] /\ asked[g] \in Copies
  BY DEF CatalogueInv, CatalogueOK, Read, Select, Fill
<1>2. CASE Select(g)
  <2>1. Current(asked[g]) \in Rows /\ Shows(asked[g], Current(asked[g]), Ordered)
    BY <1>1, CurrentIsRows, CurrentShows DEF CatalogueInv
  <2>2. Go(g, "fill") /\ Has(g, Current(asked[g])) /\ UNCHANGED <<rowVars, cacheVars, asked>>
    BY <1>2 DEF Select
  <2>3. For(g, asked[g])  BY <1>1, <2>2 DEF For
  <2>4. ShowsNext(asked[g], Current(asked[g]))  BY <1>1, <2>1, <2>2, RowsStay
  <2>5. asked[g] # None  BY <1>1, CatalogueAssumption DEF Copies
  <2>6. QED  BY <1>1, <2>1, <2>2, <2>3, <2>4, <2>5, ReaderKeeps
<1>3. CASE Fill(g)
  <2>1. /\ step[g] = "fill" /\ list[g] \in Rows /\ {} \in Rows
        /\ cache' = [cache EXCEPT ![asked[g]] = list[g]] /\ UNCHANGED <<rowVars, edits, raced>>
        /\ step' = [step EXCEPT ![g] = "idle"] /\ asked' = [asked EXCEPT ![g] = None]
        /\ list' = [list EXCEPT ![g] = {}]
    BY <1>3 DEF Fill, Done, Go, For, Has, CatalogueInv, CatalogueOK, Rows
  <2>2. CatalogueOK'
    BY <1>1, <2>1 DEF CatalogueInv, CatalogueOK, rowVars, Under
  <2>3. IsFiniteSet(edits')  BY <2>1 DEF CatalogueInv
  <2>4. CopyIsCurrent'
    <3>1. ASSUME NEW j \in Copies
          PROVE  \/ cache'[j] = None \/ ShowsNext(j, cache'[j])
                 \/ Under(j)' # {} \/ j \in raced'
      <4>1. \/ cache[j] = None \/ Shows(j, cache[j], Ordered) \/ Under(j) # {} \/ j \in raced
        BY DEF CatalogueInv, CopyIsCurrent
      <4>2. Shows(asked[g], list[g], Ordered) \/ asked[g] \in raced
        BY <2>1 DEF CatalogueInv, SelectedIsCurrent
      <4>3. cache'[j] = IF j = asked[g] THEN list[g] ELSE cache[j]
        BY <2>1 DEF CatalogueInv, CatalogueOK
      <4>4. QED  BY <2>1, <4>1, <4>2, <4>3, RowsStay DEF Under
    <3>2. QED  BY <3>1, NextCopies
  <2>5. SelectedIsCurrent'
    <3>1. ASSUME NEW h \in Readers, step'[h] = "fill"
          PROVE  ShowsNext(asked'[h], list'[h]) \/ asked'[h] \in raced'
      <4>1. h # g /\ step[h] = "fill" /\ asked[h] \in Copies
            /\ asked'[h] = asked[h] /\ list'[h] = list[h]
        BY <2>1, <3>1 DEF CatalogueInv, CatalogueOK
      <4>2. Shows(asked[h], list[h], Ordered) \/ asked[h] \in raced
        BY <4>1 DEF CatalogueInv, SelectedIsCurrent
      <4>3. QED  BY <2>1, <4>1, <4>2, RowsStay
    <3>2. QED  BY <3>1, NextSelections
  <2>6. QED  BY <2>2, <2>3, <2>4, <2>5 DEF CatalogueInv
<1>4. QED  BY <1>2, <1>3 DEF Read

-----------------------------------------------------------------------------
(* An order takes of the stock and leaves the copies as they are. *)

LEMMA SaleKeeps ==
    ASSUME CatalogueInv, NEW ds \in SUBSET Dishes, Sell(ds), ds \subseteq Ordered',
           Ordered \subseteq Ordered'
    PROVE  CatalogueInv'
<1>1. PICK left \in [ds -> 0..MaxStock] :
        /\ \A d \in ds : left[d] < stock[d]
        /\ stock' = [d \in Dishes |-> IF d \in ds THEN left[d] ELSE stock[d]]
  BY DEF Sell
<1>2. /\ UNCHANGED <<restaurant, dish, cache, edits, raced, asked, step, list>>
      /\ stock \in [Dishes -> 0..MaxStock]
  BY DEF Sell, cacheVars, readVars, CatalogueInv, CatalogueOK
<1>3. ASSUME NEW d \in Dishes
      PROVE  /\ stock[d] \in Nat /\ stock'[d] \in 0..MaxStock
             /\ \/ stock'[d] = stock[d]
                \/ stock'[d] < stock[d] /\ d \in Ordered'
  <2>1. CASE d \in ds
    <3>1. stock'[d] = left[d] /\ left[d] \in 0..MaxStock /\ left[d] < stock[d] /\ d \in Ordered'
      BY <1>1, <2>1
    <3>2. QED  BY <1>2, <3>1
  <2>2. CASE d \notin ds
    <3>1. stock'[d] = stock[d] /\ stock[d] \in 0..MaxStock  BY <1>1, <1>2, <2>2
    <3>2. stock[d] \in Nat  BY <3>1, CatalogueAssumption
    <3>3. QED  BY <3>1, <3>2
  <2>3. QED  BY <2>1, <2>2
<1>4. CatalogueOK'
  <2>1. stock' = [d \in Dishes |-> stock'[d]]  BY <1>1
  <2>2. stock' \in [Dishes -> 0..MaxStock]  BY <1>3, <2>1
  <2>3. QED  BY <1>2, <2>2 DEF CatalogueInv, CatalogueOK, Under
<1>5. ASSUME NEW k \in Copies, NEW rows, Shows(k, rows, Ordered)
      PROVE  ShowsNext(k, rows)
  <2>1. CASE k = List  BY <1>2, <1>5, <2>1 DEF Shows, ShowsNext, Current, OpenNext
  <2>2. CASE k # List
    <3>1. rows \subseteq Items /\ Names(rows) = OnSaleNext(k)
      BY <1>2, <1>5, <2>2 DEF Shows, OnSale, OnSaleNext
    <3>2. ASSUME NEW i \in rows
          PROVE  \/ i.left = stock'[i.dish]
                 \/ i.left > stock'[i.dish] /\ i.dish \in Ordered'
      <4>1. i.dish \in Dishes /\ i.left \in 0..MaxStock  BY <3>1 DEF Items
      <4>2. i.left = stock[i.dish] \/ (i.left > stock[i.dish] /\ i.dish \in Ordered)
        BY <1>5, <2>2 DEF Shows
      <4>3. /\ stock[i.dish] \in Nat /\ stock'[i.dish] \in 0..MaxStock
            /\ \/ stock'[i.dish] = stock[i.dish]
               \/ stock'[i.dish] < stock[i.dish] /\ i.dish \in Ordered'
        BY <1>3, <4>1
      <4>4. i.dish \in Ordered => i.dish \in Ordered'  OBVIOUS
      <4>5. QED  BY <4>1, <4>2, <4>3, <4>4
    <3>3. QED  BY <2>2, <3>1, <3>2 DEF ShowsNext
  <2>3. QED  BY <2>1, <2>2
<1>6. CopyIsCurrent'
  <2>1. ASSUME NEW j \in Copies
        PROVE  \/ cache'[j] = None \/ ShowsNext(j, cache'[j])
               \/ Under(j)' # {} \/ j \in raced'
    <3>1. \/ cache[j] = None \/ Shows(j, cache[j], Ordered) \/ Under(j) # {} \/ j \in raced
      BY DEF CatalogueInv, CopyIsCurrent
    <3>2. QED  BY <1>2, <1>5, <3>1 DEF Under
  <2>2. QED  BY <2>1, NextCopies
<1>7. SelectedIsCurrent'
  <2>1. ASSUME NEW g \in Readers, step[g] = "fill"
        PROVE  ShowsNext(asked[g], list[g]) \/ asked[g] \in raced
    <3>1. asked[g] \in Copies  BY <2>1 DEF CatalogueInv, CatalogueOK
    <3>2. Shows(asked[g], list[g], Ordered) \/ asked[g] \in raced
      BY <2>1 DEF CatalogueInv, SelectedIsCurrent
    <3>3. QED  BY <1>5, <3>1, <3>2
  <2>2. QED  BY <1>2, <2>1, NextSelections
<1>8. QED  BY <1>2, <1>4, <1>6, <1>7 DEF CatalogueInv

LEMMA CatalogueInvInit == CatalogueInit => CatalogueInv
<1> SUFFICES ASSUME CatalogueInit PROVE CatalogueInv  OBVIOUS
<1>1. \A k \in Copies : Under(k) = {}  BY DEF CatalogueInit, Under
<1>2. CatalogueOK
  <2>1. \A k \in Copies : Cardinality(Under(k)) <= MaxEdits
    <3>1. Cardinality({}) = 0  BY FS_EmptySet
    <3>2. QED  BY <1>1, <3>1, CatalogueAssumption
  <2>2. RowsTyped
    <3>1. stock \in [Dishes -> 0..MaxStock]  BY CatalogueAssumption DEF CatalogueInit
    <3>2. QED  BY <3>1 DEF CatalogueInit, RowsTyped
  <2>3. {} \in Rows  BY DEF Rows
  <2>4. QED  BY <2>1, <2>2, <2>3 DEF CatalogueInit, CatalogueOK, RowsTyped
<1>3. QED
  BY <1>2, FS_EmptySet DEF CatalogueInit, CatalogueInv, CopyIsCurrent, SelectedIsCurrent, Copies

-----------------------------------------------------------------------------
(* The cart and the orders. *)

BrowserTyped ==
    /\ menu \subseteq Dishes
    /\ cartOf \in Restaurants \cup {None} /\ lines \subseteq Dishes
    /\ cartOf = None <=> lines = {}
    /\ placing = None \/ placing \in [basket : Baskets, step : {"sent", "placed"}]
    /\ orders \subseteq Baskets
    /\ served \in BOOLEAN

\* A basket is of one restaurant in the cart, under way, and in an order.
OfOne(basket) == \A d \in basket.dishes : Of[d] = basket.restaurant

BasketsOfOne ==
    /\ \A d \in lines : Of[d] = cartOf
    /\ placing # None => OfOne(placing.basket)
    /\ OrderOfOneRestaurant

BrowserInv == BrowserTyped /\ BasketsOfOne
IInv == CatalogueInv /\ BrowserInv

-----------------------------------------------------------------------------
(* The browser does not touch rows or copies; they do not touch the cart. *)

LEMMA BrowserFrame == BrowserInv /\ UNCHANGED browserVars => BrowserInv'
BY DEF BrowserInv, BrowserTyped, BasketsOfOne, OfOne, OrderOfOneRestaurant, browserVars

\* The new content of the cart is of the restaurant it names.
LEMMA CartKept ==
    ASSUME BrowserInv, NEW r \in Restaurants \cup {None}, NEW ds \in SUBSET Dishes,
           r = None <=> ds = {}, \A d \in ds : Of[d] = r,
           Cart(r, ds), menu' = menu, orders' = orders, placing' \in {placing, None}
    PROVE  BrowserInv'
BY DEF BrowserInv, BrowserTyped, BasketsOfOne, OfOne, OrderOfOneRestaurant, Cart

LEMMA CartSteps ==
    ASSUME BrowserInv,
           Clear \/ Succeed \/ \E d \in Dishes : Add(d) \/ Remove(d) \/ SetQty(d)
    PROVE  BrowserInv'
<1> USE CatalogueAssumption DEF BrowserInv, BrowserTyped, BasketsOfOne
<1>1. CASE Clear \/ Succeed
  BY <1>1, CartKept DEF Clear, Succeed
<1>2. ASSUME NEW d \in Dishes, Add(d)
      PROVE  BrowserInv'
  <2>1. Of[d] \in Restaurants /\ Of[d] # None  OBVIOUS
  <2>2. Kept(d) \cup {d} \in SUBSET Dishes /\ \A x \in Kept(d) \cup {d} : Of[x] = Of[d]
    BY DEF Kept
  <2>3. QED  BY <1>2, <2>1, <2>2, CartKept DEF Add
<1>3. ASSUME NEW d \in Dishes, Remove(d)
      PROVE  BrowserInv'
  <2>1. CASE lines = {d}
    BY <1>3, <2>1, CartKept DEF Remove
  <2>2. CASE lines # {d}
    BY <1>3, <2>2, CartKept DEF Remove
  <2>3. QED  BY <2>1, <2>2
<1>4. ASSUME NEW d \in Dishes, SetQty(d)
      PROVE  BrowserInv'
  BY <1>4, CartKept DEF SetQty
<1>5. QED  BY <1>1, <1>2, <1>3, <1>4

LEMMA OrderSteps ==
    ASSUME BrowserInv, Place \/ Commit \/ Err
    PROVE  BrowserInv'
<1> USE DEF BrowserInv, BrowserTyped, BasketsOfOne, OfOne, OrderOfOneRestaurant
<1>1. CASE Place
  <2>1. [restaurant |-> cartOf, dishes |-> lines] \in Baskets  BY <1>1 DEF Place, Baskets
  <2>2. QED  BY <1>1, <2>1 DEF Place
<1>2. CASE Commit
  <2>1. placing.basket \in Baskets  BY <1>2 DEF Commit
  <2>2. /\ placing' \in [basket : Baskets, step : {"sent", "placed"}]
        /\ placing'.basket = placing.basket
    BY <1>2, <2>1 DEF Commit
  <2>3. QED  BY <1>2, <2>1, <2>2 DEF Commit
<1>3. CASE Err
  BY <1>3 DEF Err
<1>4. QED  BY <1>1, <1>2, <1>3

\* What the page shows is a matter of its request; the cart is left alone.
LEMMA PageSteps ==
    ASSUME BrowserInv, menu' \in SUBSET Dishes,
           UNCHANGED <<cartOf, lines, placing, orders, served>>
    PROVE  BrowserInv'
BY DEF BrowserInv, BrowserTyped, BasketsOfOne, OfOne, OrderOfOneRestaurant

LEMMA StepKeepsIInv == IInv /\ [Next]_vars => IInv'
<1> SUFFICES ASSUME IInv, [Next]_vars PROVE IInv'  OBVIOUS
<1> USE DEF IInv
<1>1. ASSUME NEW r \in Restaurants, Visit(r)
      PROVE  IInv'
  <2>1. r \in Copies /\ Page \in Readers  BY StorefrontAssumption DEF Copies
  <2>2. CatalogueInv'  BY <1>1, <2>1, AskKeeps DEF Visit
  <2>3. BrowserInv'  BY <1>1, PageSteps DEF Visit, Names
  <2>4. QED  BY <2>2, <2>3
<1>2. CASE Load
  <2>1. CatalogueInv'  BY <1>2, ReadKeeps, StorefrontAssumption DEF Load, Read
  <2>2. menu' \in SUBSET Dishes
    BY <1>2 DEF Load, Names, BrowserInv, BrowserTyped
  <2>3. BrowserInv'  BY <1>2, <2>2, PageSteps DEF Load
  <2>4. QED  BY <2>1, <2>3
<1>3. CASE Commit
  <2>1. BrowserInv'  BY <1>3, OrderSteps
  <2>2. placing.basket \in Baskets /\ orders' = orders \cup {placing.basket}
    BY <1>3 DEF Commit, BrowserInv, BrowserTyped
  <2>3. placing.basket.dishes \in SUBSET Dishes  BY <2>2 DEF Baskets
  <2>4. Ordered \subseteq Ordered' /\ placing.basket.dishes \subseteq Ordered'
    BY <2>2 DEF Ordered
  <2>5. CatalogueInv'  BY <1>3, <2>3, <2>4, SaleKeeps DEF Commit
  <2>6. QED  BY <2>1, <2>5
<1>4. CASE Shop /\ ~Commit
  <2>1. UNCHANGED <<catalogueVars, orders>>
    BY <1>4 DEF Shop, Add, Remove, SetQty, Clear, Place, Succeed, Err
  <2>2. BrowserInv'  BY <1>4, CartSteps, OrderSteps DEF Shop
  <2>3. QED  BY <2>1, <2>2, StutterKeeps
<1>5. CASE Serve /\ UNCHANGED browserVars
  <2>1. UNCHANGED orders  BY <1>5 DEF browserVars
  <2>2. Edit(Ordered) => CatalogueInv'
    BY <2>1, EditsKeep DEF Edit, DishEdit, RestaurantEdit
  <2>3. ASSUME NEW g \in Readers, Browse(g) \/ Fail(g)
        PROVE  CatalogueInv'
    <3>1. Asked \subseteq Copies  BY CatalogueAssumption DEF Copies
    <3>2. QED  BY <2>1, <2>3, <3>1, AskKeeps, ReadKeeps, FailKeeps DEF Browse
  <2>4. CatalogueInv'  BY <1>5, <2>1, <2>2, <2>3, EndKeeps DEF Serve
  <2>5. QED  BY <1>5, <2>4, BrowserFrame
<1>6. CASE UNCHANGED vars
  BY <1>6, StutterKeeps, BrowserFrame DEF vars, browserVars
<1>7. QED  BY <1>1, <1>2, <1>3, <1>4, <1>5, <1>6 DEF Next

LEMMA Invariant == Spec => []IInv
<1>1. Init => IInv
  BY CatalogueInvInit
  DEF Init, IInv, BrowserInv, BrowserTyped, BasketsOfOne, OrderOfOneRestaurant, Baskets
<1>2. QED  BY <1>1, StepKeepsIInv, PTL DEF Spec

-----------------------------------------------------------------------------
\* Rows, copies, readers and browser keep their types; in particular no copy has more edits
\* under way than MaxEdits, and a dish that is there has a restaurant (schema.sql's cascade).
THEOREM TypeCorrect == Spec => []TypeOK
<1>1. IInv => TypeOK
  BY DEF IInv, CatalogueInv, BrowserInv, BrowserTyped, TypeOK
<1>2. QED  BY <1>1, Invariant, PTL

\* Every order is of one restaurant although placeOrder does not compare: the cart never
\* mixes two (cartStore.ts), whatever menus, however old, its dishes were picked from.
THEOREM BasketsAreOfOneRestaurant == Spec => []OrderOfOneRestaurant
<1>1. IInv => OrderOfOneRestaurant  BY DEF IInv, BrowserInv, BasketsOfOne
<1>2. QED  BY <1>1, Invariant, PTL

\* A copy in Redis is what a query would return, but for an edit whose DEL is to come, a
\* late or lost step that is known, a deleted restaurant, or dishes that were ordered, whose
\* stock placeOrder takes without a DEL (order.service.ts:128).
THEOREM OldCopiesHaveReasons == Spec => []CopyIsCurrent
<1>1. IInv => CopyIsCurrent  BY DEF IInv, CatalogueInv
<1>2. QED  BY <1>1, Invariant, PTL
=============================================================================
