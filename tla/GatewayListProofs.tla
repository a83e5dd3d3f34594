--------------------------- MODULE GatewayListProofs ---------------------------
(***************************************************************************)
(* Proofs about GatewayList, for every number of rows and page size.       *)
(***************************************************************************)
EXTENDS GatewayList, FiniteSetTheorems, TLAPS

(* Where row i stands in the order of creation of the rows S. *)
Place(S, i) == Cardinality({j \in S : j <= i})

-------------------------------------------------------------------------------
(* Places of rows: positive, at most as many as there are rows, ... *)
LEMMA PlaceType ==
    ASSUME NEW S \in SUBSET Nat, IsFiniteSet(S)
    PROVE  /\ Cardinality(S) \in Nat
           /\ \A i : Place(S, i) \in 0 .. Cardinality(S)
           /\ \A i \in S : Place(S, i) # 0
<1>2. Cardinality(S) \in Nat
  BY FS_CardinalityType
<1>3. ASSUME NEW i PROVE /\ IsFiniteSet({j \in S : j <= i})
                         /\ Place(S, i) \in 0 .. Cardinality(S)
  <2>1. {j \in S : j <= i} \in SUBSET S
    OBVIOUS
  <2>2. IsFiniteSet({j \in S : j <= i}) /\ Cardinality({j \in S : j <= i}) <= Cardinality(S)
    BY <2>1, FS_Subset
  <2>3. Cardinality({j \in S : j <= i}) \in Nat
    BY <2>2, FS_CardinalityType
  <2>4. QED
    BY <1>2, <2>2, <2>3 DEF Place
<1>4. ASSUME NEW i \in S PROVE Place(S, i) # 0
  <2>1. i \in {j \in S : j <= i}
    OBVIOUS
  <2>2. QED
    BY <1>3, <2>1, FS_EmptySet DEF Place
<1>5. QED
  BY <1>2, <1>3, <1>4

(* ... in the order of the rows, ... *)
LEMMA PlaceGrows ==
    ASSUME NEW S \in SUBSET Nat, IsFiniteSet(S), NEW i \in S, NEW j \in S, i < j
    PROVE  Place(S, i) < Place(S, j)
<1> DEFINE Upto(k) == {m \in S : m <= k}
<1>1. Upto(i) \in SUBSET Upto(j) /\ j \in Upto(j) /\ j \notin Upto(i)
  <2>1. \A m \in S : m \in Nat
    OBVIOUS
  <2>2. \A m \in Upto(i) : m \in Upto(j)
    BY <2>1
  <2>3. j \in Upto(j) /\ j \notin Upto(i)
    BY <2>1
  <2>4. Upto(i) \subseteq Upto(j)
    BY <2>2
  <2>5. QED
    BY <2>3, <2>4, Zenon
<1>2. IsFiniteSet(S) /\ Upto(j) \in SUBSET S
  BY PlaceType
<1>3. IsFiniteSet(Upto(j))
  BY <1>2, FS_Subset
<1>4. Cardinality(Upto(i)) <= Cardinality(Upto(j)) /\ Cardinality(Upto(i)) # Cardinality(Upto(j))
  BY <1>1, <1>3, FS_Subset
<1>5. Place(S, i) \in Nat /\ Place(S, j) \in Nat
  BY PlaceType
<1>6. QED
  BY <1>4, <1>5 DEF Place

(* ... and no place is empty. *)
LEMMA PlaceTaken ==
    ASSUME NEW S \in SUBSET Nat, IsFiniteSet(S), NEW p \in 1 .. Cardinality(S)
    PROVE  \E i \in S : Place(S, i) = p
<1> DEFINE c == Cardinality(S)
           f == [i \in S |-> Place(S, i)]
<1>1. IsFiniteSet(S) /\ c \in Nat
  BY PlaceType
<1>2. IsFiniteSet(1 .. c) /\ Cardinality(1 .. c) = c
  BY <1>1, FS_Interval
<1>3. f \in [S -> 1 .. c]
  BY <1>1, PlaceType
<1>4. \A i, j \in S : i # j => f[i] # f[j]
  <2> SUFFICES ASSUME NEW i \in S, NEW j \in S, i # j PROVE f[i] # f[j]
    OBVIOUS
  <2>1. i < j \/ j < i
    OBVIOUS
  <2>2. f[i] < f[j] \/ f[j] < f[i]
    BY <2>1, PlaceGrows
  <2>3. f[i] \in Nat /\ f[j] \in Nat
    BY PlaceType
  <2>4. QED
    BY <2>2, <2>3
<1>5. f \in Injection(S, 1 .. c)
  BY <1>3, <1>4 DEF Injection, IsInjective
<1>6. f \in Surjection(S, 1 .. c)
  BY <1>1, <1>2, <1>5, FS_Injection
<1>7. QED
  BY <1>6 DEF Surjection

(* Some rows have a last one. *)
LEMMA LatestExists ==
    ASSUME NEW S \in SUBSET Nat, IsFiniteSet(S), S # {}
    PROVE  \E i \in S : \A j \in S : j <= i
<1>1. IsFiniteSet(S) /\ Cardinality(S) \in Nat /\ Cardinality(S) # 0
  BY PlaceType, FS_EmptySet
<1>2. PICK i \in S : Place(S, i) = Cardinality(S)
  BY <1>1, PlaceTaken
<1>3. {j \in S : j <= i} = S
  BY <1>1, <1>2, FS_Subset DEF Place
<1>4. QED
  BY <1>3

(* Behind a page that is not full there are no more rows. *)
LEMMA LastPage ==
    ASSUME NEW S \in SUBSET Nat, IsFiniteSet(S), NEW o \in Nat, NEW l \in Nat,
           Cardinality({i \in S : o < Place(S, i) /\ Place(S, i) <= o + l}) < l,
           NEW k \in S
    PROVE  Place(S, k) <= o + l
<1> DEFINE page == {i \in S : o < Place(S, i) /\ Place(S, i) <= o + l}
           At(p) == CHOOSE i \in S : Place(S, i) = p
           f == [p \in o + 1 .. o + l |-> At(p)]
<1> SUFFICES ASSUME Place(S, k) > o + l PROVE FALSE
  BY PlaceType
<1>1. IsFiniteSet(S) /\ Cardinality(S) \in Nat /\ Place(S, k) \in 0 .. Cardinality(S)
  BY PlaceType
<1>2. ASSUME NEW p \in o + 1 .. o + l PROVE At(p) \in S /\ Place(S, At(p)) = p
  <2>1. p \in 1 .. Cardinality(S)
    BY <1>1
  <2>2. QED
    BY <2>1, PlaceTaken
<1>3. f \in [o + 1 .. o + l -> page]
  BY <1>2
<1>4. \A p, q \in o + 1 .. o + l : p # q => f[p] # f[q]
  BY <1>2
<1>5. f \in Injection(o + 1 .. o + l, page)
  BY <1>3, <1>4 DEF Injection, IsInjective
<1>6. IsFiniteSet(page) /\ Cardinality(page) \in Nat
  BY <1>1, FS_Subset, FS_CardinalityType
<1>7. Cardinality(o + 1 .. o + l) <= Cardinality(page)
  BY <1>5, <1>6, FS_Injection
<1>8. Cardinality(o + 1 .. o + l) = l
  BY FS_Interval
<1>9. QED
  BY <1>6, <1>7, <1>8

(* A removal of rows moves those behind them up, by as many places at most. *)
LEMMA PlaceAfterRemoval ==
    ASSUME NEW S \in SUBSET Nat, IsFiniteSet(S), NEW D \in SUBSET S, NEW i \in S \ D
    PROVE  Place(S, i) <= Place(S \ D, i) + Cardinality(D)
<1> DEFINE Upto == {j \in S : j <= i}
           Still == {j \in S \ D : j <= i}
<1>1. IsFiniteSet(S) /\ Upto \in SUBSET S /\ Still \in SUBSET S
  BY PlaceType
<1>2. IsFiniteSet(Upto) /\ IsFiniteSet(Still) /\ IsFiniteSet(D)
  BY <1>1, FS_Subset
<1>3. Upto \subseteq Still \cup D
  OBVIOUS
<1>4. /\ IsFiniteSet(Still \cup D)
      /\ Cardinality(Still \cup D) = Cardinality(Still) + Cardinality(D) - Cardinality(Still \cap D)
  BY <1>2, FS_Union
<1>5. IsFiniteSet(Still \cap D)
  BY <1>2, FS_Subset
<1>6. Cardinality(Upto) <= Cardinality(Still \cup D)
  BY <1>3, <1>4, FS_Subset
<1>7. /\ Cardinality(Still) \in Nat /\ Cardinality(D) \in Nat
      /\ Cardinality(Still \cap D) \in Nat /\ Cardinality(Upto) \in Nat
  BY <1>2, <1>5, FS_CardinalityType
<1> HIDE DEF Upto, Still
<1>8. Cardinality(Upto) <= Cardinality(Still) + Cardinality(D)
  BY <1>4, <1>6, <1>7
<1>9. QED
  BY <1>8 DEF Place, Upto, Still

(* In a stretch of l places stand at most l rows. *)
LEMMA PlacesHold ==
    ASSUME NEW S \in SUBSET Nat, IsFiniteSet(S), NEW o \in Nat, NEW l \in Nat,
           NEW M \in SUBSET S, \A i \in M : o < Place(S, i) /\ Place(S, i) <= o + l
    PROVE  IsFiniteSet(M) /\ Cardinality(M) <= l /\ Cardinality(M) \in Nat
<1> DEFINE f == [i \in M |-> Place(S, i)]
<1>1. f \in [M -> o + 1 .. o + l]
  BY PlaceType
<1>2. \A i, j \in M : i # j => f[i] # f[j]
  <2> SUFFICES ASSUME NEW i \in M, NEW j \in M, i # j PROVE f[i] # f[j]
    OBVIOUS
  <2>1. i \in S /\ j \in S /\ (i < j \/ j < i)
    OBVIOUS
  <2>2. f[i] < f[j] \/ f[j] < f[i]
    BY <2>1, PlaceGrows
  <2>3. f[i] \in Nat /\ f[j] \in Nat
    BY PlaceType
  <2>4. QED
    BY <2>2, <2>3
<1>3. f \in Injection(M, o + 1 .. o + l)
  BY <1>1, <1>2 DEF Injection, IsInjective
<1>4. IsFiniteSet(o + 1 .. o + l) /\ Cardinality(o + 1 .. o + l) = l
  BY FS_Interval
<1>5. IsFiniteSet(M) /\ Cardinality(M) <= l
  BY <1>3, <1>4, FS_Injection
<1>6. QED
  BY <1>5, FS_CardinalityType

-------------------------------------------------------------------------------
ListTyped ==
    /\ fresh \in 1 .. MaxId + 1
    /\ DOMAIN rows = Kind
    /\ \A k \in Kind : Ids(k) \subseteq 1 .. fresh - 1
    /\ DOMAIN call = {"on", "kind", "offset", "items", "start", "gone"}
    /\ call.on \in BOOLEAN /\ call.kind \in Kind
    /\ call.offset \in Nat /\ call.gone \in Nat
    /\ call.start \subseteq 1 .. fresh - 1
    /\ DOMAIN call.items \subseteq 1 .. fresh - 1

(* What is listed of a row that is still there is its key. *)
ItemsAreRows ==
    \A i \in DOMAIN call.items \cap Ids(call.kind) :
        call.items[i] = rows[call.kind][i].key

Missed == (call.start \cap Ids(call.kind)) \ DOMAIN call.items

(* The rows that a list_all under way will miss are those that stand before its
   offset already. *)
Behind == {i \in Missed : Place(Ids(call.kind), i) <= call.offset}

MissedAreBehind ==
    /\ call.on  => Cardinality(Behind) <= call.gone
    /\ ~call.on => Cardinality(Missed) <= call.gone

ListInv == ListTyped /\ ItemsAreRows /\ MissedAreBehind

-------------------------------------------------------------------------------
(* All sets of rows are finite. *)
LEMMA RowsAreFinite ==
    ASSUME ListTyped
    PROVE  /\ \A k \in Kind : Ids(k) \in SUBSET Nat /\ IsFiniteSet(Ids(k))
           /\ IsFiniteSet(Missed) /\ IsFiniteSet(Behind)
           /\ Cardinality(Missed) \in Nat /\ Cardinality(Behind) \in Nat
<1>1. IsFiniteSet(1 .. fresh - 1) /\ (1 .. fresh - 1) \subseteq Nat
  <2>1. fresh - 1 \in Nat
    BY ListBounds DEF ListTyped
  <2>2. QED
    BY <2>1, FS_Interval
<1>2. \A k \in Kind : Ids(k) \in SUBSET Nat /\ IsFiniteSet(Ids(k))
  BY <1>1, FS_Subset DEF ListTyped
<1>3. Missed \in SUBSET Ids(call.kind) /\ Behind \in SUBSET Ids(call.kind)
  BY DEF Missed, Behind
<1>4. IsFiniteSet(Missed) /\ IsFiniteSet(Behind)
  BY <1>2, <1>3, FS_Subset DEF ListTyped
<1>5. QED
  BY <1>2, <1>4, FS_CardinalityType

(* A new row comes behind all others. *)
LEMMA CreateKeepsList ==
    ASSUME ListInv, NEW k \in Kind, NEW row, Create(k, row)
    PROVE  /\ ListInv' /\ UNCHANGED call
           /\ Ids(k)' = Ids(k) \cup {fresh} /\ fresh \notin Ids(k)
           /\ \A m \in Kind \ {k} : Ids(m)' = Ids(m)
           /\ rows'[k][fresh] = row
           /\ \A m \in Kind : \A i \in Ids(m) : rows'[m][i] = rows[m][i]
<1> USE DEF ListInv
<1>1. /\ fresh' = fresh + 1 /\ call' = call /\ fresh <= MaxId
      /\ DOMAIN rows' = Kind
      /\ \A m \in Kind \ {k} : rows'[m] = rows[m]
      /\ rows'[k] = [i \in Ids(k) \cup {fresh} |-> IF i = fresh THEN row ELSE rows[k][i]]
  BY DEF Create, CanCreate, NewId, ListTyped, Ids
<1>2. fresh \notin Ids(k)
  BY DEF ListTyped
<1>3. /\ Ids(k)' = Ids(k) \cup {fresh}
      /\ \A m \in Kind \ {k} : Ids(m)' = Ids(m)
      /\ rows'[k][fresh] = row
      /\ \A m \in Kind : \A i \in Ids(m) : rows'[m][i] = rows[m][i]
  BY <1>1, <1>2 DEF Ids
<1>4. ListTyped'
  BY <1>1, <1>3, ListBounds DEF ListTyped
<1>5. ItemsAreRows'
  BY <1>1, <1>3 DEF ItemsAreRows, ListTyped
<1>6. Missed' = Missed
  BY <1>1, <1>3 DEF Missed, ListTyped
<1>7. Behind' = Behind
  <2>1. ASSUME NEW i \in Missed PROVE Place(Ids(call.kind), i)' = Place(Ids(call.kind), i)
    <3>1. i \in Ids(call.kind)
      BY DEF Missed
    <3>2. {j \in Ids(call.kind)' : j <= i} = {j \in Ids(call.kind) : j <= i}
      BY <1>1, <1>3, <3>1 DEF ListTyped
    <3>3. QED
      BY <1>1, <3>2 DEF Place
  <2>2. QED
    BY <1>1, <1>6, <2>1 DEF Behind
<1>8. MissedAreBehind'
  BY <1>1, <1>6, <1>7 DEF MissedAreBehind
<1>9. QED
  BY <1>1, <1>2, <1>3, <1>4, <1>5, <1>8

(* An edit keeps the row's id and key. *)
LEMMA UpdateKeepsList ==
    ASSUME ListInv, NEW k \in Kind, NEW id \in Ids(k), NEW row, row.key = rows[k][id].key,
           Update(k, id, row)
    PROVE  /\ ListInv' /\ UNCHANGED <<fresh, call>>
           /\ \A m \in Kind : Ids(m)' = Ids(m)
           /\ rows'[k][id] = row
           /\ \A m \in Kind : \A i \in Ids(m) : m # k \/ i # id => rows'[m][i] = rows[m][i]
<1> USE DEF ListInv
<1>1. /\ fresh' = fresh /\ call' = call
      /\ DOMAIN rows' = Kind
      /\ \A m \in Kind : Ids(m)' = Ids(m)
      /\ rows'[k][id] = row
      /\ \A m \in Kind : \A i \in Ids(m) : m # k \/ i # id => rows'[m][i] = rows[m][i]
  BY DEF Update, ListTyped, Ids
<1>2. ListTyped'
  BY <1>1 DEF ListTyped
<1>3. ItemsAreRows'
  <2> SUFFICES ASSUME NEW i \in DOMAIN call.items, i \in Ids(call.kind)
               PROVE  call.items[i] = rows'[call.kind][i].key
    BY <1>1 DEF ItemsAreRows, ListTyped
  <2>1. call.items[i] = rows[call.kind][i].key
    BY DEF ItemsAreRows
  <2>2. QED
    BY <1>1, <2>1 DEF ListTyped
<1>4. Missed' = Missed /\ Behind' = Behind
  BY <1>1 DEF Missed, Behind, ListTyped
<1>5. MissedAreBehind'
  BY <1>1, <1>4 DEF MissedAreBehind
<1>6. QED
  BY <1>1, <1>2, <1>3, <1>5

(* A removal lets at most as many rows slip before the offset as it removes, and
   these are counted. *)
LEMMA RemoveKeepsList ==
    ASSUME ListInv, NEW k \in Kind, NEW id \in Ids(k), Remove(k, id)
    PROVE  /\ ListInv' /\ UNCHANGED fresh
           /\ \A m \in Kind : Ids(m)' = Ids(m) \ Along(k, id)[m]
           /\ \A m \in Kind : \A i \in Ids(m)' : rows'[m][i] = rows[m][i]
           /\ call'.kind = call.kind /\ call'.on = call.on
           /\ call'.items = call.items /\ call'.start = call.start
           /\ call'.gone = call.gone \/ call.on
<1> USE DEF ListInv
<1> DEFINE D(m) == Along(k, id)[m]
           c == Cardinality(D(call.kind))
           S == Ids(call.kind)
<1>1. /\ fresh' = fresh
      /\ rows' = [m \in Kind |-> [i \in Ids(m) \ D(m) |-> rows[m][i]]]
  BY DEF Remove, Restrict
<1>2. \A m \in Kind : D(m) \subseteq Ids(m)
  BY DEF Along
<1> HIDE DEF D
<1>3. /\ DOMAIN rows' = Kind
      /\ \A m \in Kind : Ids(m)' = Ids(m) \ D(m)
      /\ \A m \in Kind : \A i \in Ids(m)' : rows'[m][i] = rows[m][i]
  BY <1>1 DEF Ids
<1>4. call' = IF call.on THEN [call EXCEPT !.gone = @ + c] ELSE call
  BY DEF Remove, D
<1>5. S \in SUBSET Nat /\ IsFiniteSet(S) /\ D(call.kind) \in SUBSET S
  BY <1>2, RowsAreFinite DEF ListTyped
<1>6. IsFiniteSet(D(call.kind)) /\ c \in Nat
  BY <1>5, FS_Subset, FS_CardinalityType
<1> HIDE DEF c
<1>7. /\ DOMAIN call' = DOMAIN call /\ call'.kind = call.kind /\ call'.on = call.on
      /\ call'.items = call.items /\ call'.start = call.start /\ call'.offset = call.offset
      /\ call'.gone = IF call.on THEN call.gone + c ELSE call.gone
  BY <1>4 DEF ListTyped
<1>8. ListTyped'
  BY <1>1, <1>3, <1>6, <1>7 DEF ListTyped
<1>9. ItemsAreRows'
  BY <1>3, <1>7 DEF ItemsAreRows, ListTyped
<1>10. S' = S \ D(call.kind)
  BY <1>3, <1>7 DEF ListTyped
<1>11. Missed' = Missed \ D(call.kind)
  BY <1>7, <1>10 DEF Missed
<1>12. /\ IsFiniteSet(Missed) /\ IsFiniteSet(Behind)
       /\ Cardinality(Missed) \in Nat /\ Cardinality(Behind) \in Nat
  BY RowsAreFinite
<1>13. /\ IsFiniteSet(Missed') /\ IsFiniteSet(Behind')
       /\ Cardinality(Missed') \in Nat /\ Cardinality(Behind') \in Nat
  <2>1. Behind' \subseteq Missed'
    BY DEF Behind
  <2>2. Missed' \subseteq Missed
    BY <1>11
  <2>3. QED
    BY <1>12, <2>1, <2>2, FS_Subset, FS_CardinalityType
<1>14. Cardinality(Missed') <= Cardinality(Missed)
  BY <1>11, <1>12, FS_Subset
<1>15. Cardinality(Behind') <= Cardinality(Behind) + c
  <2> DEFINE M == {i \in Missed : /\ call.offset < Place(S, i)
                                  /\ Place(S, i) <= call.offset + c}
  <2>1. M \in SUBSET S /\ call.offset \in Nat
    BY DEF Missed, ListTyped
  <2>2. IsFiniteSet(M) /\ Cardinality(M) <= c /\ Cardinality(M) \in Nat
    BY <1>5, <1>6, <2>1, PlacesHold
  <2>3. ASSUME NEW i \in Behind' PROVE i \in Behind \cup M
    <3>1. i \in Missed' /\ Place(S', i) <= call.offset
      BY <1>7 DEF Behind
    <3>2. i \in Missed /\ i \in S \ D(call.kind)
      BY <1>11, <3>1 DEF Missed
    <3>3. Place(S, i) <= Place(S', i) + c
      BY <1>5, <1>10, <3>2, PlaceAfterRemoval DEF c
    <3>4. Place(S, i) \in Nat /\ Place(S', i) \in Nat
      <4>1. S' \in SUBSET Nat /\ IsFiniteSet(S')
        BY <1>5, <1>10, FS_Subset
      <4>2. QED
        BY <1>5, <4>1, PlaceType
    <3>5. Place(S, i) <= call.offset + c
      BY <1>6, <2>1, <3>1, <3>3, <3>4
    <3>6. CASE Place(S, i) <= call.offset
      BY <3>2, <3>6 DEF Behind
    <3>7. CASE ~(Place(S, i) <= call.offset)
      BY <2>1, <3>2, <3>4, <3>5, <3>7
    <3>8. QED
      BY <3>6, <3>7
  <2> HIDE DEF M
  <2>4. Behind' \subseteq Behind \cup M
    BY <2>3
  <2>5. IsFiniteSet(Behind \cup M)
        /\ Cardinality(Behind \cup M)
             = Cardinality(Behind) + Cardinality(M) - Cardinality(Behind \cap M)
    BY <1>12, <2>2, FS_Union
  <2>6. Cardinality(Behind') <= Cardinality(Behind \cup M)
    BY <2>4, <2>5, FS_Subset
  <2>7. Cardinality(Behind \cap M) \in Nat
    BY <2>2, FS_Subset, FS_CardinalityType
  <2>8. QED
    BY <1>6, <1>12, <1>13, <2>2, <2>5, <2>6, <2>7
<1>16. MissedAreBehind'
  <2>1. CASE call.on
    BY <1>6, <1>7, <1>12, <1>13, <1>15, <2>1 DEF MissedAreBehind, ListTyped
  <2>2. CASE ~call.on
    BY <1>7, <1>12, <1>13, <1>14, <2>2 DEF MissedAreBehind, ListTyped
  <2>3. QED
    BY <2>1, <2>2
<1>17. QED
  BY <1>1, <1>3, <1>7, <1>8, <1>9, <1>16 DEF D

(* At its beginning, and when there is none, a list_all has missed nothing. *)
LEMMA StartKeepsList ==
    ASSUME ListInv, NEW k \in Kind, StartList(k)
    PROVE  /\ ListInv' /\ UNCHANGED <<rows, fresh>>
           /\ call'.on /\ call'.kind = k /\ call'.start = Ids(k)
           /\ DOMAIN call'.items = {} /\ call'.gone = 0
<1> USE DEF ListInv
<1>1. /\ rows' = rows /\ fresh' = fresh
      /\ DOMAIN call' = {"on", "kind", "offset", "items", "start", "gone"}
      /\ call'.on /\ call'.kind = k /\ call'.start = Ids(k) /\ call'.offset = 0
      /\ call'.items = << >> /\ call'.gone = 0
  BY DEF StartList, NoCall
<1>2. DOMAIN call'.items = {}
  BY <1>1
<1>3. \A m \in Kind : Ids(m)' = Ids(m)
  BY <1>1 DEF Ids
<1>4. ListTyped'
  BY <1>1, <1>2, <1>3 DEF ListTyped
<1>5. ItemsAreRows'
  BY <1>2 DEF ItemsAreRows
<1>6. Behind' = {}
  <2> SUFFICES ASSUME NEW i \in Behind' PROVE FALSE
    OBVIOUS
  <2>1. i \in Ids(k)
    BY <1>1, <1>3 DEF Behind, Missed
  <2>2. Place(Ids(k), i) \in Nat \ {0}
    BY <2>1, RowsAreFinite, PlaceType
  <2>3. Place(Ids(k), i) <= 0
    BY <1>1, <1>3 DEF Behind
  <2>4. QED
    BY <2>2, <2>3
<1>7. MissedAreBehind'
  BY <1>1, <1>6, FS_EmptySet DEF MissedAreBehind
<1>8. QED
  BY <1>1, <1>2, <1>4, <1>5, <1>7

LEMMA ForgetKeepsList ==
    ASSUME ListInv, call' = NoCall, UNCHANGED <<rows, fresh>>
    PROVE  ListInv'
<1> USE DEF ListInv
<1>1. /\ rows' = rows /\ fresh' = fresh
      /\ DOMAIN call' = {"on", "kind", "offset", "items", "start", "gone"}
      /\ call'.on \in BOOLEAN /\ ~call'.on /\ call'.kind = "suite" /\ call'.start = {} /\ call'.offset = 0
      /\ call'.items = << >> /\ call'.gone = 0
  BY DEF NoCall
<1>2. DOMAIN call'.items = {}
  BY <1>1
<1>3. ListTyped'
  BY <1>1, <1>2, Kinds DEF ListTyped, Ids
<1>4. ItemsAreRows'
  BY <1>2 DEF ItemsAreRows
<1>5. Missed' = {}
  BY <1>1 DEF Missed
<1>6. MissedAreBehind'
  BY <1>1, <1>5, FS_EmptySet DEF MissedAreBehind
<1>7. QED
  BY <1>3, <1>4, <1>6

(* A page lists the rows of its places and leaves none behind; the last page,
   the first that is not full, leaves none before it either. *)
LEMMA PageKeepsList ==
    ASSUME ListInv, ListPage
    PROVE  /\ ListInv' /\ UNCHANGED <<rows, fresh>>
           /\ call'.kind = call.kind /\ call'.start = call.start /\ call'.gone = call.gone
           /\ DOMAIN call.items \subseteq DOMAIN call'.items
           /\ DOMAIN call'.items \subseteq DOMAIN call.items \cup Ids(call.kind)
           /\ \A i \in DOMAIN call'.items :
                \/ i \in DOMAIN call.items /\ call'.items[i] = call.items[i]
                \/ i \in Ids(call.kind) /\ call'.items[i] = rows[call.kind][i].key
<1> USE DEF ListInv
<1> DEFINE k == call.kind
           page == Filter(k, call.offset, Limit)
<1>1. /\ rows' = rows /\ fresh' = fresh /\ DOMAIN call' = DOMAIN call
      /\ call.on /\ call'.on = Full(page)
      /\ call'.kind = k /\ call'.start = call.start /\ call'.gone = call.gone
      /\ call'.offset = call.offset + Limit
      /\ call'.items = [i \in DOMAIN call.items \cup page |->
                          IF i \in page THEN rows[k][i].key ELSE call.items[i]]
  BY DEF ListPage, NextOffset, ListTyped
<1>2. /\ DOMAIN call'.items = DOMAIN call.items \cup page
      /\ \A i \in page : call'.items[i] = rows[k][i].key
      /\ \A i \in DOMAIN call.items \ page : call'.items[i] = call.items[i]
  BY <1>1
<1>3. page = {i \in Ids(k) : call.offset < Place(Ids(k), i)
                               /\ Place(Ids(k), i) <= call.offset + Limit}
  BY DEF Filter, Place
<1>4. /\ k \in Kind /\ Ids(k) \in SUBSET Nat /\ IsFiniteSet(Ids(k))
      /\ IsFiniteSet(Missed) /\ IsFiniteSet(Behind)
  BY RowsAreFinite DEF ListTyped
<1>5. \A i \in Ids(k) : Place(Ids(k), i) \in Nat
  BY <1>4, PlaceType
<1>6. /\ call.offset \in Nat /\ Limit \in Nat \ {0} /\ call.gone \in Nat
      /\ page \subseteq Ids(k) /\ Ids(k) \subseteq 1 .. fresh - 1
  BY <1>3, <1>4, ListBounds DEF ListTyped
<1>7. \A m \in Kind : Ids(m)' = Ids(m)
  BY <1>1 DEF Ids
<1>8. ListTyped'
  BY <1>1, <1>2, <1>6, <1>7 DEF ListTyped, Full
<1>9. ItemsAreRows'
  BY <1>1, <1>2, <1>6, <1>7 DEF ItemsAreRows, ListTyped
<1>10. Missed' = Missed \ page
  BY <1>1, <1>2, <1>7, <1>4 DEF Missed
<1>11. Behind' \subseteq Behind
  <2> SUFFICES ASSUME NEW i \in Behind' PROVE i \in Behind
    OBVIOUS
  <2>1. i \in Missed /\ i \notin page /\ Place(Ids(k), i) <= call.offset + Limit
    BY <1>1, <1>7, <1>4, <1>10 DEF Behind
  <2>2. i \in Ids(k)
    BY <2>1 DEF Missed
  <2>3. ~(call.offset < Place(Ids(k), i))
    BY <1>3, <2>1, <2>2
  <2>4. Place(Ids(k), i) <= call.offset
    BY <1>5, <1>6, <2>2, <2>3
  <2>5. QED
    BY <2>1, <2>4 DEF Behind
<1>12. ASSUME ~call'.on PROVE Missed' \subseteq Behind
  <2> SUFFICES ASSUME NEW i \in Missed' PROVE i \in Behind
    OBVIOUS
  <2>1. i \in Missed /\ i \notin page /\ i \in Ids(k)
    BY <1>10 DEF Missed
  <2>2. Cardinality(page) \in Nat
    BY <1>4, <1>6, FS_Subset, FS_CardinalityType
  <2>3. ~Full(page)
    BY <1>1, <1>12
  <2>4. Cardinality(page) < Limit
    BY <1>6, <2>2, <2>3 DEF Full
  <2>5. Place(Ids(k), i) <= call.offset + Limit
    BY <1>3, <1>4, <1>6, <2>1, <2>4, LastPage
  <2>6. Place(Ids(k), i) <= call.offset
    BY <1>3, <1>5, <1>6, <2>1, <2>5
  <2>7. QED
    BY <2>1, <2>6 DEF Behind
<1>13. Cardinality(Behind) <= call.gone /\ Cardinality(Behind) \in Nat
  BY <1>1, RowsAreFinite DEF MissedAreBehind
<1>14. MissedAreBehind'
  <2>1. /\ Cardinality(Behind') <= Cardinality(Behind) /\ Cardinality(Behind') \in Nat
    BY <1>4, <1>11, FS_Subset, FS_CardinalityType
  <2>2. ASSUME ~call'.on
        PROVE  Cardinality(Missed') <= Cardinality(Behind) /\ Cardinality(Missed') \in Nat
    BY <1>4, <1>12, <2>2, FS_Subset, FS_CardinalityType
  <2>3. QED
    BY <1>1, <1>6, <1>13, <2>1, <2>2 DEF MissedAreBehind
<1>15. QED
  BY <1>1, <1>2, <1>6, <1>8, <1>9, <1>14

(* The list's part of the first state. *)
LEMMA ListStarts == ASSUME ListInit PROVE ListInv
<1>1. /\ fresh = 1 /\ DOMAIN rows = Kind /\ \A k \in Kind : Ids(k) = {}
      /\ DOMAIN call = {"on", "kind", "offset", "items", "start", "gone"}
      /\ call.on \in BOOLEAN /\ ~call.on /\ call.kind = "suite" /\ call.start = {} /\ call.offset = 0
      /\ call.items = << >> /\ call.gone = 0
  BY DEF ListInit, NoCall, Ids
<1>2. DOMAIN call.items = {} /\ Missed = {}
  BY <1>1 DEF Missed
<1>3. ListTyped
  BY <1>1, <1>2, ListBounds, Kinds DEF ListTyped
<1>4. MissedAreBehind
  BY <1>1, <1>2, FS_EmptySet DEF MissedAreBehind
<1>5. QED
  BY <1>2, <1>3, <1>4 DEF ListInv, ItemsAreRows

(* What the inductive invariant says of the lists. *)
LEMMA ListsAreComplete == ListInv => MissedAreShifted
BY DEF ListInv, ListTyped, MissedAreBehind, Missed, MissedAreShifted

(* A finished list_all without a removal has every row that was there. *)
LEMMA NothingMissed ==
    ASSUME ListInv, ~call.on, call.gone = 0
    PROVE  call.start \cap Ids(call.kind) \subseteq DOMAIN call.items
<1>1. IsFiniteSet(Missed) /\ Cardinality(Missed) \in Nat
  BY RowsAreFinite DEF ListInv
<1>2. Cardinality(Missed) = 0
  BY <1>1 DEF ListInv, MissedAreBehind
<1>3. Missed = {}
  BY <1>1, <1>2, FS_EmptySet
<1>4. QED
  BY <1>3 DEF Missed

=============================================================================
