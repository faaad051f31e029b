--------------------------- MODULE QueryPages_proofs ---------------------------
(***************************************************************************)
(* Proofs about QueryPages, for every collection of keys, every limit and  *)
(* whatever changes between the requests.                                  *)
(***************************************************************************)
EXTENDS QueryPages, FiniteSetTheorems, SequenceTheorems, TLAPS

-----------------------------------------------------------------------------
(* The inductive invariant.                                                 *)

Ascending(s) == \A j, k \in DOMAIN s : j < k => s[j] < s[k]

(* What has a key.                                                          *)
Keyed == IF operation = "dependents" THEN Nat ELSE Items

(* The collection can be put in order, whether it is listed or was found.   *)
(* In a comparison alone may items share a key.                             *)
Collection ==
  /\ \E S : paths \in Seq(S)
  /\ items \subseteq Nat \ {0} /\ items \subseteq Keyed /\ IsFiniteSet(items)
  /\ stable \subseteq items
  /\ operation # "comparison" => \A j, k \in items : KeyOf(j) = KeyOf(k) => j = k

(* The cursor is the key of the last item that was sent; before the first   *)
(* page there is none.                                                      *)
CursorIsLast ==
  /\ received \in Seq(Keyed)
  /\ cursor = {} \/ \E c \in Nat : cursor = {c}
  /\ ~ended /\ cursor = {} => received = <<>>
  /\ \A c \in cursor : received # <<>> /\ c = KeyOf(received[Len(received)])
  /\ ~answered => received = <<>> /\ stable = {} /\ cursor = {} /\ ~ended

(* An item was sent, or one before it that shares its key.                  *)
Sent(k) ==
  /\ \E j \in ToSet(received) : j <= k /\ KeyOf(j) = KeyOf(k)
  /\ operation # "comparison" => k \in ToSet(received)

(* So it is for all that has been there throughout, up to the cursor.       *)
Delivered ==
  \A k \in stable : ended \/ (\E c \in cursor : KeyOf(k) <= c) => Sent(k)

OperationOK == operation \in {"dependents", "listing", "comparison"}

Inv ==
  /\ OperationOK
  /\ Collection
  /\ CursorIsLast
  /\ Ascending(received)
  /\ Delivered
  /\ operation # "comparison" => ~refused

(* Keys follow the numbers of the items.                                    *)
LEMMA KeysFollow ==
  /\ Keyed \subseteq Nat
  /\ \A k \in Keyed : KeyOf(k) \in Nat
  /\ \A j, k \in Keyed : j <= k => KeyOf(j) <= KeyOf(k)
<1>1. CASE operation = "dependents"
  BY <1>1 DEF Keyed, KeyOf
<1>2. CASE operation # "dependents"
  <2>1. Keyed = Items /\ \A k : KeyOf(k) = Key[k]
    BY <1>2 DEF Keyed, KeyOf
  <2>2. /\ \A k \in Items : k \in Nat /\ Key[k] \in Nat
        /\ \A j, k \in Items : j < k => Key[j] <= Key[k]
    BY ItemsAssumption
  <2>3. ASSUME NEW j \in Items, NEW k \in Items, j <= k
        PROVE  Key[j] <= Key[k]
    <3>1. j < k \/ j = k
      BY <2>2, <2>3
    <3> QED
      BY <2>2, <3>1
  <2> QED
    BY <2>1, <2>2, <2>3
<1> QED
  BY <1>1, <1>2

-----------------------------------------------------------------------------
(* The order of the items.                                                  *)

UpTo(c) == {j \in items : j <= c}

LEMMA RankType ==
  ASSUME Collection
  PROVE  /\ Cardinality(items) \in Nat
         /\ \A c : IsFiniteSet(UpTo(c)) /\ Cardinality(UpTo(c)) \in 0..Cardinality(items)
         /\ \A k \in items : Cardinality(UpTo(k)) \in 1..Cardinality(items)
<1>1. IsFiniteSet(items) /\ Cardinality(items) \in Nat
  BY FS_CardinalityType DEF Collection
<1>2. ASSUME NEW c
      PROVE  IsFiniteSet(UpTo(c)) /\ Cardinality(UpTo(c)) \in 0..Cardinality(items)
  <2>1. UpTo(c) \in SUBSET items
    BY DEF UpTo
  <2>2. QED
    BY <1>1, <2>1, FS_Subset, FS_CardinalityType
<1>3. ASSUME NEW k \in items
      PROVE  Cardinality(UpTo(k)) \in 1..Cardinality(items)
  <2>1. k \in UpTo(k)
    BY DEF UpTo, Collection
  <2>2. Cardinality(UpTo(k)) # 0
    BY <1>2, <2>1, FS_EmptySet
  <2>3. QED
    BY <1>1, <1>2, <2>2
<1>4. QED
  BY <1>1, <1>2, <1>3

(* Of two limits with an item between them, the lower has fewer items below.*)
LEMMA RankGrows ==
  ASSUME Collection, NEW c \in Nat, NEW k \in items, c < k
  PROVE  Cardinality(UpTo(c)) < Cardinality(UpTo(k))
<1>1. k \in Nat /\ \A j \in items : j \in Nat
  BY DEF Collection
<1>2. UpTo(c) \in SUBSET UpTo(k)
  <2>1. \A j \in items : j <= c => j <= k
    BY <1>1
  <2>2. QED
    BY <2>1 DEF UpTo
<1>3. UpTo(c) # UpTo(k)
  BY <1>1 DEF UpTo
<1>4. IsFiniteSet(UpTo(k))
  BY RankType
<1>5. /\ Cardinality(UpTo(c)) <= Cardinality(UpTo(k))
      /\ Cardinality(UpTo(c)) # Cardinality(UpTo(k))
  BY <1>2, <1>3, <1>4, FS_Subset
<1>6. QED
  BY <1>5, RankType

(* Every place is taken.                                                    *)
LEMMA RankOnto ==
  ASSUME Collection, NEW n \in 1..Cardinality(items)
  PROVE  \E k \in items : Cardinality(UpTo(k)) = n
<1> DEFINE N    == Cardinality(items)
           rank == [k \in items |-> Cardinality(UpTo(k))]
<1>1. N \in Nat /\ rank \in [items -> 1..N]
  BY RankType
<1>2. ASSUME NEW j \in items, NEW k \in items, rank[j] = rank[k]
      PROVE  j = k
  <2>1. j \in Nat /\ k \in Nat
    BY DEF Collection
  <2>2. rank[j] = Cardinality(UpTo(j)) /\ rank[k] = Cardinality(UpTo(k))
    OBVIOUS
  <2>3. ~(j < k)
    BY <1>2, <2>1, <2>2, RankGrows, RankType
  <2>4. ~(k < j)
    BY <1>2, <2>1, <2>2, RankGrows, RankType
  <2>5. QED
    BY <2>1, <2>3, <2>4
<1>3. rank \in Injection(items, 1..N)
  BY <1>1, <1>2 DEF Injection, IsInjective
<1>4. IsFiniteSet(1..N) /\ Cardinality(1..N) = N
  BY <1>1, FS_Interval
<1>5. rank \in Surjection(items, 1..N)
  BY <1>3, <1>4, FS_Injection
<1>6. PICK k \in items : rank[k] = n
  BY <1>5 DEF Surjection
<1>7. QED
  BY <1>6

LEMMA OrderedPlaces ==
  ASSUME Collection
  PROVE  /\ Ordered \in Seq(items) /\ Len(Ordered) = Cardinality(items)
         /\ \A n \in 1..Len(Ordered) :
              Ordered[n] \in items /\ Cardinality(UpTo(Ordered[n])) = n
         /\ \A k \in items : \E n \in 1..Len(Ordered) : Ordered[n] = k
<1> DEFINE N == Cardinality(items)
<1>1. N \in Nat
  BY RankType
<1>2. Ordered = [n \in 1..N |-> CHOOSE k \in items : Cardinality(UpTo(k)) = n]
  BY DEF Ordered, UpTo
<1>3. ASSUME NEW n \in 1..N
      PROVE  Ordered[n] \in items /\ Cardinality(UpTo(Ordered[n])) = n
  <2>1. \E k \in items : Cardinality(UpTo(k)) = n
    BY RankOnto
  <2>2. Ordered[n] = CHOOSE k \in items : Cardinality(UpTo(k)) = n
    BY <1>2
  <2>3. QED
    BY <2>1, <2>2
<1>4. Ordered \in [1..N -> items]
  BY <1>2, <1>3
<1>5. Ordered \in Seq(items) /\ Len(Ordered) = N
  BY <1>1, <1>4
<1>6. ASSUME NEW k \in items
      PROVE  \E n \in 1..N : Ordered[n] = k
  <2>1. Cardinality(UpTo(k)) \in 1..N
    BY RankType
  <2> DEFINE n == Cardinality(UpTo(k))
             j == Ordered[n]
  <2>2. j \in items /\ Cardinality(UpTo(j)) = n
    BY <1>3, <2>1
  <2>3. j \in Nat /\ k \in Nat
    BY <2>2 DEF Collection
  <2>4. ~(j < k) /\ ~(k < j)
    BY <2>1, <2>2, <2>3, RankGrows
  <2>5. QED
    BY <2>1, <2>3, <2>4
<1>7. QED
  BY <1>3, <1>5, <1>6

LEMMA OrderedAscends ==
  ASSUME Collection
  PROVE  Ascending(Ordered)
<1>1. SUFFICES ASSUME NEW j \in 1..Len(Ordered), NEW k \in 1..Len(Ordered), j < k
               PROVE  Ordered[j] < Ordered[k]
  BY OrderedPlaces, RankType DEF Ascending
<1>2. /\ Ordered[j] \in items /\ Cardinality(UpTo(Ordered[j])) = j
      /\ Ordered[k] \in items /\ Cardinality(UpTo(Ordered[k])) = k
  BY OrderedPlaces
<1>3. Ordered[j] \in Nat /\ Ordered[k] \in Nat
  BY <1>2 DEF Collection
<1>4. ~(Ordered[k] < Ordered[j]) /\ Ordered[j] # Ordered[k]
  BY <1>1, <1>2, <1>3, RankGrows, RankType, OrderedPlaces
<1>5. QED
  BY <1>3, <1>4

-----------------------------------------------------------------------------
(* A page.                                                                  *)

(* The items after the cursor are those whose keys are above it.            *)
LEMMA AfterCursor ==
  ASSUME Collection, NEW c \in Nat, cursor = {c}
  PROVE  /\ Start \in 0..Len(Ordered)
         /\ \A n \in 1..Len(Ordered) : KeyOf(Ordered[n]) <= c <=> n <= Start
<1> DEFINE below == {k \in items : KeyOf(k) <= c}
<1>1. Start = Cardinality(below)
  BY DEF Start
<1>2. IsFiniteSet(below) /\ Cardinality(below) \in 0..Len(Ordered)
  <2>1. below \in SUBSET items /\ IsFiniteSet(items)
    BY DEF Collection
  <2> QED
    BY <2>1, FS_Subset, FS_CardinalityType, OrderedPlaces
<1>3. \A j \in items : j \in Nat /\ KeyOf(j) \in Nat
  BY KeysFollow DEF Collection
<1>4. \A i, j \in items : i <= j => KeyOf(i) <= KeyOf(j)
  BY KeysFollow DEF Collection
<1>5. ASSUME NEW n \in 1..Len(Ordered)
      PROVE  KeyOf(Ordered[n]) <= c <=> n <= Start
  <2> DEFINE k == Ordered[n]
  <2>1. k \in items /\ Cardinality(UpTo(k)) = n /\ IsFiniteSet(UpTo(k))
    BY OrderedPlaces, RankType
  <2>2. k \in Nat /\ KeyOf(k) \in Nat
    BY <1>3, <2>1
  <2> HIDE DEF k
  <2>3. CASE KeyOf(k) <= c
    <3>1. \A j \in items : j <= k => KeyOf(j) <= c
      BY <1>3, <1>4, <2>1, <2>2, <2>3
    <3>2. UpTo(k) \in SUBSET below
      BY <3>1 DEF UpTo
    <3>3. Cardinality(UpTo(k)) <= Cardinality(below)
      BY <1>2, <3>2, FS_Subset
    <3>4. QED
      BY <1>1, <2>1, <2>3, <3>3 DEF k
  <2>4. CASE ~(KeyOf(k) <= c)
    <3>1. \A j \in items : KeyOf(j) <= c => j <= k
      <4>1. ASSUME NEW j \in items, KeyOf(j) <= c, ~(j <= k)
            PROVE  FALSE
        <5>1. KeyOf(k) <= KeyOf(j)
          BY <1>3, <1>4, <2>1, <2>2, <4>1
        <5> QED
          BY <1>3, <2>2, <2>4, <4>1, <5>1
      <4> QED
        BY <4>1
    <3>2. below \in SUBSET UpTo(k)
      BY <3>1 DEF UpTo
    <3>3. k \in UpTo(k) /\ k \notin below
      BY <2>1, <2>2, <2>4 DEF UpTo
    <3>4. Cardinality(below) <= Cardinality(UpTo(k)) /\ Cardinality(below) # Cardinality(UpTo(k))
      BY <2>1, <3>2, <3>3, FS_Subset
    <3>5. QED
      BY <1>1, <1>2, <2>1, <2>4, <3>4 DEF k
  <2>5. QED
    BY <2>3, <2>4 DEF k
<1>6. QED
  BY <1>1, <1>2, <1>5

LEMMA StartType ==
  ASSUME Collection, CursorIsLast
  PROVE  Start \in 0..Len(Ordered)
<1>1. CASE cursor = {}
  <2>1. Start = Cardinality({})
    BY <1>1 DEF Start
  <2>2. QED
    BY <2>1, FS_EmptySet, OrderedPlaces, RankType
<1>2. CASE \E c \in Nat : cursor = {c}
  BY <1>2, AfterCursor
<1>3. QED
  BY <1>1, <1>2 DEF CursorIsLast

(* The pages follow the order from the cursor on; a page has an item unless *)
(* none is left.                                                            *)
LEMMA PageOf ==
  ASSUME Collection, CursorIsLast, NEW limit \in 1..(MaxResults + 1)
  PROVE  /\ Page(limit) \in Seq(items)
         /\ Start + Len(Page(limit)) \in 0..Len(Ordered)
         /\ \A n \in 1..Len(Page(limit)) : Page(limit)[n] = Ordered[Start + n]
         /\ Remaining(Page(limit)) \in Nat
         /\ Remaining(Page(limit)) > 0 => Page(limit) # <<>>
<1> DEFINE rest    == SubSeq(Ordered, Start + 1, Len(Ordered))
           applied == IF limit < MaxResults THEN limit ELSE MaxResults
           size    == IF applied < Len(rest) THEN applied ELSE Len(rest)
<1>1. Start \in 0..Len(Ordered) /\ Len(Ordered) \in Nat /\ Ordered \in Seq(items)
  BY StartType, OrderedPlaces, RankType
<1>2. /\ rest \in Seq(items) /\ Len(rest) = Len(Ordered) - Start
      /\ \A n \in 1..Len(rest) : rest[n] = Ordered[Start + n]
  <2>1. rest = [n \in 1..(Len(Ordered) - Start) |-> Ordered[Start + n]]
    BY <1>1
  <2>2. Len(rest) = Len(Ordered) - Start
    BY <1>1
  <2>3. \A n \in 1..(Len(Ordered) - Start) : Ordered[Start + n] \in items
    BY <1>1
  <2>4. QED
    BY <1>1, <2>1, <2>2, <2>3
<1>3. applied \in Nat \ {0}
  BY BoundsAssumption
<1>4. Page(limit) = SubSeq(rest, 1, size)
  BY DEF Page
<1> HIDE DEF rest, applied
<1>5. size \in 0..Len(rest)
  BY <1>1, <1>2, <1>3
<1>6. /\ Page(limit) \in Seq(items) /\ Len(Page(limit)) = size
      /\ \A n \in 1..size : Page(limit)[n] = rest[n]
  <2>1. Page(limit) = [n \in 1..size |-> rest[n]]
    BY <1>2, <1>4, <1>5
  <2>2. \A n \in 1..size : rest[n] \in items
    BY <1>2, <1>5
  <2>3. QED
    BY <1>5, <2>1, <2>2
<1>7. Remaining(Page(limit)) = Len(rest) - size
  BY <1>1, <1>2, <1>5, <1>6 DEF Remaining
<1>8. Remaining(Page(limit)) \in Nat /\ (Remaining(Page(limit)) > 0 => size > 0)
  <2>1. Len(rest) \in Nat
    BY <1>1, <1>2
  <2>2. CASE applied < Len(rest)
    BY <1>3, <1>7, <2>1, <2>2
  <2>3. CASE ~(applied < Len(rest))
    BY <1>7, <2>1, <2>3
  <2>4. QED
    BY <2>2, <2>3
<1>9. QED
  BY <1>1, <1>2, <1>5, <1>6, <1>8

LEMMA PageAscends ==
  ASSUME Collection, CursorIsLast, NEW limit \in 1..(MaxResults + 1),
         NEW j \in 1..Len(Page(limit)), NEW k \in 1..Len(Page(limit)), j < k
  PROVE  Page(limit)[j] < Page(limit)[k]
<1> DEFINE page == Page(limit)
<1>1. /\ page \in Seq(items) /\ Start + Len(page) \in 0..Len(Ordered)
      /\ \A n \in 1..Len(page) : page[n] = Ordered[Start + n]
  BY PageOf
<1>2. Start \in 0..Len(Ordered) /\ Ordered \in Seq(items) /\ Len(Ordered) \in Nat
  BY StartType, OrderedPlaces, RankType
<1> HIDE DEF page
<1>3. Len(page) \in Nat /\ j \in 1..Len(page) /\ k \in 1..Len(page)
  BY <1>1 DEF page
<1>4. Start + j \in 1..Len(Ordered) /\ Start + k \in 1..Len(Ordered) /\ Start + j < Start + k
  BY <1>1, <1>2, <1>3
<1>5. Ordered[Start + j] < Ordered[Start + k]
  BY <1>2, <1>4, OrderedAscends DEF Ascending
<1>6. QED
  BY <1>1, <1>3, <1>5 DEF page

-----------------------------------------------------------------------------
(* Every step keeps the invariant.                                          *)

LEMMA InitInv ==
  ASSUME Init
  PROVE  Inv
<1>1. items \subseteq Nat \ {0} /\ items \subseteq Keyed /\ IsFiniteSet(items)
  <2>1. items = {} \/ (operation # "dependents" /\ items \in SUBSET Items)
    BY DEF Init, Collections
  <2> QED
    BY <2>1, ItemsAssumption, FS_Subset, FS_EmptySet DEF Keyed
<1>2. operation # "comparison" => \A j, k \in items : KeyOf(j) = KeyOf(k) => j = k
  BY DEF Init, Collections, KeyOf
<1>3. paths = <<>>
  BY DEF Init, SearchInit
<1>4. paths \in Seq({})
  BY <1>3
<1>5. Collection
  BY <1>1, <1>2, <1>4 DEF Init, Collection
<1>6. CursorIsLast
  BY DEF Init, CursorIsLast
<1>7. QED
  BY <1>5, <1>6 DEF Init, Inv, OperationOK, Ascending, Delivered

LEMMA SearchKeeps ==
  ASSUME Inv, SearchNext, UNCHANGED pageVars
  PROVE  Inv'
<1>1. PICK S : paths \in Seq(S)
  BY DEF Inv, Collection
<1>2. \E T : paths' \in Seq(T)
  <2>1. CASE Extend
    <3>1. PICK x : paths' = Append(paths, x)
      BY <2>1 DEF Extend
    <3>2. paths' \in Seq(S \cup {x})
      BY <1>1, <3>1
    <3>3. QED
      BY <3>2
  <2>2. CASE paths' = paths
    BY <1>1, <2>2
  <2>3. QED
    BY <2>1, <2>2 DEF SearchNext, Take, SkipSeen, Truncate, Finish
<1>3. QED
  BY <1>2
  DEF Inv, OperationOK, pageVars, Collection, CursorIsLast, Ascending, Delivered, Sent, Keyed, KeyOf

LEMMA AnswerKeeps ==
  ASSUME Inv, Answer
  PROVE  Inv'
<1>1. PICK S : paths \in Seq(S)
  BY DEF Inv, Collection
<1>2. DOMAIN paths = 1..Len(paths) /\ Len(paths) \in Nat
  BY <1>1
<1>3. IsFiniteSet(DOMAIN paths) /\ DOMAIN paths \subseteq Nat \ {0}
  <2>1. IsFiniteSet(DOMAIN paths)
    BY <1>2, FS_Interval
  <2>2. DOMAIN paths \subseteq Nat \ {0}
    BY <1>2
  <2> QED
    BY <2>1, <2>2
<1>4. operation = "dependents" /\ operation' = "dependents" /\ items' = DOMAIN paths
  BY DEF Answer
<1>5. Collection'
  BY <1>1, <1>3, <1>4 DEF Answer, Collection, searchVars, Keyed, KeyOf
<1>6. received = <<>> /\ cursor = {} /\ ~ended
  BY DEF Inv, CursorIsLast, Answer
<1>7. QED
  BY <1>4, <1>5, <1>6 DEF Inv, OperationOK, Answer, CursorIsLast, Ascending, Delivered

LEMMA ChangeKeeps ==
  ASSUME Inv, Change
  PROVE  Inv'
<1>1. PICK S : paths \in Seq(S)
  BY DEF Inv, Collection
<1>2. /\ operation' = operation /\ operation # "dependents" /\ items' \in Collections(operation)
      /\ paths' = paths /\ stable' = stable \cap items'
  BY DEF Change, searchVars
<1>3. items' \in SUBSET Items /\ IsFiniteSet(items')
  BY <1>2, ItemsAssumption, FS_Subset DEF Collections
<1>4. operation = "listing" => \A j, k \in items' : Key[j] = Key[k] => j = k
  BY <1>2 DEF Collections
<1>5. operation \in {"dependents", "listing", "comparison"}
  BY DEF Inv, OperationOK
<1>6. Collection'
  BY <1>1, <1>2, <1>3, <1>4, <1>5, ItemsAssumption DEF Collection, Keyed, KeyOf
<1>7. QED
  BY <1>2, <1>6
  DEF Inv, OperationOK, Change, CursorIsLast, Ascending, Delivered, Sent, Keyed, KeyOf

(* A page whose items have keys of their own is not refused.                *)
LEMMA RefuseKeeps ==
  ASSUME Inv, NEW limit \in 1..(MaxResults + 1), Refuse(limit)
  PROVE  Inv'
<1> DEFINE page == Page(limit)
<1>1. operation = "comparison"
  <2> SUFFICES ASSUME operation # "comparison"
               PROVE  FALSE
    OBVIOUS
  <2>1. page \in Seq(items)
    BY PageOf DEF Inv
  <2>2. PICK n \in 2..Len(page) : KeyOf(page[n - 1]) >= KeyOf(page[n])
    BY DEF Refuse, Unordered
  <2>3. page[n - 1] < page[n]
    BY <2>1, PageAscends DEF Inv
  <2> HIDE DEF page
  <2>4. n - 1 \in 1..Len(page) /\ n \in 1..Len(page)
    BY <2>1
  <2> DEFINE i == page[n - 1]
             j == page[n]
  <2>5. i \in items /\ j \in items
    BY <2>1, <2>4
  <2>6. i \in Keyed /\ j \in Keyed /\ (KeyOf(i) = KeyOf(j) => i = j)
    BY <2>5 DEF Inv, Collection
  <2>7. KeyOf(i) \in Nat /\ KeyOf(j) \in Nat /\ i \in Nat /\ j \in Nat
    BY <2>6, KeysFollow
  <2> HIDE DEF i, j
  <2>8. i < j /\ KeyOf(i) >= KeyOf(j)
    BY <2>2, <2>3 DEF i, j
  <2>9. KeyOf(i) <= KeyOf(j)
    BY <2>6, <2>7, <2>8, KeysFollow
  <2> QED
    BY <2>6, <2>7, <2>8, <2>9
<1>2. UNCHANGED <<searchVars, operation, answered, items, cursor, ended, received, stable, changes>>
  BY DEF Refuse
<1>3. QED
  BY <1>1, <1>2
  DEF Inv, OperationOK, searchVars, Collection, CursorIsLast, Ascending, Delivered, Sent, Keyed, KeyOf

(* A page follows upon what was sent, and skips nothing that was there.     *)
LEMMA AskKeeps ==
  ASSUME Inv, NEW limit \in 1..(MaxResults + 1), Ask(limit)
  PROVE  Inv'
<1> DEFINE page == Page(limit)
           old  == Len(received)
           rest == Remaining(page)
<1>1. /\ page \in Seq(items) /\ Start + Len(page) \in 0..Len(Ordered) /\ rest \in Nat
      /\ \A n \in 1..Len(page) : page[n] = Ordered[Start + n]
      /\ rest > 0 => page # <<>>
  BY PageOf DEF Inv
<1>2. /\ Start \in 0..Len(Ordered) /\ Ordered \in Seq(items) /\ Len(Ordered) \in Nat
      /\ items \subseteq Keyed /\ Keyed \subseteq Nat /\ \A k \in items : k \in Nat
  BY StartType, OrderedPlaces, RankType, KeysFollow DEF Inv, Collection
<1>3. /\ Ascending(Ordered)
      /\ \A n \in 1..Len(Ordered) : Ordered[n] \in Keyed /\ Ordered[n] \in Nat
  <2>1. Ascending(Ordered)
    BY OrderedAscends DEF Inv
  <2>2. \A n \in 1..Len(Ordered) : Ordered[n] \in items
    BY <1>2
  <2> QED
    BY <1>2, <2>1, <2>2
<1>4. /\ received' = received \o page /\ ended' = (cursor' = {})
      /\ cursor' = IF rest > 0 THEN {KeyOf(Last(page))} ELSE {}
      /\ UNCHANGED <<searchVars, operation, answered, items, stable, changes>>
      /\ answered /\ ~ended /\ ~refused'
  BY DEF Ask
<1>5. /\ received \in Seq(Keyed) /\ page \in Seq(Keyed)
      /\ received \in Seq(Nat) /\ page \in Seq(Nat)
  <2>1. received \in Seq(Keyed)
    BY DEF Inv, CursorIsLast
  <2>2. \A T, U : T \subseteq U => Seq(T) \subseteq Seq(U)
    OBVIOUS
  <2>3. page \in Seq(Keyed)
    BY <1>1, <1>2, <2>2
  <2>4. received \in Seq(Nat) /\ page \in Seq(Nat)
    BY <1>2, <2>1, <2>2, <2>3
  <2> QED
    BY <2>1, <2>3, <2>4
<1>keys. Keyed' = Keyed /\ \A k : KeyOf(k)' = KeyOf(k)
  BY <1>4 DEF Keyed, KeyOf
<1> HIDE DEF page, rest
<1>6. /\ received' \in Seq(Keyed) /\ received' \in Seq(Nat) /\ Len(received') = old + Len(page)
      /\ \A n \in 1..old : received'[n] = received[n]
      /\ \A n \in 1..Len(page) : received'[old + n] = page[n]
  BY <1>4, <1>5
<1>lengths. /\ old \in Nat /\ Len(page) \in Nat /\ Start \in Nat /\ Len(Ordered) \in Nat
      /\ Start + Len(page) <= Len(Ordered)
      /\ DOMAIN received = 1..old /\ DOMAIN page = 1..Len(page)
      /\ DOMAIN received' = 1..(old + Len(page))
  <2>1. /\ old \in Nat /\ Len(page) \in Nat
        /\ DOMAIN received = 1..old /\ DOMAIN page = 1..Len(page)
    BY <1>5
  <2>2. /\ Start \in Nat /\ Len(Ordered) \in Nat
        /\ Start + Len(page) <= Len(Ordered)
    BY <1>1, <1>2
  <2>3. DOMAIN received' = 1..(old + Len(page))
    BY <1>6
  <2> QED
    BY <2>1, <2>2, <2>3
<1>7. \A x : x \in ToSet(received) \/ x \in ToSet(page) => x \in ToSet(received')
  <2>1. \A n \in 1..old : n \in 1..(old + Len(page))
    BY <1>lengths
  <2>2. \A n \in 1..Len(page) : old + n \in 1..(old + Len(page))
    BY <1>lengths
  <2>3. QED
    BY <1>lengths, <1>6, <2>1, <2>2 DEF ToSet
<1>8. Collection'
  BY <1>4 DEF Inv, Collection, searchVars, Keyed, KeyOf
<1>9. Ascending(received')
  <2>1. ASSUME NEW j \in 1..Len(page), NEW k \in 1..Len(page), j < k
        PROVE  page[j] < page[k]
    BY <2>1, PageAscends DEF Inv, page
  <2>2. ASSUME NEW j \in 1..old, NEW k \in 1..Len(page)
        PROVE  received[j] < page[k]
    <3>0. old # 0
      BY <1>lengths
    <3>1. PICK c \in Nat : cursor = {c} /\ c = KeyOf(received[old])
      BY <1>4, <3>0 DEF Inv, CursorIsLast
    <3>2. received[j] <= received[old] /\ received[old] \in Keyed
      <4>1. j < old => received[j] < received[old]
        BY <1>lengths, <3>0 DEF Inv, Ascending
      <4>2. received[j] \in Nat
        BY <1>5
      <4>3. received[old] \in Keyed
        BY <1>5, <1>lengths, <3>0
      <4>4. received[old] \in Nat
        BY <1>2, <4>3
      <4>5. QED
        BY <1>lengths, <4>1, <4>2, <4>3, <4>4
    <3>3. Start + k \in 1..Len(Ordered) /\ ~(Start + k <= Start)
      BY <1>1, <1>2, <1>5
    <3> DEFINE x == Ordered[Start + k]
               y == received[old]
    <3>4. ~(KeyOf(x) <= c)
      BY <3>1, <3>3, AfterCursor DEF Inv
    <3>5. x \in Keyed /\ x \in Nat /\ y \in Keyed /\ y \in Nat /\ received[j] \in Nat
      <4>1. x \in Keyed
        BY <1>3, <3>3
      <4>2. y \in Keyed
        BY <3>2
      <4>3. received[j] \in Nat
        BY <1>5
      <4>4. QED
        BY <1>2, <4>1, <4>2, <4>3
    <3>6. page[k] = x /\ received[j] <= y /\ c = KeyOf(y)
      BY <1>1, <3>1, <3>2
    <3> HIDE DEF x, y
    <3>7. ~(x <= y)
      BY <3>4, <3>5, <3>6, KeysFollow
    <3>8. QED
      BY <3>5, <3>6, <3>7
  <2>3. \A j, k \in 1..old : j < k => received[j] < received[k]
    BY <1>5 DEF Inv, Ascending
  <2>4. SUFFICES ASSUME NEW j \in 1..(old + Len(page)), NEW k \in 1..(old + Len(page)), j < k
                 PROVE  received'[j] < received'[k]
    BY <1>5, <1>6 DEF Ascending
  <2>5. CASE k <= old
    <3>1. j \in 1..old /\ k \in 1..old
      BY <1>lengths, <2>4, <2>5
    <3>2. QED
      BY <1>6, <2>3, <2>4, <3>1
  <2>6. CASE j <= old /\ old < k
    <3>1. k - old \in 1..Len(page) /\ k = old + (k - old) /\ j \in 1..old
      BY <1>5, <2>6
    <3>2. received'[k] = page[k - old] /\ received'[j] = received[j]
      BY <1>6, <3>1
    <3>3. QED
      BY <2>2, <3>1, <3>2
  <2>7. CASE old < j
    <3>1. /\ k - old \in 1..Len(page) /\ k = old + (k - old)
          /\ j - old \in 1..Len(page) /\ j = old + (j - old) /\ j - old < k - old
      BY <1>5, <2>4, <2>7
    <3>2. received'[k] = page[k - old] /\ received'[j] = page[j - old]
      BY <1>6, <3>1
    <3>3. QED
      BY <2>1, <3>1, <3>2
  <2>8. QED
    BY <1>5, <2>4, <2>5, <2>6, <2>7
<1>10. CursorIsLast'
  <2>1. CASE rest > 0
    <3>1. page # <<>> /\ Len(page) \in Nat \ {0}
      BY <1>1, <1>5, <2>1
    <3>2. Last(page) = page[Len(page)] /\ Last(page) \in Keyed
      BY <1>5, <3>1 DEF Last
    <3>3. cursor' = {KeyOf(Last(page))} /\ ~ended' /\ KeyOf(Last(page)) \in Nat
      BY <1>4, <2>1, <3>2, KeysFollow
    <3>4. received'[Len(received')] = Last(page) /\ received' # <<>>
      BY <1>5, <1>6, <3>1, <3>2
    <3>5. received' \in Seq(Keyed') /\ answered'
      BY <1>4, <1>6, <1>keys
    <3>6. (KeyOf(received[Len(received)]))' = KeyOf(Last(page))
      BY <1>4, <3>4 DEF KeyOf
    <3>7. QED
      BY <3>3, <3>4, <3>5, <3>6 DEF CursorIsLast
  <2>2. CASE ~(rest > 0)
    <3>1. cursor' = {} /\ ended' /\ answered' /\ received' \in Seq(Keyed')
      BY <1>4, <1>6, <1>keys, <2>2
    <3>2. QED
      BY <3>1 DEF CursorIsLast
  <2>3. QED
    BY <2>1, <2>2
<1>11. Delivered'
  <2>1. SUFFICES ASSUME NEW k \in stable, ended' \/ \E c \in cursor' : KeyOf(k) <= c
                 PROVE  Sent(k)'
    BY <1>4 DEF Delivered, KeyOf
  <2>sent. ASSUME NEW x \in ToSet(received) \cup ToSet(page), x <= k, KeyOf(x) = KeyOf(k),
                  operation # "comparison" => k \in ToSet(received) \cup ToSet(page)
           PROVE  Sent(k)'
    <3>1. x \in ToSet(received') /\ (operation # "comparison" => k \in ToSet(received'))
      BY <1>7, <2>sent
    <3>2. ToSet(received)' = ToSet(received')
      BY DEF ToSet
    <3>3. QED
      BY <1>4, <2>sent, <3>1, <3>2 DEF Sent, KeyOf
  <2>2. k \in items /\ k \in Nat /\ k \in Keyed /\ KeyOf(k) \in Nat
    BY <1>2, KeysFollow DEF Inv, Collection
  <2>3. PICK n \in 1..Len(Ordered) : Ordered[n] = k
    BY <2>2, OrderedPlaces DEF Inv
  <2>4. CASE n <= Start
    <3>1. PICK c \in Nat : cursor = {c}
      <4>1. cursor # {}
        <5>1. cursor = {} => Start = Cardinality({})
          BY DEF Start
        <5>2. Start # 0
          BY <1>lengths, <2>4
        <5>3. QED
          BY <5>1, <5>2, FS_EmptySet
      <4>2. QED
        BY <4>1 DEF Inv, CursorIsLast
    <3>2. KeyOf(k) <= c
      BY <2>3, <2>4, <3>1, AfterCursor DEF Inv
    <3>3. Sent(k)
      BY <3>1, <3>2 DEF Inv, Delivered
    <3>4. PICK x \in ToSet(received) : x <= k /\ KeyOf(x) = KeyOf(k)
      BY <3>3 DEF Sent
    <3>5. QED
      BY <2>sent, <3>3, <3>4 DEF Sent
  <2>5. CASE Start < n /\ n <= Start + Len(page)
    <3>1. n - Start \in 1..Len(page) /\ n = Start + (n - Start)
      BY <1>2, <1>5, <2>5
    <3>2. page[n - Start] = k
      BY <1>1, <2>3, <3>1
    <3>3. k \in ToSet(page)
      BY <1>5, <3>1, <3>2 DEF ToSet
    <3>4. k <= k
      BY <2>2
    <3>5. QED
      BY <2>sent, <3>3, <3>4
  <2>6. CASE Start + Len(page) < n
    <3>1. rest > 0
      BY <1>1, <1>2, <1>5, <2>6 DEF Remaining, rest
    <3>2. page # <<>> /\ Len(page) \in Nat \ {0} /\ Last(page) = page[Len(page)]
      BY <1>1, <1>5, <3>1 DEF Last
    <3> DEFINE x == Last(page)
    <3>3. x = Ordered[Start + Len(page)] /\ Start + Len(page) \in 1..Len(Ordered)
      BY <1>1, <1>2, <3>2
    <3>4. x < k /\ x \in Nat
      BY <1>2, <1>3, <2>3, <2>6, <3>3 DEF Ascending
    <3>5. cursor' = {KeyOf(x)} /\ ~ended'
      BY <1>4, <3>1
    <3>6. x \in ToSet(page) /\ x \in items /\ x \in Keyed
      <4>1. Len(page) \in DOMAIN page /\ x = page[Len(page)]
        BY <1>lengths, <3>2
      <4>2. x \in ToSet(page)
        BY <4>1 DEF ToSet
      <4>3. x \in items
        BY <1>1, <3>2
      <4> QED
        BY <1>2, <4>2, <4>3
    <3> HIDE DEF x
    <3>7. KeyOf(x) \in Nat /\ KeyOf(x) <= KeyOf(k)
      BY <2>2, <3>4, <3>6, KeysFollow
    <3>8. KeyOf(x) = KeyOf(k)
      BY <2>1, <2>2, <3>5, <3>7
    <3>9. operation = "comparison"
      BY <2>2, <3>4, <3>6, <3>8 DEF Inv, Collection
    <3>10. x <= k
      BY <2>2, <3>4
    <3>11. QED
      BY <2>sent, <3>6, <3>8, <3>9, <3>10
  <2>7. QED
    BY <1>1, <1>2, <1>5, <2>4, <2>5, <2>6
<1>12. OperationOK'
  BY <1>4 DEF Inv, OperationOK
<1>13. QED
  BY <1>4, <1>8, <1>9, <1>10, <1>11, <1>12 DEF Inv

(* What the cursor stands for holds always.                                 *)
THEOREM Invariance == Spec => []Inv
<1>1. Init => Inv
  BY InitInv
<1>2. Inv /\ [Next]_<<searchVars, pageVars>> => Inv'
  <2>1. SUFFICES ASSUME Inv, [Next]_<<searchVars, pageVars>>
                 PROVE  Inv'
    OBVIOUS
  <2>2. CASE SearchNext /\ UNCHANGED pageVars
    BY <2>1, <2>2, SearchKeeps
  <2>3. CASE Answer
    BY <2>1, <2>3, AnswerKeeps
  <2>4. CASE AskAny
    BY <2>1, <2>4, AskKeeps, RefuseKeeps DEF AskAny
  <2>5. CASE Change
    BY <2>1, <2>5, ChangeKeeps
  <2>6. CASE UNCHANGED <<searchVars, pageVars>>
    BY <2>1, <2>6
    DEF Inv, OperationOK, searchVars, pageVars, Collection, CursorIsLast, Ascending, Delivered,
        Sent, Keyed, KeyOf
  <2>7. QED
    BY <2>1, <2>2, <2>3, <2>4, <2>5, <2>6 DEF Next
<1>3. QED
  BY <1>1, <1>2, PTL DEF Spec

(* Whatever limits a client asks with and whatever changes between its      *)
(* requests, paginateQueryItems sends it no item twice and, once there is no*)
(* further cursor, has sent it of all items that were there throughout      *)
(* either the item or, in a comparison, one before it with the same key.    *)
THEOREM PagesAreComplete == Spec => []EveryItemOnce
<1>1. Inv => EveryItemOnce
  BY DEF Inv, Ascending, Delivered, Sent, EveryItemOnce
<1>2. QED
  BY <1>1, Invariance, PTL

-----------------------------------------------------------------------------
(* The calls of an analysis, and the chains of them that lead to a symbol.  *)

CallsOf(a) ==
  UNION {{[assertion |-> c.assertion, from |-> c.subject, to |-> m] :
             c \in ToSet(a.callers[m])} : m \in Methods}

Chain(a, c) ==
  /\ \A k \in 2..Len(c) : c[k].from = c[k - 1].to
  /\ Last(c).to \in ToSet(a.seeds)
  /\ \A j, k \in DOMAIN c : c[j].from # c[k].to \/ j = k + 1
  /\ \A j, k \in DOMAIN c : j # k => c[j].from # c[k].from

Chains(a, d) == {x \in SeqOf(CallsOf(a), d) \ {<<>>} : Chain(a, x)}

Names(c) == [k \in DOMAIN c |-> c[k].assertion]

PathsOf(a, d) == {[at |-> c[1].from, steps |-> Names(c)] : c \in Chains(a, d)}

Met(c) == {c[k].from : k \in DOMAIN c} \cup {c[Len(c)].to}

Ids(a) == {x.assertion : x \in Assertions(a)}

States(a)   == [at : Methods, steps : Seq(Ids(a)), seen : SUBSET (Methods \cup Others)]
PathType(a) == [at : Methods \cup Others, steps : Seq(Ids(a))]

(* A state of the search: a method of the symbol, or the end of a chain.    *)
Trail(a, d, z) ==
  \/ z.steps = <<>> /\ z.at \in ToSet(a.seeds) /\ z.seen = {z.at}
  \/ \E c \in Chains(a, d) : z.at = c[1].from /\ z.steps = Names(c) /\ z.seen = Met(c)

Child(z, x) == [at |-> x.subject, steps |-> <<x.assertion>> \o z.steps]

(* A path that comes to the state z through the assertion x.                *)
Ahead(z, x, y) ==
  \E n \in DOMAIN y.steps :
    /\ Len(y.steps) = n + Len(z.steps)
    /\ y.steps[n] = x.assertion
    /\ \A k \in DOMAIN z.steps : y.steps[n + k] = z.steps[k]

LEMMA CallFacts ==
  ASSUME NEW a, AnalysisOK(a), NEW e \in CallsOf(a)
  PROVE  \E m \in Methods : \E k \in DOMAIN a.callers[m] :
           /\ a.callers[m][k] \in Assertions(a)
           /\ e = [assertion |-> a.callers[m][k].assertion,
                   from |-> a.callers[m][k].subject, to |-> m]
           /\ e.from \in Methods \cup Others
           /\ e.assertion \in Ids(a)
  <1>1. PICK m \in Methods : \E c \in ToSet(a.callers[m]) :
          e = [assertion |-> c.assertion, from |-> c.subject, to |-> m]
    BY DEF CallsOf
  <1>2. PICK c \in ToSet(a.callers[m]) :
          e = [assertion |-> c.assertion, from |-> c.subject, to |-> m]
    BY <1>1
  <1>3. PICK k \in DOMAIN a.callers[m] : c = a.callers[m][k]
    BY <1>2 DEF ToSet
  <1>4. c \in Assertions(a)
    BY <1>2 DEF Assertions
  <1>5. c.subject \in Methods \cup Others /\ c.assertion \in Ids(a)
    BY <1>4 DEF AnalysisOK, Ids
  <1> QED
    BY <1>2, <1>3, <1>4, <1>5

LEMMA CallUnique ==
  ASSUME NEW a, AnalysisOK(a), NEW e \in CallsOf(a), NEW f \in CallsOf(a),
         e.assertion = f.assertion
  PROVE  e = f
  <1>1. PICK m \in Methods : \E j \in DOMAIN a.callers[m] :
          e = [assertion |-> a.callers[m][j].assertion,
               from |-> a.callers[m][j].subject, to |-> m]
    BY CallFacts
  <1>2. PICK n \in Methods : \E k \in DOMAIN a.callers[n] :
          f = [assertion |-> a.callers[n][k].assertion,
               from |-> a.callers[n][k].subject, to |-> n]
    BY CallFacts
  <1>5. PICK j \in DOMAIN a.callers[m] :
          e = [assertion |-> a.callers[m][j].assertion,
               from |-> a.callers[m][j].subject, to |-> m]
    BY <1>1
  <1>6. PICK k \in DOMAIN a.callers[n] :
          f = [assertion |-> a.callers[n][k].assertion,
               from |-> a.callers[n][k].subject, to |-> n]
    BY <1>2
  <1>3. a.callers[m][j].assertion = a.callers[n][k].assertion
    BY <1>5, <1>6
  <1>4. m = n /\ j = k
    BY <1>3 DEF AnalysisOK
  <1> QED
    BY <1>5, <1>6, <1>4

(* The call of an assertion.                                                *)
LEMMA CallOfAssertion ==
  ASSUME NEW a, AnalysisOK(a), NEW m \in Methods, NEW x \in ToSet(a.callers[m])
  PROVE  /\ [assertion |-> x.assertion, from |-> x.subject, to |-> m] \in CallsOf(a)
         /\ x \in Assertions(a) /\ x.subject \in Methods \cup Others
         /\ x.assertion \in Ids(a)
  <1>1. [assertion |-> x.assertion, from |-> x.subject, to |-> m] \in CallsOf(a)
    BY DEF CallsOf
  <1>2. x \in Assertions(a)
    BY DEF Assertions
  <1> QED
    BY <1>1, <1>2 DEF AnalysisOK, Ids

LEMMA ChainType ==
  ASSUME NEW a, NEW d \in Nat, NEW c \in Chains(a, d)
  PROVE  /\ c \in Seq(CallsOf(a)) /\ c # <<>> /\ Len(c) \in 1..d /\ DOMAIN c = 1..Len(c)
         /\ Chain(a, c)
         /\ \A k \in DOMAIN c : c[k] \in CallsOf(a)
  <1>1. c \in SeqOf(CallsOf(a), d) /\ c # <<>> /\ Chain(a, c)
    BY DEF Chains
  <1>2. PICK n \in 0..d : c \in [1..n -> CallsOf(a)]
    BY <1>1 DEF SeqOf
  <1>3. c \in Seq(CallsOf(a)) /\ Len(c) = n
    BY <1>2
  <1>4. n # 0
    BY <1>1, <1>3
  <1> QED
    BY <1>1, <1>2, <1>3, <1>4

LEMMA ChainMember ==
  ASSUME NEW a, NEW d \in Nat, NEW c \in Seq(CallsOf(a)), c # <<>>, Len(c) <= d, Chain(a, c)
  PROVE  c \in Chains(a, d)
  <1>1. c \in [1..Len(c) -> CallsOf(a)] /\ Len(c) \in 0..d
    OBVIOUS
  <1>2. c \in SeqOf(CallsOf(a), d)
    BY <1>1 DEF SeqOf
  <1> QED
    BY <1>2 DEF Chains

LEMMA NamesType ==
  ASSUME NEW a, AnalysisOK(a), NEW c \in Seq(CallsOf(a))
  PROVE  /\ Names(c) \in Seq(Ids(a)) /\ Len(Names(c)) = Len(c)
         /\ DOMAIN Names(c) = DOMAIN c
         /\ \A k \in DOMAIN c : Names(c)[k] = c[k].assertion
  <1>1. DOMAIN c = 1..Len(c) /\ Len(c) \in Nat
    OBVIOUS
  <1>2. \A k \in DOMAIN c : c[k].assertion \in Ids(a)
    BY CallFacts
  <1>3. Names(c) \in [1..Len(c) -> Ids(a)]
    BY <1>1, <1>2 DEF Names
  <1> QED
    BY <1>1, <1>3 DEF Names

LEMMA PathFacts ==
  ASSUME NEW a, AnalysisOK(a), NEW d \in Nat, NEW y \in PathsOf(a, d)
  PROVE  /\ y \in PathType(a) /\ Len(y.steps) \in 1..d
         /\ \E c \in Chains(a, d) : y.at = c[1].from /\ y.steps = Names(c)
  <1>1. PICK c \in Chains(a, d) : y = [at |-> c[1].from, steps |-> Names(c)]
    BY DEF PathsOf
  <1>2. c \in Seq(CallsOf(a)) /\ Len(c) \in 1..d /\ c[1] \in CallsOf(a)
    BY ChainType
  <1>3. Names(c) \in Seq(Ids(a)) /\ Len(Names(c)) = Len(c)
    BY <1>2, NamesType
  <1>4. c[1].from \in Methods \cup Others
    BY <1>2, CallFacts
  <1> QED
    BY <1>1, <1>2, <1>3, <1>4 DEF PathType

LEMMA AheadLength ==
  ASSUME NEW S, NEW T, NEW z, z.steps \in Seq(S), NEW x, NEW y, y.steps \in Seq(T), Ahead(z, x, y)
  PROVE  Len(y.steps) >= Len(z.steps) + 1
  BY DEF Ahead

(* A path ahead of a state goes through the chain of the state.             *)
LEMMA SameCalls ==
  ASSUME NEW a, AnalysisOK(a), NEW d \in Nat, NEW z, NEW x, NEW y,
         NEW c \in Chains(a, d), z.steps = Names(c),
         NEW e \in Chains(a, d), y.steps = Names(e),
         Ahead(z, x, y)
  PROVE  \E n \in DOMAIN e :
           /\ n + Len(c) = Len(e)
           /\ e[n].assertion = x.assertion
           /\ \A k \in DOMAIN c : n + k \in DOMAIN e /\ e[n + k] = c[k]
  <1>1. /\ c \in Seq(CallsOf(a)) /\ Len(c) \in 1..d /\ DOMAIN c = 1..Len(c)
        /\ e \in Seq(CallsOf(a)) /\ Len(e) \in 1..d /\ DOMAIN e = 1..Len(e)
        /\ \A k \in DOMAIN c : c[k] \in CallsOf(a)
        /\ \A k \in DOMAIN e : e[k] \in CallsOf(a)
    BY ChainType
  <1>2. /\ Len(z.steps) = Len(c) /\ DOMAIN z.steps = DOMAIN c
        /\ \A k \in DOMAIN c : z.steps[k] = c[k].assertion
        /\ Len(y.steps) = Len(e) /\ DOMAIN y.steps = DOMAIN e
        /\ \A k \in DOMAIN e : y.steps[k] = e[k].assertion
    BY <1>1, NamesType
  <1>3. PICK n \in DOMAIN e :
          /\ Len(e) = n + Len(c)
          /\ e[n].assertion = x.assertion
          /\ \A k \in DOMAIN c : y.steps[n + k] = z.steps[k]
    BY <1>2 DEF Ahead
  <1>4. ASSUME NEW k \in DOMAIN c
        PROVE  n + k \in DOMAIN e /\ e[n + k] = c[k]
    <2>1. n + k \in DOMAIN e
      BY <1>1, <1>3
    <2>2. e[n + k].assertion = c[k].assertion
      BY <1>2, <1>3, <2>1
    <2> QED
      BY <1>1, <2>1, <2>2, CallUnique
  <1> QED
    BY <1>1, <1>3, <1>4

(* What was met on the way to a state is not ahead of it.                   *)
LEMMA NothingMetAhead ==
  ASSUME NEW a, AnalysisOK(a), NEW d \in Nat, NEW z, z.at \in Methods, Trail(a, d, z),
         NEW x \in ToSet(a.callers[z.at]), x.subject \in z.seen,
         NEW y \in PathsOf(a, d)
  PROVE  ~Ahead(z, x, y)
  <1> SUFFICES ASSUME Ahead(z, x, y) PROVE FALSE
    OBVIOUS
  <1>1. PICK e \in Chains(a, d) : y.steps = Names(e)
    BY PathFacts
  <1>2. /\ e \in Seq(CallsOf(a)) /\ Len(e) \in 1..d /\ DOMAIN e = 1..Len(e)
        /\ \A k \in DOMAIN e : e[k] \in CallsOf(a)
        /\ \A j, k \in DOMAIN e : e[j].from # e[k].to \/ j = k + 1
        /\ \A j, k \in DOMAIN e : j # k => e[j].from # e[k].from
    BY ChainType DEF Chain
  <1>3. /\ Len(y.steps) = Len(e) /\ DOMAIN y.steps = DOMAIN e
        /\ \A k \in DOMAIN e : y.steps[k] = e[k].assertion
    BY <1>1, <1>2, NamesType
  <1> DEFINE call == [assertion |-> x.assertion, from |-> x.subject, to |-> z.at]
  <1>4. call \in CallsOf(a)
    BY CallOfAssertion
  <1>5. ASSUME NEW n \in DOMAIN e, e[n].assertion = x.assertion
        PROVE  e[n].from = x.subject /\ e[n].to = z.at
    <2>1. e[n] = call
      BY <1>2, <1>4, <1>5, CallUnique
    <2> QED
      BY <2>1
  <1>6. CASE z.steps = <<>> /\ z.seen = {z.at}
    <2>1. PICK n \in DOMAIN e : e[n].assertion = x.assertion
      BY <1>3 DEF Ahead
    <2>2. e[n].from = e[n].to
      BY <1>5, <1>6, <2>1
    <2> QED
      BY <1>2, <2>2
  <1>7. CASE \E c \in Chains(a, d) : z.at = c[1].from /\ z.steps = Names(c) /\ z.seen = Met(c)
    <2>1. PICK c \in Chains(a, d) : z.steps = Names(c) /\ z.seen = Met(c)
      BY <1>7
    <2>2. PICK n \in DOMAIN e :
            /\ n + Len(c) = Len(e)
            /\ e[n].assertion = x.assertion
            /\ \A k \in DOMAIN c : n + k \in DOMAIN e /\ e[n + k] = c[k]
      BY <1>1, <2>1, SameCalls
    <2>3. DOMAIN c = 1..Len(c) /\ Len(c) \in 1..d
      BY ChainType
    <2>4. e[n].from = x.subject
      BY <1>5, <2>2
    <2>5. CASE \E k \in DOMAIN c : x.subject = c[k].from
      <3>1. PICK k \in DOMAIN c : x.subject = c[k].from
        BY <2>5
      <3>2. e[n + k].from = e[n].from /\ n + k \in DOMAIN e
        BY <2>2, <2>4, <3>1
      <3>3. n + k # n /\ n \in DOMAIN e
        BY <1>2, <2>3
      <3> QED
        BY <1>2, <3>2, <3>3
    <2>6. CASE x.subject = c[Len(c)].to
      <3>1. e[n + Len(c)].to = e[n].from /\ n + Len(c) \in DOMAIN e
        BY <2>2, <2>3, <2>4, <2>6
      <3>2. n # n + Len(c) + 1
        BY <1>2, <2>3
      <3> QED
        BY <1>2, <3>1, <3>2
    <2> QED
      BY <2>1, <2>5, <2>6 DEF Met
  <1> QED
    BY <1>6, <1>7 DEF Trail

(* The search begins behind every path.                                     *)
LEMMA EveryPathAhead ==
  ASSUME NEW a, AnalysisOK(a), NEW d \in Nat, NEW y \in PathsOf(a, d)
  PROVE  \E s \in ToSet(a.seeds) : \E x \in ToSet(a.callers[s]) :
           \A z : z.at = s /\ z.steps = <<>> => Ahead(z, x, y)
  <1>1. PICK e \in Chains(a, d) : y.steps = Names(e)
    BY PathFacts
  <1>2. /\ e \in Seq(CallsOf(a)) /\ Len(e) \in 1..d /\ DOMAIN e = 1..Len(e)
        /\ e[Len(e)] \in CallsOf(a) /\ e[Len(e)].to \in ToSet(a.seeds)
    BY ChainType DEF Chain, Last
  <1>3. /\ Len(y.steps) = Len(e) /\ DOMAIN y.steps = DOMAIN e
        /\ y.steps[Len(e)] = e[Len(e)].assertion
    BY <1>1, <1>2, NamesType
  <1>4. PICK m \in Methods : \E k \in DOMAIN a.callers[m] :
          e[Len(e)] = [assertion |-> a.callers[m][k].assertion,
                       from |-> a.callers[m][k].subject, to |-> m]
    BY <1>2, CallFacts
  <1>5. PICK x \in ToSet(a.callers[m]) :
          e[Len(e)] = [assertion |-> x.assertion, from |-> x.subject, to |-> m]
    BY <1>4 DEF ToSet
  <1>6. m \in ToSet(a.seeds) /\ y.steps[Len(e)] = x.assertion
    BY <1>2, <1>3, <1>5
  <1>7. ASSUME NEW z, z.steps = <<>>
        PROVE  Ahead(z, x, y)
    <2>1. Len(z.steps) = 0 /\ DOMAIN z.steps = {}
      BY <1>7
    <2>2. Len(e) \in DOMAIN y.steps /\ Len(y.steps) = Len(e) + Len(z.steps)
      BY <1>2, <1>3, <2>1
    <2> QED
      BY <1>6, <2>1, <2>2 DEF Ahead
  <1> QED
    BY <1>6, <1>7

(* A path ahead of a state ends with the next step, or goes on from it.     *)
LEMMA AheadOfChild ==
  ASSUME NEW a, AnalysisOK(a), NEW d \in Nat, NEW z \in States(a),
         NEW x \in ToSet(a.callers[z.at]), NEW y \in PathsOf(a, d), Ahead(z, x, y)
  PROVE  \/ y = Child(z, x)
         \/ /\ x.subject \in Methods
            /\ \E w \in ToSet(a.callers[x.subject]) : Ahead(Child(z, x), w, y)
  <1>1. PICK e \in Chains(a, d) : y.at = e[1].from /\ y.steps = Names(e)
    BY PathFacts
  <1>2. /\ e \in Seq(CallsOf(a)) /\ Len(e) \in 1..d /\ DOMAIN e = 1..Len(e)
        /\ \A k \in DOMAIN e : e[k] \in CallsOf(a)
        /\ Chain(a, e)
    BY ChainType
  <1>12. \A k \in 2..Len(e) : e[k].from = e[k - 1].to
    BY <1>2 DEF Chain
  <1>3. /\ Len(y.steps) = Len(e) /\ DOMAIN y.steps = DOMAIN e
        /\ \A k \in DOMAIN e : y.steps[k] = e[k].assertion
        /\ y.steps \in Seq(Ids(a))
    BY <1>1, <1>2, NamesType
  <1>4. PICK n \in DOMAIN e :
          /\ Len(e) = n + Len(z.steps)
          /\ y.steps[n] = x.assertion
          /\ \A k \in DOMAIN z.steps : y.steps[n + k] = z.steps[k]
    BY <1>3 DEF Ahead
  <1> DEFINE call == [assertion |-> x.assertion, from |-> x.subject, to |-> z.at]
             longer == <<x.assertion>> \o z.steps
  <1>5. z.at \in Methods /\ z.steps \in Seq(Ids(a))
    BY DEF States
  <1>6. call \in CallsOf(a) /\ x.assertion \in Ids(a)
    BY <1>5, CallOfAssertion
  <1>7. e[n].from = x.subject
    <2>1. e[n].assertion = call.assertion
      BY <1>3, <1>4
    <2>2. e[n] = call
      BY <1>2, <1>6, <2>1, CallUnique
    <2> QED
      BY <2>2
  <1>8. /\ longer \in Seq(Ids(a)) /\ Len(longer) = Len(z.steps) + 1
        /\ DOMAIN longer = 1..(Len(z.steps) + 1)
        /\ longer[1] = x.assertion
        /\ \A k \in DOMAIN z.steps : longer[k + 1] = z.steps[k]
    BY <1>5, <1>6
  <1>9. \A k \in DOMAIN longer : y.steps[n + k - 1] = longer[k]
    <2> TAKE k \in DOMAIN longer
    <2>1. CASE k = 1
      BY <1>2, <1>4, <1>8, <2>1
    <2>2. CASE k # 1
      <3>1. k - 1 \in DOMAIN z.steps /\ k = (k - 1) + 1
        BY <1>5, <1>8, <2>2
      <3>2. y.steps[n + (k - 1)] = z.steps[k - 1] /\ longer[k] = z.steps[k - 1]
        BY <1>4, <1>8, <3>1
      <3>3. n + (k - 1) = n + k - 1
        BY <1>2, <1>8
      <3> QED
        BY <3>2, <3>3
    <2> QED
      BY <2>1, <2>2
  <1>10. CASE n = 1
    <2>1. Len(y.steps) = Len(longer)
      BY <1>2, <1>3, <1>4, <1>5, <1>8, <1>10
    <2>2. \A k \in 1..Len(longer) : y.steps[k] = longer[k]
      <3> TAKE k \in 1..Len(longer)
      <3>1. n + k - 1 = k /\ k \in DOMAIN longer
        BY <1>8, <1>10
      <3> QED
        BY <1>9, <3>1
    <2>3. y.steps = longer
      BY <1>3, <1>8, <2>1, <2>2, SeqEqual
    <2>4. y.at = x.subject
      BY <1>1, <1>7, <1>10
    <2>5. y = [at |-> y.at, steps |-> y.steps]
      BY PathFacts DEF PathType
    <2> QED
      BY <2>3, <2>4, <2>5 DEF Child
  <1>11. CASE n # 1
    <2>1. n \in 2..Len(e) /\ n - 1 \in DOMAIN e
      BY <1>2, <1>11
    <2>2. e[n - 1].to = x.subject /\ e[n - 1] \in CallsOf(a)
      BY <1>2, <1>12, <1>7, <2>1
    <2>3. PICK m \in Methods : \E k \in DOMAIN a.callers[m] :
            e[n - 1] = [assertion |-> a.callers[m][k].assertion,
                        from |-> a.callers[m][k].subject, to |-> m]
      BY <2>2, CallFacts
    <2>4. PICK w \in ToSet(a.callers[m]) :
            e[n - 1] = [assertion |-> w.assertion, from |-> w.subject, to |-> m]
      BY <2>3 DEF ToSet
    <2>5. m = x.subject /\ y.steps[n - 1] = w.assertion
      BY <1>3, <2>1, <2>2, <2>4
    <2>6. Len(y.steps) = (n - 1) + Len(longer)
      BY <1>2, <1>3, <1>4, <1>5, <1>8
    <2>7. \A k \in DOMAIN longer : y.steps[(n - 1) + k] = longer[k]
      <3> TAKE k \in DOMAIN longer
      <3>1. (n - 1) + k = n + k - 1
        BY <1>2, <1>8
      <3> QED
        BY <1>9, <3>1
    <2>8. Child(z, x).steps = longer
      BY DEF Child
    <2>9. Ahead(Child(z, x), w, y)
      <3> HIDE DEF longer
      <3> QED
        BY <1>3, <2>1, <2>5, <2>6, <2>7, <2>8 DEF Ahead
    <2> QED
      BY <2>4, <2>5, <2>9
  <1> QED
    BY <1>10, <1>11

(* One call more, to something not met yet, gives a path, and a state of    *)
(* the search where it is a method.                                         *)
LEMMA OneCallMore ==
  ASSUME NEW a, AnalysisOK(a), NEW d \in Nat, NEW z \in States(a), Trail(a, d, z),
         Len(z.steps) < d,
         NEW x \in ToSet(a.callers[z.at]), x.subject \notin z.seen
  PROVE  /\ Child(z, x) \in PathsOf(a, d)
         /\ Trail(a, d, State(x.subject, Child(z, x).steps, z.seen \cup {x.subject}))
  <1> DEFINE call == [assertion |-> x.assertion, from |-> x.subject, to |-> z.at]
             more == Child(z, x).steps
             after == State(x.subject, more, z.seen \cup {x.subject})
  <1>1. z.at \in Methods /\ z.steps \in Seq(Ids(a)) /\ z.seen \in SUBSET (Methods \cup Others)
    BY DEF States
  <1>2. call \in CallsOf(a) /\ x.assertion \in Ids(a)
    BY <1>1, CallOfAssertion
  <1>3. /\ more \in Seq(Ids(a)) /\ Len(more) = Len(z.steps) + 1
        /\ DOMAIN more = 1..(Len(z.steps) + 1)
        /\ more[1] = x.assertion
        /\ \A k \in DOMAIN z.steps : more[k + 1] = z.steps[k]
    BY <1>1, <1>2 DEF Child
  <1>4. after.at = x.subject /\ after.steps = more /\ after.seen = z.seen \cup {x.subject}
    BY DEF State
  <1>5. PICK c \in Chains(a, d) : /\ c[1].from = x.subject /\ Names(c) = more
                                  /\ Met(c) = z.seen \cup {x.subject}
    <2> HIDE DEF more
    <2>1. CASE z.steps = <<>> /\ z.at \in ToSet(a.seeds) /\ z.seen = {z.at}
      <3> DEFINE c == <<call>>
      <3>1. c \in Seq(CallsOf(a)) /\ Len(c) = 1 /\ c[1] = call /\ DOMAIN c = {1} /\ c # <<>>
        BY <1>2
      <3>2. call.from # call.to
        BY <2>1
      <3> HIDE DEF c
      <3>3. Chain(a, c)
        <4>1. \A k \in 2..Len(c) : c[k].from = c[k - 1].to
          BY <3>1
        <4>2. Last(c).to \in ToSet(a.seeds)
          BY <2>1, <3>1 DEF Last
        <4>3. \A j, k \in DOMAIN c : c[j].from # c[k].to
          BY <3>1, <3>2
        <4>4. \A j, k \in DOMAIN c : j = k
          BY <3>1
        <4> QED
          BY <4>1, <4>2, <4>3, <4>4 DEF Chain
      <3>4. c \in Chains(a, d)
        <4>1. Len(c) <= d
          BY <2>1, <3>1
        <4> QED
          BY <3>1, <3>3, <4>1, ChainMember
      <3>5. Names(c) = more
        <4>1. Names(c) \in Seq(Ids(a)) /\ Len(Names(c)) = 1 /\ Names(c)[1] = x.assertion
          BY <3>1, NamesType
        <4>2. Len(more) = 1
          BY <1>3, <2>1
        <4> QED
          BY <1>3, <4>1, <4>2, SeqEqual
      <3>6. Met(c) = {x.subject} \cup {z.at}
        <4>1. {c[k].from : k \in DOMAIN c} = {x.subject}
          BY <3>1
        <4> QED
          BY <3>1, <4>1 DEF Met
      <3> QED
        BY <2>1, <3>1, <3>4, <3>5, <3>6
    <2>2. CASE \E b \in Chains(a, d) : z.at = b[1].from /\ z.steps = Names(b) /\ z.seen = Met(b)
      <3>1. PICK b \in Chains(a, d) : z.at = b[1].from /\ z.steps = Names(b) /\ z.seen = Met(b)
        BY <2>2
      <3>2. /\ b \in Seq(CallsOf(a)) /\ Len(b) \in 1..d /\ DOMAIN b = 1..Len(b)
            /\ Chain(a, b) /\ \A k \in DOMAIN b : b[k] \in CallsOf(a)
        BY ChainType
      <3>3. /\ Len(z.steps) = Len(b) /\ DOMAIN z.steps = DOMAIN b
            /\ \A k \in DOMAIN b : z.steps[k] = b[k].assertion
        BY <3>1, <3>2, NamesType
      <3> DEFINE c == <<call>> \o b
      <3>4. /\ c \in Seq(CallsOf(a)) /\ Len(c) = Len(b) + 1 /\ c # <<>>
            /\ DOMAIN c = 1..(Len(b) + 1) /\ c[1] = call
            /\ \A k \in DOMAIN b : c[k + 1] = b[k]
        BY <1>2, <3>2
      <3> HIDE DEF c
      <3>5. \A k \in DOMAIN c : k = 1 \/ (k - 1 \in DOMAIN b /\ c[k] = b[k - 1])
        <4> TAKE k \in DOMAIN c
        <4>1. CASE k # 1
          <5>1. k - 1 \in DOMAIN b /\ (k - 1) + 1 = k
            BY <3>2, <3>4, <4>1
          <5> QED
            BY <3>4, <5>1
        <4> QED
          BY <4>1
      <3>6. /\ \A k \in DOMAIN b : x.subject # b[k].from
            /\ x.subject # b[Len(b)].to
        BY <3>1 DEF Met
      <3>7. \A k \in DOMAIN b : b[k].to = b[Len(b)].to \/ \E j \in DOMAIN b : b[k].to = b[j].from
        <4> TAKE k \in DOMAIN b
        <4>1. CASE k # Len(b)
          <5>1. k + 1 \in 2..Len(b) /\ k + 1 \in DOMAIN b /\ (k + 1) - 1 = k
            BY <3>2, <4>1
          <5>2. b[k + 1].from = b[(k + 1) - 1].to
            BY <3>2, <5>1 DEF Chain
          <5> QED
            BY <5>1, <5>2
        <4> QED
          BY <4>1
      <3>8. Chain(a, c)
        <4>1. ASSUME NEW k \in 2..Len(c)
              PROVE  c[k].from = c[k - 1].to
          <5>1. k \in DOMAIN c /\ k # 1 /\ k - 1 \in DOMAIN c
            BY <3>2, <3>4
          <5>2. c[k] = b[k - 1] /\ k - 1 \in DOMAIN b
            BY <3>5, <5>1
          <5>3. CASE k = 2
            BY <3>1, <3>4, <5>2, <5>3
          <5>4. CASE k # 2
            <6>1. k - 1 \in 2..Len(b) /\ k - 1 # 1
              BY <3>2, <3>4, <5>4
            <6>2. c[k - 1] = b[(k - 1) - 1]
              BY <3>5, <5>1, <6>1
            <6>3. b[k - 1].from = b[(k - 1) - 1].to
              BY <3>2, <6>1 DEF Chain
            <6> QED
              BY <5>2, <6>2, <6>3
          <5> QED
            BY <5>3, <5>4
        <4>2. Last(c).to \in ToSet(a.seeds)
          <5>1. Last(b).to \in ToSet(a.seeds)
            BY <3>2 DEF Chain
          <5>2. c[Len(b) + 1] = b[Len(b)]
            BY <3>2, <3>4
          <5> QED
            BY <3>4, <5>1, <5>2 DEF Last
        <4>3. ASSUME NEW j \in DOMAIN c, NEW k \in DOMAIN c, j # k + 1
              PROVE  c[j].from # c[k].to
          <5>0. call.from = x.subject /\ call.to = z.at
            OBVIOUS
          <5>5. x.subject # z.at /\ z.at = b[1].from /\ 1 \in DOMAIN b
            BY <3>1, <3>2, <3>6
          <5>1. CASE j = 1 /\ k = 1
            BY <3>4, <5>0, <5>1, <5>5
          <5>2. CASE j = 1 /\ k # 1
            <6>1. c[k] = b[k - 1] /\ k - 1 \in DOMAIN b
              BY <3>5, <5>2
            <6>2. x.subject # b[k - 1].to
              BY <3>6, <3>7, <6>1
            <6> QED
              BY <3>4, <5>0, <5>2, <6>1, <6>2
          <5>3. CASE j # 1 /\ k = 1
            <6>1. c[j] = b[j - 1] /\ j - 1 \in DOMAIN b /\ j - 1 # 1
              BY <3>4, <3>5, <4>3, <5>3
            <6>2. b[j - 1].from # b[1].from
              BY <3>2, <5>5, <6>1 DEF Chain
            <6> QED
              BY <3>4, <5>0, <5>3, <5>5, <6>1, <6>2
          <5>4. CASE j # 1 /\ k # 1
            <6>1. /\ c[j] = b[j - 1] /\ j - 1 \in DOMAIN b
                  /\ c[k] = b[k - 1] /\ k - 1 \in DOMAIN b
              BY <3>5, <5>4
            <6>2. j - 1 # (k - 1) + 1
              BY <3>4, <4>3
            <6> QED
              BY <3>2, <6>1, <6>2 DEF Chain
          <5> QED
            BY <5>1, <5>2, <5>3, <5>4
        <4>4. ASSUME NEW j \in DOMAIN c, NEW k \in DOMAIN c, j # k
              PROVE  c[j].from # c[k].from
          <5>0. call.from = x.subject
            OBVIOUS
          <5>1. CASE j = 1
            <6>1. c[k] = b[k - 1] /\ k - 1 \in DOMAIN b
              BY <3>5, <4>4, <5>1
            <6> QED
              BY <3>4, <3>6, <5>0, <5>1, <6>1
          <5>2. CASE k = 1
            <6>1. c[j] = b[j - 1] /\ j - 1 \in DOMAIN b
              BY <3>5, <4>4, <5>2
            <6> QED
              BY <3>4, <3>6, <5>0, <5>2, <6>1
          <5>3. CASE j # 1 /\ k # 1
            <6>1. /\ c[j] = b[j - 1] /\ j - 1 \in DOMAIN b
                  /\ c[k] = b[k - 1] /\ k - 1 \in DOMAIN b
              BY <3>5, <5>3
            <6>2. j - 1 # k - 1
              BY <3>4, <4>4
            <6> QED
              BY <3>2, <6>1, <6>2 DEF Chain
          <5> QED
            BY <5>1, <5>2, <5>3
        <4> QED
          BY <4>1, <4>2, <4>3, <4>4 DEF Chain
      <3>9. c \in Chains(a, d)
        <4>1. Len(c) <= d
          BY <1>1, <3>2, <3>3, <3>4
        <4> QED
          BY <3>4, <3>8, <4>1, ChainMember
      <3>10. Names(c) = more
        <4>1. /\ Names(c) \in Seq(Ids(a)) /\ Len(Names(c)) = Len(c)
              /\ \A k \in DOMAIN c : Names(c)[k] = c[k].assertion
          BY <3>4, NamesType
        <4>2. Len(more) = Len(c) /\ DOMAIN more = DOMAIN c
          BY <1>3, <3>3, <3>4
        <4>3. \A k \in DOMAIN c : more[k] = c[k].assertion
          <5> TAKE k \in DOMAIN c
          <5>1. CASE k = 1
            BY <1>3, <3>4, <5>1
          <5>2. CASE k # 1
            <6>1. c[k] = b[k - 1] /\ k - 1 \in DOMAIN b /\ (k - 1) + 1 = k
              BY <3>4, <3>5, <5>2
            <6>2. more[(k - 1) + 1] = b[k - 1].assertion
              BY <1>3, <3>3, <6>1
            <6> QED
              BY <6>1, <6>2
          <5> QED
            BY <5>1, <5>2
        <4> QED
          BY <1>3, <3>4, <4>1, <4>2, <4>3, SeqEqual
      <3>11. Met(c) = z.seen \cup {x.subject}
        <4>1. {c[k].from : k \in DOMAIN c} = {b[k].from : k \in DOMAIN b} \cup {x.subject}
          <5>1. \A k \in DOMAIN c : c[k].from \in {b[i].from : i \in DOMAIN b} \cup {x.subject}
            BY <3>4, <3>5
          <5>2. \A k \in DOMAIN b : k + 1 \in DOMAIN c /\ b[k].from = c[k + 1].from
            BY <3>2, <3>4
          <5>3. 1 \in DOMAIN c /\ x.subject = c[1].from
            BY <3>2, <3>4
          <5> QED
            BY <5>1, <5>2, <5>3
        <4>2. c[Len(c)].to = b[Len(b)].to
          BY <3>2, <3>4
        <4> QED
          BY <3>1, <4>1, <4>2 DEF Met
      <3>12. c[1].from = x.subject
        BY <3>4
      <3> QED
        BY <3>9, <3>10, <3>11, <3>12
    <2> QED
      BY <2>1, <2>2 DEF Trail
  <1>6. Child(z, x) = [at |-> c[1].from, steps |-> Names(c)]
    BY <1>5 DEF Child
  <1>7. Child(z, x) \in PathsOf(a, d)
    BY <1>6 DEF PathsOf
  <1>8. Trail(a, d, after)
    <2> HIDE DEF after
    <2> QED
      BY <1>4, <1>5 DEF Trail
  <1> QED
    BY <1>7, <1>8

-----------------------------------------------------------------------------
(* The inductive invariant of the search.                                   *)

Callers(m) == ToSet(analysis.callers[m])

SearchTyped ==
  /\ AnalysisOK(analysis) /\ request \in Requests
  /\ queue \in Seq(States(analysis)) /\ paths \in Seq(PathType(analysis))
  /\ left \in Seq(Assertions(analysis))
  /\ left # <<>> => current \in States(analysis) /\ ToSet(left) \subseteq Callers(current.at)
  /\ \A j, k \in DOMAIN left : left[j].assertion = left[k].assertion => j = k

(* It ends early only when it says so.                                      *)
EndsEmpty ==
  /\ ~truncated => Len(analysis.seeds) = Seeded
  /\ done => truncated \/ (queue = <<>> /\ left = <<>>)

(* Breadth first: the state that is expanded is no deeper than those in the *)
(* queue, these are at most one step deeper, and no path is longer.         *)
Levels ==
  \E d \in Nat :
    /\ \A j, k \in DOMAIN queue : j <= k => Len(queue[j].steps) <= Len(queue[k].steps)
    /\ \A k \in DOMAIN queue : Len(queue[k].steps) \in {d, d + 1}
    /\ \A y \in ToSet(paths) : Len(y.steps) <= d + 1
    /\ left # <<>> => Len(current.steps) = d

(* No state is expanded twice, and none of the paths that are to come has   *)
(* been found yet.                                                          *)
Distinct ==
  /\ IsInjective(paths)
  /\ \A j, k \in DOMAIN queue :
       queue[j].at = queue[k].at /\ queue[j].steps = queue[k].steps => j = k
  /\ \A z \in ToSet(queue) :
       /\ z.steps # <<>> => [at |-> z.at, steps |-> z.steps] \in ToSet(paths)
       /\ \A x \in Callers(z.at) : Child(z, x) \notin ToSet(paths)
       /\ left # <<>> => z.at # current.at \/ z.steps # current.steps
  /\ \A x \in ToSet(left) : Child(current, x) \notin ToSet(paths)

Trails ==
  /\ \A z \in ToSet(queue) : Trail(analysis, request.maxDepth, z)
  /\ left # <<>> => /\ Trail(analysis, request.maxDepth, current)
                    /\ Len(current.steps) < request.maxDepth

(* What is not found yet is ahead.                                          *)
Pending(y) ==
  \/ \E z \in ToSet(queue) : \E x \in Callers(z.at) : Ahead(z, x, y)
  \/ \E x \in ToSet(left) : Ahead(current, x, y)

Found ==
  /\ ToSet(paths) \subseteq PathsOf(analysis, request.maxDepth)
  /\ Len(analysis.seeds) = Seeded =>
       \A y \in PathsOf(analysis, request.maxDepth) : y \in ToSet(paths) \/ Pending(y)

SearchInv == SearchTyped /\ EndsEmpty /\ Levels /\ Distinct /\ Trails /\ Found

LEMMA TailFacts ==
  ASSUME NEW S, NEW s \in Seq(S), s # <<>>
  PROVE  /\ Head(s) \in S /\ Tail(s) \in Seq(S) /\ Head(s) = s[1] /\ 1 \in DOMAIN s
         /\ \A k \in DOMAIN Tail(s) : k \in Nat \ {0} /\ k + 1 \in DOMAIN s /\ Tail(s)[k] = s[k + 1]
         /\ ToSet(s) = {Head(s)} \cup ToSet(Tail(s))
  <1>1. /\ Head(s) \in S /\ Tail(s) \in Seq(S) /\ Head(s) = s[1] /\ 1 \in DOMAIN s
        /\ \A k \in DOMAIN Tail(s) : k \in Nat \ {0} /\ k + 1 \in DOMAIN s /\ Tail(s)[k] = s[k + 1]
    OBVIOUS
  <1>2. \A k \in DOMAIN s : k = 1 \/ (k - 1 \in DOMAIN Tail(s) /\ s[k] = Tail(s)[k - 1])
    OBVIOUS
  <1>3. ToSet(s) = {Head(s)} \cup ToSet(Tail(s))
    <2>1. Head(s) \in ToSet(s) /\ ToSet(Tail(s)) \subseteq ToSet(s)
      BY <1>1 DEF ToSet
    <2>2. ToSet(s) \subseteq {Head(s)} \cup ToSet(Tail(s))
      BY <1>1, <1>2 DEF ToSet
    <2> QED
      BY <2>1, <2>2
  <1> QED
    BY <1>1, <1>3

LEMMA AppendFacts ==
  ASSUME NEW S, NEW s \in Seq(S), NEW e \in S
  PROVE  /\ Append(s, e) \in Seq(S)
         /\ \A k \in DOMAIN Append(s, e) :
              \/ k \in DOMAIN s /\ Append(s, e)[k] = s[k] /\ k < Len(s) + 1
              \/ k = Len(s) + 1 /\ Append(s, e)[k] = e
         /\ ToSet(Append(s, e)) = ToSet(s) \cup {e}
  <1>1. /\ Append(s, e) \in Seq(S)
        /\ \A k \in DOMAIN Append(s, e) :
              \/ k \in DOMAIN s /\ Append(s, e)[k] = s[k] /\ k < Len(s) + 1
              \/ k = Len(s) + 1 /\ Append(s, e)[k] = e
    OBVIOUS
  <1>2. /\ \A k \in DOMAIN s : k \in DOMAIN Append(s, e) /\ Append(s, e)[k] = s[k]
        /\ Len(s) + 1 \in DOMAIN Append(s, e) /\ Append(s, e)[Len(s) + 1] = e
    OBVIOUS
  <1>3. ToSet(Append(s, e)) = ToSet(s) \cup {e}
    <2>1. ToSet(Append(s, e)) \subseteq ToSet(s) \cup {e}
      BY <1>1 DEF ToSet
    <2>2. ToSet(s) \subseteq ToSet(Append(s, e))
      BY <1>2 DEF ToSet
    <2>3. e \in ToSet(Append(s, e))
      BY <1>2 DEF ToSet
    <2> QED
      BY <2>1, <2>2, <2>3
  <1> QED
    BY <1>1, <1>3

LEMMA SetOf ==
  ASSUME NEW S, NEW s \in Seq(S)
  PROVE  /\ \A k \in DOMAIN s : s[k] \in ToSet(s)
         /\ \A z \in ToSet(s) : z \in S /\ \E k \in DOMAIN s : z = s[k]
         /\ s = <<>> => ToSet(s) = {}
         /\ ToSet(s) = {} => s = <<>>
  BY DEF ToSet

(* The start of a search.                                                   *)
LEMMA SearchStarts ==
  ASSUME AnalysisOK(analysis), SearchInit({analysis})
  PROVE  SearchInv
  <1>1. /\ request \in Requests /\ current = <<>> /\ left = <<>> /\ paths = <<>>
        /\ queue = [k \in 1..Seeded |-> State(analysis.seeds[k], <<>>, {analysis.seeds[k]})]
        /\ truncated = (Len(analysis.seeds) > Seeded) /\ done = FALSE
    BY DEF SearchInit
  <1>2. /\ analysis.seeds \in Seq(Methods) /\ IsInjective(analysis.seeds)
        /\ request.maxStates \in Nat
    BY <1>1, RequestsAssumption DEF AnalysisOK
  <1>3. Seeded \in Nat /\ Seeded <= Len(analysis.seeds) /\ Len(analysis.seeds) \in Nat
    BY <1>2 DEF Seeded
  <1>4. \A k \in 1..Seeded : /\ k \in DOMAIN analysis.seeds /\ analysis.seeds[k] \in Methods
                             /\ analysis.seeds[k] \in ToSet(analysis.seeds)
    BY <1>2, <1>3 DEF ToSet
  <1>5. /\ Len(queue) = Seeded /\ DOMAIN queue = 1..Seeded
        /\ \A k \in 1..Seeded : /\ queue[k].at = analysis.seeds[k] /\ queue[k].steps = <<>>
                                /\ queue[k].seen = {analysis.seeds[k]}
    BY <1>1, <1>3 DEF State
  <1>6. queue \in Seq(States(analysis))
    <2>1. ASSUME NEW k \in 1..Seeded
          PROVE  State(analysis.seeds[k], <<>>, {analysis.seeds[k]}) \in States(analysis)
      <3>1. <<>> \in Seq(Ids(analysis))
        OBVIOUS
      <3> QED
        BY <1>4, <3>1 DEF State, States
    <2>2. queue \in [1..Seeded -> States(analysis)]
      BY <1>1, <2>1
    <2> QED
      BY <1>3, <2>2
  <1>7. \A z \in ToSet(queue) : \E k \in 1..Seeded : z = queue[k]
    BY <1>5 DEF ToSet
  <1>8. left = <<>> /\ paths = <<>> /\ ToSet(paths) = {} /\ ToSet(left) = {} /\ DOMAIN left = {}
        /\ DOMAIN paths = {}
    BY <1>1 DEF ToSet
  <1>9. SearchTyped
    <2>1. paths \in Seq(PathType(analysis)) /\ left \in Seq(Assertions(analysis))
      BY <1>1
    <2> QED
      BY <1>1, <1>6, <1>8, <2>1 DEF SearchTyped
  <1>10. EndsEmpty
    <2>1. ~(Len(analysis.seeds) > Seeded) => Len(analysis.seeds) = Seeded
      BY <1>3
    <2>2. ~truncated => ~(Len(analysis.seeds) > Seeded)
      BY <1>1
    <2> QED
      BY <1>1, <2>1, <2>2 DEF EndsEmpty
  <1>11. Levels
    <2>1. \A k \in DOMAIN queue : Len(queue[k].steps) = 0
      BY <1>5
    <2> QED
      BY <1>8, <2>1 DEF Levels
  <1>12. Distinct
    <2>1. \A z \in ToSet(queue) : z.steps = <<>>
      BY <1>5, <1>7
    <2>2. \A j, k \in DOMAIN queue : queue[j].at = queue[k].at => j = k
      BY <1>2, <1>4, <1>5 DEF IsInjective
    <2> QED
      BY <1>8, <2>1, <2>2 DEF Distinct, IsInjective
  <1>13. Trails
    BY <1>4, <1>5, <1>7, <1>8 DEF Trails, Trail
  <1>14. Found
    <2>1. ASSUME Len(analysis.seeds) = Seeded, NEW y \in PathsOf(analysis, request.maxDepth)
          PROVE  Pending(y)
      <3>1. PICK s \in ToSet(analysis.seeds) : \E x \in ToSet(analysis.callers[s]) :
              \A z : z.at = s /\ z.steps = <<>> => Ahead(z, x, y)
        <4>1. request.maxDepth \in Nat
          BY <1>1, RequestsAssumption
        <4> QED
          BY <2>1, <4>1, EveryPathAhead
      <3>2. PICK k \in 1..Seeded : s = analysis.seeds[k]
        BY <1>2, <2>1 DEF ToSet
      <3>3. queue[k] \in ToSet(queue) /\ queue[k].at = s /\ queue[k].steps = <<>>
        BY <1>5, <3>2 DEF ToSet
      <3> QED
        BY <3>1, <3>3 DEF Pending, Callers
    <2> QED
      BY <1>8, <2>1 DEF Found
  <1> QED
    BY <1>9, <1>10, <1>11, <1>12, <1>13, <1>14 DEF SearchInv

(* Taking the oldest state; its callers are now those left.                 *)
LEMMA TakeKeeps ==
  ASSUME SearchInv, Take
  PROVE  SearchInv'
  <1> DEFINE z == Head(queue)
             d == request.maxDepth
  <1>1. /\ left = <<>> /\ queue # <<>> /\ ~done
        /\ queue' = Tail(queue) /\ current' = z
        /\ left' = IF Len(z.steps) >= d THEN <<>> ELSE analysis.callers[z.at]
        /\ analysis' = analysis /\ request' = request /\ paths' = paths
        /\ truncated' = truncated /\ done' = done
    BY DEF Take, Shift
  <1>2. SearchTyped /\ EndsEmpty /\ Levels /\ Distinct /\ Trails /\ Found
    BY DEF SearchInv
  <1>3. /\ AnalysisOK(analysis) /\ request \in Requests
        /\ queue \in Seq(States(analysis)) /\ paths \in Seq(PathType(analysis))
    BY <1>2 DEF SearchTyped
  <1>4. d \in Nat
    BY <1>3, RequestsAssumption
  <1>5. /\ z \in States(analysis) /\ queue' \in Seq(States(analysis))
        /\ z = queue[1] /\ 1 \in DOMAIN queue
        /\ \A k \in DOMAIN queue' : k \in Nat \ {0} /\ k + 1 \in DOMAIN queue /\ queue'[k] = queue[k + 1]
        /\ ToSet(queue) = {z} \cup ToSet(queue')
    <2>1. /\ z \in States(analysis) /\ Tail(queue) \in Seq(States(analysis))
          /\ z = queue[1] /\ 1 \in DOMAIN queue
          /\ \A k \in DOMAIN Tail(queue) :
               k \in Nat \ {0} /\ k + 1 \in DOMAIN queue /\ Tail(queue)[k] = queue[k + 1]
          /\ ToSet(queue) = {z} \cup ToSet(Tail(queue))
      BY <1>1, <1>3, TailFacts
    <2> QED
      BY <1>1, <2>1
  <1>6. /\ z.at \in Methods /\ z.steps \in Seq(Ids(analysis)) /\ Len(z.steps) \in Nat
    BY <1>5 DEF States
  <1>7. analysis.callers[z.at] \in Seq(Assertions(analysis))
    BY <1>3, <1>6 DEF AnalysisOK
  <1>8. /\ left' \in Seq(Assertions(analysis))
        /\ ToSet(left') \subseteq ToSet(analysis.callers[z.at])
        /\ left' # <<>> => left' = analysis.callers[z.at] /\ Len(z.steps) < d
    <2>1. CASE Len(z.steps) >= d
      BY <1>1, <2>1 DEF ToSet
    <2>2. CASE ~(Len(z.steps) >= d)
      <3>1. Len(z.steps) < d
        BY <1>4, <1>6, <2>2
      <3> QED
        BY <1>1, <1>7, <2>2, <3>1
    <2> QED
      BY <2>1, <2>2
  <1> HIDE DEF z, d
  <1>9. SearchTyped'
    <2>1. \A j, k \in DOMAIN left' : left'[j].assertion = left'[k].assertion => j = k
      <3>1. CASE left' = <<>>
        BY <3>1
      <3>2. CASE left' = analysis.callers[z.at]
        BY <1>3, <1>6, <3>2 DEF AnalysisOK
      <3> QED
        BY <1>8, <3>1, <3>2
    <2> QED
      BY <1>1, <1>3, <1>5, <1>8, <2>1 DEF SearchTyped, Callers
  <1>10. EndsEmpty'
    <2>1. Seeded' = Seeded
      BY <1>1 DEF Seeded
    <2> QED
      BY <1>1, <1>2, <2>1 DEF EndsEmpty
  <1>11. Levels'
    <2>1. PICK n \in Nat :
            /\ \A j, k \in DOMAIN queue : j <= k => Len(queue[j].steps) <= Len(queue[k].steps)
            /\ \A k \in DOMAIN queue : Len(queue[k].steps) \in {n, n + 1}
            /\ \A y \in ToSet(paths) : Len(y.steps) <= n + 1
      BY <1>2 DEF Levels
    <2> DEFINE h == Len(z.steps)
    <2>2. h \in {n, n + 1}
      BY <1>5, <2>1
    <2>3. \A j, k \in DOMAIN queue' : j <= k => Len(queue'[j].steps) <= Len(queue'[k].steps)
      <3> TAKE j, k \in DOMAIN queue'
      <3> HAVE j <= k
      <3>1. j + 1 \in DOMAIN queue /\ k + 1 \in DOMAIN queue /\ j + 1 <= k + 1
        BY <1>5
      <3>2. Len(queue[j + 1].steps) <= Len(queue[k + 1].steps)
        BY <2>1, <3>1
      <3> QED
        BY <1>5, <3>2
    <2>4. \A k \in DOMAIN queue' : Len(queue'[k].steps) \in {h, h + 1}
      <3> TAKE k \in DOMAIN queue'
      <3>1. k + 1 \in DOMAIN queue /\ 1 <= k + 1 /\ queue'[k] = queue[k + 1]
        BY <1>5
      <3>2. Len(queue[1].steps) <= Len(queue[k + 1].steps) /\ Len(queue[k + 1].steps) \in {n, n + 1}
        BY <1>5, <2>1, <3>1
      <3> QED
        BY <1>5, <2>2, <3>1, <3>2
    <2>5. \A y \in ToSet(paths) : Len(y.steps) <= h + 1
      <3> TAKE y \in ToSet(paths)
      <3>1. Len(y.steps) \in Nat
        BY <1>3, SetOf DEF PathType
      <3> QED
        BY <2>1, <2>2, <3>1
    <2> HIDE DEF h
    <2>6. h \in Nat
      BY <2>2
    <2>7. h = Len(z.steps)
      BY DEF h
    <2> QED
      BY <1>1, <2>3, <2>4, <2>5, <2>6, <2>7 DEF Levels
  <1>12. Distinct'
    <2>1. \A j, k \in DOMAIN queue' :
            queue'[j].at = queue'[k].at /\ queue'[j].steps = queue'[k].steps => j = k
      <3> TAKE j, k \in DOMAIN queue'
      <3> HAVE queue'[j].at = queue'[k].at /\ queue'[j].steps = queue'[k].steps
      <3>1. /\ j + 1 \in DOMAIN queue /\ queue'[j] = queue[j + 1] /\ j \in Nat
            /\ k + 1 \in DOMAIN queue /\ queue'[k] = queue[k + 1] /\ k \in Nat
        BY <1>5
      <3>2. j + 1 = k + 1
        BY <1>2, <3>1 DEF Distinct
      <3> QED
        BY <3>1, <3>2
    <2>2. ASSUME NEW w \in ToSet(queue')
          PROVE  w.at # z.at \/ w.steps # z.steps
      <3>1. PICK k \in DOMAIN queue' : w = queue'[k]
        BY <1>5, SetOf
      <3>2. k \in Nat \ {0} /\ k + 1 \in DOMAIN queue /\ w = queue[k + 1]
        BY <1>5, <3>1
      <3>3. k + 1 # 1
        BY <3>2
      <3> QED
        BY <1>2, <1>5, <3>2, <3>3 DEF Distinct
    <2>3. ASSUME NEW w \in ToSet(queue)
          PROVE  /\ w.steps # <<>> => [at |-> w.at, steps |-> w.steps] \in ToSet(paths)
                 /\ \A x \in ToSet(analysis.callers[w.at]) : Child(w, x) \notin ToSet(paths)
      BY <1>2 DEF Distinct, Callers
    <2>4. \A w \in ToSet(queue') : w \in ToSet(queue)
      BY <1>5
    <2>5. \A x \in ToSet(left') : Child(z, x) \notin ToSet(paths)
      <3>1. z \in ToSet(queue)
        BY <1>5
      <3> QED
        BY <1>8, <2>3, <3>1
    <2>6. IsInjective(paths)
      BY <1>2 DEF Distinct
    <2> QED
      BY <1>1, <2>1, <2>2, <2>3, <2>4, <2>5, <2>6 DEF Distinct, Callers
  <1>13. Trails'
    <2>1. \A w \in ToSet(queue) : Trail(analysis, d, w)
      BY <1>2 DEF Trails, d
    <2>2. d' = d
      BY <1>1 DEF d
    <2> QED
      BY <1>1, <1>5, <1>8, <2>1, <2>2 DEF Trails, d
  <1>14. Found'
    <2>1. ToSet(paths') \subseteq PathsOf(analysis', request'.maxDepth)
      BY <1>1, <1>2 DEF Found
    <2>2. ASSUME Len(analysis.seeds) = Seeded, NEW y \in PathsOf(analysis, d),
                 y \notin ToSet(paths)
          PROVE  Pending(y)'
      <3>1. Pending(y)
        BY <1>2, <2>2 DEF Found, d
      <3>2. y.steps \in Seq(Ids(analysis)) /\ Len(y.steps) <= d /\ Len(y.steps) \in Nat
        BY <1>3, <1>4, PathFacts DEF PathType
      <3>3. CASE \E x \in Callers(z.at) : Ahead(z, x, y)
        <4>1. PICK x \in Callers(z.at) : Ahead(z, x, y)
          BY <3>3
        <4>2. Len(y.steps) >= Len(z.steps) + 1
          BY <1>6, <3>2, <4>1, AheadLength
        <4>3. ~(Len(z.steps) >= d)
          BY <1>4, <1>6, <3>2, <4>2
        <4>4. left' = analysis.callers[z.at]
          BY <1>1, <4>3 DEF d, z
        <4> QED
          BY <1>1, <4>1, <4>4 DEF Pending, Callers
      <3>4. CASE \E w \in ToSet(queue') : \E x \in Callers(w.at) : Ahead(w, x, y)
        BY <1>1, <3>4 DEF Pending, Callers
      <3>5. ToSet(left) = {}
        BY <1>1 DEF ToSet
      <3> QED
        BY <1>5, <3>1, <3>3, <3>4, <3>5 DEF Pending
    <2>3. Seeded' = Seeded
      BY <1>1 DEF Seeded
    <2>4. d' = d
      BY <1>1 DEF d
    <2> QED
      BY <1>1, <2>1, <2>2, <2>3, <2>4 DEF Found, d
  <1> QED
    BY <1>9, <1>10, <1>11, <1>12, <1>13, <1>14 DEF SearchInv

(* A caller that was met already leads to no path.                          *)
LEMMA SkipSeenKeeps ==
  ASSUME SearchInv, SkipSeen
  PROVE  SearchInv'
  <1> DEFINE d == request.maxDepth
  <1>1. /\ left # <<>> /\ Head(left).subject \in current.seen /\ left' = Tail(left)
        /\ queue' = queue /\ current' = current /\ ~done
        /\ analysis' = analysis /\ request' = request /\ paths' = paths
        /\ truncated' = truncated /\ done' = done
    BY DEF SkipSeen, Seen
  <1>2. SearchTyped /\ EndsEmpty /\ Levels /\ Distinct /\ Trails /\ Found
    BY DEF SearchInv
  <1>3. /\ AnalysisOK(analysis) /\ request \in Requests
        /\ left \in Seq(Assertions(analysis)) /\ current \in States(analysis)
        /\ ToSet(left) \subseteq Callers(current.at)
    BY <1>1, <1>2 DEF SearchTyped
  <1>4. d \in Nat /\ current.at \in Methods
    BY <1>3, RequestsAssumption DEF States
  <1>5. /\ left' \in Seq(Assertions(analysis))
        /\ \A k \in DOMAIN left' : k \in Nat /\ k + 1 \in DOMAIN left /\ left'[k] = left[k + 1]
        /\ ToSet(left) = {Head(left)} \cup ToSet(left')
    BY <1>1, <1>3, TailFacts
  <1> HIDE DEF d
  <1>6. d' = d /\ Seeded' = Seeded
    BY <1>1 DEF d, Seeded
  <1>7. SearchTyped'
    <2>1. ASSUME NEW j \in DOMAIN left', NEW k \in DOMAIN left',
                 left'[j].assertion = left'[k].assertion
          PROVE  j = k
      <3>1. /\ j + 1 \in DOMAIN left /\ k + 1 \in DOMAIN left /\ j \in Nat /\ k \in Nat
            /\ left[j + 1].assertion = left[k + 1].assertion
        BY <1>5, <2>1
      <3>2. j + 1 = k + 1
        BY <1>2, <3>1 DEF SearchTyped
      <3> QED
        BY <3>1, <3>2
    <2>2. ToSet(left') \subseteq ToSet(analysis.callers[current.at])
      BY <1>3, <1>5 DEF Callers
    <2> QED
      BY <1>1, <1>2, <1>3, <1>5, <2>1, <2>2 DEF SearchTyped, Callers
  <1>8. EndsEmpty'
    BY <1>1, <1>2, <1>6 DEF EndsEmpty
  <1>9. Levels'
    BY <1>1, <1>2 DEF Levels
  <1>10. Distinct'
    BY <1>1, <1>2, <1>5 DEF Distinct, Callers
  <1>11. Trails'
    BY <1>1, <1>2, <1>5 DEF Trails
  <1>12. Found'
    <2>1. ASSUME Len(analysis.seeds) = Seeded, NEW y \in PathsOf(analysis, d),
                 y \notin ToSet(paths)
          PROVE  Pending(y)'
      <3>1. Pending(y)
        BY <1>2, <2>1 DEF Found, d
      <3>2. Trail(analysis, d, current)
        BY <1>1, <1>2 DEF Trails, d
      <3>3. Head(left) \in ToSet(analysis.callers[current.at])
        BY <1>3, <1>5 DEF Callers
      <3>4. ~Ahead(current, Head(left), y)
        BY <1>1, <1>3, <1>4, <3>2, <3>3, NothingMetAhead
      <3> QED
        BY <1>1, <1>5, <3>1, <3>4 DEF Pending, Callers
    <2> QED
      BY <1>1, <1>2, <1>6, <2>1 DEF Found, d
  <1> QED
    BY <1>7, <1>8, <1>9, <1>10, <1>11, <1>12 DEF SearchInv

(* A new path, and the state that it leads to.                              *)
LEMMA ExtendKeeps ==
  ASSUME SearchInv, Extend
  PROVE  SearchInv'
  <1> DEFINE x == Head(left)
             z == current
             d == request.maxDepth
             p == Child(z, x)
             new == State(x.subject, p.steps, z.seen \cup {x.subject})
  <1>1. /\ left # <<>> /\ x.subject \notin z.seen /\ left' = Tail(left)
        /\ current' = current /\ ~done
        /\ analysis' = analysis /\ request' = request
        /\ truncated' = truncated /\ done' = done
    BY DEF Extend, Seen
  <1>2. /\ paths' = Append(paths, p)
        /\ queue' = IF x.subject \notin Methods THEN queue ELSE Append(queue, new)
    BY DEF Extend, Child
  <1>3. SearchTyped /\ EndsEmpty /\ Levels /\ Distinct /\ Trails /\ Found
    BY DEF SearchInv
  <1>4. /\ AnalysisOK(analysis) /\ request \in Requests
        /\ queue \in Seq(States(analysis)) /\ paths \in Seq(PathType(analysis))
        /\ left \in Seq(Assertions(analysis)) /\ z \in States(analysis)
        /\ ToSet(left) \subseteq ToSet(analysis.callers[z.at])
    BY <1>1, <1>3 DEF SearchTyped, Callers
  <1>5. d \in Nat
    BY <1>4, RequestsAssumption
  <1>6. /\ x = left[1] /\ 1 \in DOMAIN left
        /\ left' \in Seq(Assertions(analysis))
        /\ \A k \in DOMAIN left' : k \in Nat \ {0} /\ k + 1 \in DOMAIN left /\ left'[k] = left[k + 1]
        /\ ToSet(left) = {x} \cup ToSet(left')
    <2>1. /\ x = left[1] /\ 1 \in DOMAIN left
          /\ Tail(left) \in Seq(Assertions(analysis))
          /\ \A k \in DOMAIN Tail(left) :
               k \in Nat \ {0} /\ k + 1 \in DOMAIN left /\ Tail(left)[k] = left[k + 1]
          /\ ToSet(left) = {x} \cup ToSet(Tail(left))
      BY <1>1, <1>4, TailFacts
    <2> QED
      BY <1>1, <2>1
  <1>7. /\ z.at \in Methods /\ z.steps \in Seq(Ids(analysis)) /\ Len(z.steps) \in Nat
        /\ z.seen \in SUBSET (Methods \cup Others)
    BY <1>4 DEF States
  <1>8. x \in ToSet(analysis.callers[z.at])
    BY <1>4, <1>6
  <1>9. x.subject \in Methods \cup Others /\ x.assertion \in Ids(analysis)
    BY <1>4, <1>7, <1>8, CallOfAssertion
  <1>10. /\ p.at = x.subject /\ p.steps \in Seq(Ids(analysis))
         /\ p.steps[1] = x.assertion /\ Len(p.steps) = Len(z.steps) + 1
         /\ p = [at |-> p.at, steps |-> p.steps]
         /\ p \in PathType(analysis)
    BY <1>7, <1>9 DEF Child, PathType
  <1>11. new.at = x.subject /\ new.steps = p.steps
    BY DEF State
  <1>12. x.subject \in Methods => new \in States(analysis)
    BY <1>7, <1>9, <1>10 DEF State, States
  <1>13. Trail(analysis, d, z) /\ Len(z.steps) < d
    BY <1>1, <1>3 DEF Trails
  <1>14. /\ p \in PathsOf(analysis, d)
         /\ Trail(analysis, d, new)
    BY <1>1, <1>4, <1>5, <1>8, <1>13, OneCallMore
  <1> HIDE DEF x, z, d, p, new
  <1>15. /\ paths' \in Seq(PathType(analysis))
         /\ \A k \in DOMAIN paths' :
              \/ k \in DOMAIN paths /\ paths'[k] = paths[k] /\ k < Len(paths) + 1
              \/ k = Len(paths) + 1 /\ paths'[k] = p
         /\ ToSet(paths') = ToSet(paths) \cup {p}
    BY <1>2, <1>4, <1>10, AppendFacts
  <1>16. /\ queue' \in Seq(States(analysis))
         /\ \A k \in DOMAIN queue' :
              \/ k \in DOMAIN queue /\ queue'[k] = queue[k] /\ k < Len(queue) + 1
              \/ k = Len(queue) + 1 /\ queue'[k] = new /\ x.subject \in Methods
         /\ x.subject \notin Methods => ToSet(queue') = ToSet(queue)
         /\ x.subject \in Methods => ToSet(queue') = ToSet(queue) \cup {new}
    <2>1. CASE x.subject \notin Methods
      <3>1. queue' = queue
        BY <1>2, <2>1
      <3>2. \A k \in DOMAIN queue : k < Len(queue) + 1
        BY <1>4
      <3> QED
        BY <1>4, <2>1, <3>1, <3>2
    <2>2. CASE x.subject \in Methods
      <3>1. queue' = Append(queue, new) /\ new \in States(analysis)
        BY <1>2, <1>12, <2>2
      <3> QED
        BY <1>4, <2>2, <3>1, AppendFacts
    <2> QED
      BY <2>1, <2>2
  <1>17. d' = d /\ Seeded' = Seeded /\ z' = z
    BY <1>1 DEF d, Seeded, z
  <1>18. p \notin ToSet(paths)
    <2>1. x \in ToSet(left)
      BY <1>6
    <2> QED
      BY <1>3, <2>1 DEF Distinct, p, z
  <1>19. SearchTyped'
    <2>1. ASSUME NEW j \in DOMAIN left', NEW k \in DOMAIN left',
                 left'[j].assertion = left'[k].assertion
          PROVE  j = k
      <3>1. /\ j + 1 \in DOMAIN left /\ k + 1 \in DOMAIN left /\ j \in Nat /\ k \in Nat
            /\ left[j + 1].assertion = left[k + 1].assertion
        BY <1>6, <2>1
      <3>2. j + 1 = k + 1
        BY <1>3, <3>1 DEF SearchTyped
      <3> QED
        BY <3>1, <3>2
    <2>2. ToSet(left') \subseteq ToSet(analysis.callers[z.at])
      BY <1>4, <1>6
    <2> QED
      BY <1>1, <1>4, <1>6, <1>15, <1>16, <2>1, <2>2 DEF SearchTyped, Callers, z
  <1>20. EndsEmpty'
    BY <1>1, <1>3, <1>17 DEF EndsEmpty
  <1>21. PICK n \in Nat :
           /\ \A j, k \in DOMAIN queue : j <= k => Len(queue[j].steps) <= Len(queue[k].steps)
           /\ \A k \in DOMAIN queue : Len(queue[k].steps) \in {n, n + 1}
           /\ \A y \in ToSet(paths) : Len(y.steps) <= n + 1
           /\ Len(z.steps) = n
    BY <1>1, <1>3 DEF Levels, z
  <1>22. Len(p.steps) = n + 1 /\ Len(new.steps) = n + 1
    BY <1>10, <1>11, <1>21
  <1>23. Levels'
    <2>1. ASSUME NEW j \in DOMAIN queue', NEW k \in DOMAIN queue', j <= k
          PROVE  Len(queue'[j].steps) <= Len(queue'[k].steps)
      <3>1. CASE k \in DOMAIN queue /\ queue'[k] = queue[k] /\ k < Len(queue) + 1
        <4>1. j \in DOMAIN queue /\ queue'[j] = queue[j]
          <5>1. j # Len(queue) + 1
            BY <1>4, <2>1, <3>1
          <5> QED
            BY <1>16, <5>1
        <4> QED
          BY <1>21, <2>1, <3>1, <4>1
      <3>2. CASE queue'[k] = new
        <4>1. Len(queue'[j].steps) \in {n, n + 1}
          <5>1. CASE j \in DOMAIN queue /\ queue'[j] = queue[j]
            BY <1>21, <5>1
          <5>2. CASE queue'[j] = new
            BY <1>22, <5>2
          <5> QED
            BY <1>16, <5>1, <5>2
        <4> QED
          BY <1>22, <3>2, <4>1
      <3> QED
        BY <1>16, <3>1, <3>2
    <2>2. ASSUME NEW k \in DOMAIN queue'
          PROVE  Len(queue'[k].steps) \in {n, n + 1}
      BY <1>16, <1>21, <1>22
    <2>3. \A y \in ToSet(paths') : Len(y.steps) <= n + 1
      BY <1>15, <1>21, <1>22
    <2>4. Len(current'.steps) = n
      BY <1>1, <1>21 DEF z
    <2> QED
      BY <2>1, <2>2, <2>3, <2>4 DEF Levels
  <1>24. Distinct'
    <2>1. IsInjective(paths')
      <3>1. \A k \in DOMAIN paths : paths[k] # p
        BY <1>4, <1>18, SetOf
      <3>2. \A j, k \in DOMAIN paths : paths[j] = paths[k] => j = k
        BY <1>3 DEF Distinct, IsInjective
      <3> QED
        BY <1>15, <3>1, <3>2 DEF IsInjective
    <2>2. ASSUME NEW w \in ToSet(queue)
          PROVE  /\ w.steps # <<>> => [at |-> w.at, steps |-> w.steps] \in ToSet(paths)
                 /\ \A b \in ToSet(analysis.callers[w.at]) : Child(w, b) \notin ToSet(paths)
                 /\ w.at # z.at \/ w.steps # z.steps
                 /\ w \in States(analysis) /\ w.at \in Methods /\ w.steps \in Seq(Ids(analysis))
      <3>1. w \in States(analysis)
        BY <1>4, SetOf
      <3> QED
        BY <1>1, <1>3, <3>1 DEF Distinct, Callers, z, States
    <2>3. p.steps # <<>>
      BY <1>7, <1>10
    <2>4. ASSUME NEW w \in ToSet(queue)
          PROVE  w.at # new.at \/ w.steps # new.steps
      BY <1>10, <1>11, <1>18, <2>2, <2>3
    <2>5. \A j, k \in DOMAIN queue' :
            queue'[j].at = queue'[k].at /\ queue'[j].steps = queue'[k].steps => j = k
      <3>1. \A k \in DOMAIN queue : queue[k].at # new.at \/ queue[k].steps # new.steps
        BY <1>4, <2>4, SetOf
      <3>2. \A j, k \in DOMAIN queue :
              queue[j].at = queue[k].at /\ queue[j].steps = queue[k].steps => j = k
        BY <1>3 DEF Distinct
      <3> QED
        BY <1>16, <3>1, <3>2
    <2>6. ASSUME NEW w \in ToSet(queue')
          PROVE  /\ w.steps # <<>> => [at |-> w.at, steps |-> w.steps] \in ToSet(paths')
                 /\ \A b \in ToSet(analysis.callers[w.at]) : Child(w, b) \notin ToSet(paths')
                 /\ w.at # z.at \/ w.steps # z.steps
      <3>1. CASE w \in ToSet(queue)
        <4>1. ASSUME NEW b \in ToSet(analysis.callers[w.at]), Child(w, b) = p
              PROVE  FALSE
          <5>1. b.assertion \in Ids(analysis)
            BY <1>4, <2>2, <3>1, CallOfAssertion
          <5>2. /\ Child(w, b).steps[1] = b.assertion
                /\ Len(Child(w, b).steps) = Len(w.steps) + 1
                /\ \A k \in DOMAIN w.steps : Child(w, b).steps[k + 1] = w.steps[k]
            BY <2>2, <3>1, <5>1 DEF Child
          <5>3. \A k \in DOMAIN z.steps : p.steps[k + 1] = z.steps[k]
            BY <1>7, <1>9 DEF p, Child
          <5>4. b.assertion = x.assertion /\ Len(w.steps) = Len(z.steps)
            BY <1>7, <1>10, <2>2, <3>1, <4>1, <5>2
          <5>5. w.steps = z.steps
            <6>1. \A k \in 1..Len(w.steps) : w.steps[k] = z.steps[k]
              BY <1>7, <2>2, <3>1, <4>1, <5>2, <5>3, <5>4
            <6> QED
              BY <1>7, <2>2, <3>1, <5>4, <6>1, SeqEqual
          <5>6. w.at = z.at
            <6>1. PICK j \in DOMAIN analysis.callers[w.at] : b = analysis.callers[w.at][j]
              BY DEF ToSet
            <6>2. PICK k \in DOMAIN analysis.callers[z.at] : x = analysis.callers[z.at][k]
              BY <1>8 DEF ToSet
            <6>3. analysis.callers[w.at][j].assertion = analysis.callers[z.at][k].assertion
              BY <5>4, <6>1, <6>2
            <6>4. w.at \in Methods /\ z.at \in Methods
              BY <1>7, <2>2, <3>1
            <6>5. \A m, o \in Methods :
                    \A i \in DOMAIN analysis.callers[m], l \in DOMAIN analysis.callers[o] :
                      analysis.callers[m][i].assertion = analysis.callers[o][l].assertion => m = o
              BY <1>4 DEF AnalysisOK
            <6> QED
              BY <6>3, <6>4, <6>5
          <5> QED
            BY <2>2, <3>1, <5>5, <5>6
        <4> QED
          BY <1>15, <2>2, <3>1, <4>1
      <3>2. CASE w = new /\ x.subject \in Methods
        <4>1. [at |-> w.at, steps |-> w.steps] = p
          BY <1>10, <1>11, <3>2
        <4>2. w.steps # z.steps
          BY <1>21, <1>22, <3>2
        <4>3. ASSUME NEW b \in ToSet(analysis.callers[w.at])
              PROVE  Child(w, b) \notin ToSet(paths')
          <5>1. w.at \in Methods /\ w.steps \in Seq(Ids(analysis))
            BY <1>10, <1>11, <3>2
          <5>2. b.assertion \in Ids(analysis)
            BY <1>4, <5>1, CallOfAssertion
          <5>3. Len(Child(w, b).steps) = n + 2
            BY <1>22, <3>2, <5>1, <5>2 DEF Child
          <5>4. \A y \in ToSet(paths') : Len(y.steps) <= n + 1
            BY <1>15, <1>21, <1>22
          <5> QED
            BY <5>3, <5>4
        <4> QED
          BY <1>15, <4>1, <4>2, <4>3
      <3> QED
        BY <1>16, <3>1, <3>2
    <2>7. ASSUME NEW b \in ToSet(left')
          PROVE  Child(z, b) \notin ToSet(paths')
      <3>1. b \in ToSet(left) /\ b \in ToSet(analysis.callers[z.at])
        BY <1>4, <1>6
      <3>2. Child(z, b) \notin ToSet(paths)
        BY <1>3, <3>1 DEF Distinct, z
      <3>3. b.assertion # x.assertion
        <4>1. PICK k \in DOMAIN left' : b = left'[k]
          BY <1>6, SetOf
        <4>2. k + 1 \in DOMAIN left /\ b = left[k + 1] /\ k + 1 # 1
          BY <1>6, <4>1
        <4> QED
          BY <1>3, <1>6, <4>2 DEF SearchTyped
      <3>4. b.assertion \in Ids(analysis)
        BY <1>4, <1>7, <3>1, CallOfAssertion
      <3>5. Child(z, b).steps[1] = b.assertion
        BY <1>7, <3>4 DEF Child
      <3> QED
        BY <1>10, <1>15, <3>2, <3>3, <3>5
    <2> QED
      BY <1>1, <2>1, <2>5, <2>6, <2>7 DEF Distinct, Callers, z
  <1>25. Trails'
    <2>1. \A w \in ToSet(queue) : Trail(analysis, d, w)
      BY <1>3 DEF Trails, d
    <2>2. \A w \in ToSet(queue') : Trail(analysis, d, w)
      BY <1>14, <1>16, <2>1
    <2> QED
      BY <1>1, <1>13, <1>17, <2>2 DEF Trails, d, z
  <1>26. Found'
    <2>1. ToSet(paths') \subseteq PathsOf(analysis, d)
      BY <1>3, <1>14, <1>15 DEF Found, d
    <2>2. ASSUME Len(analysis.seeds) = Seeded, NEW y \in PathsOf(analysis, d),
                 y \notin ToSet(paths')
          PROVE  Pending(y)'
      <3>1. Pending(y)
        BY <1>3, <1>15, <2>2 DEF Found, d
      <3>2. CASE \E w \in ToSet(queue) : \E b \in Callers(w.at) : Ahead(w, b, y)
        BY <1>1, <1>16, <3>2 DEF Pending, Callers
      <3>3. CASE \E b \in ToSet(left') : Ahead(z, b, y)
        BY <1>1, <3>3 DEF Pending, z
      <3>4. CASE Ahead(z, x, y)
        <4>1. y # p
          BY <1>15, <2>2
        <4>2. /\ x.subject \in Methods
              /\ \E b \in ToSet(analysis.callers[x.subject]) : Ahead(p, b, y)
          BY <1>4, <1>5, <1>8, <2>2, <3>4, <4>1, AheadOfChild DEF p
        <4>3. PICK b \in ToSet(analysis.callers[x.subject]) : Ahead(p, b, y)
          BY <4>2
        <4>4. Ahead(new, b, y)
          BY <1>11, <4>3 DEF Ahead
        <4>5. new \in ToSet(queue') /\ b \in ToSet(analysis'.callers[new.at])
          BY <1>1, <1>11, <1>16, <4>2
        <4> QED
          BY <4>4, <4>5 DEF Pending, Callers
      <3> QED
        BY <1>6, <3>1, <3>2, <3>3, <3>4 DEF Pending, z
    <2> QED
      BY <1>1, <1>17, <2>1, <2>2 DEF Found, d
  <1> QED
    BY <1>19, <1>20, <1>23, <1>24, <1>25, <1>26 DEF SearchInv

LEMMA EndKeeps ==
  ASSUME SearchInv, Truncate \/ Finish
  PROVE  SearchInv'
  <1>1. /\ analysis' = analysis /\ request' = request /\ queue' = queue /\ current' = current
        /\ left' = left /\ paths' = paths
        /\ truncated' \/ (truncated' = truncated /\ queue = <<>> /\ left = <<>>)
    BY DEF Truncate, Finish
  <1>2. SearchTyped'
    BY <1>1 DEF SearchInv, SearchTyped, Callers
  <1>3. EndsEmpty'
    <2>1. Seeded' = Seeded
      BY <1>1 DEF Seeded
    <2> QED
      BY <1>1, <2>1 DEF SearchInv, EndsEmpty
  <1>4. Levels'
    BY <1>1 DEF SearchInv, Levels
  <1>5. Distinct'
    BY <1>1 DEF SearchInv, Distinct, Callers
  <1>6. Trails'
    BY <1>1 DEF SearchInv, Trails
  <1>7. Found'
    <2>1. \A y : Pending(y)' <=> Pending(y)
      BY <1>1 DEF Pending, Callers
    <2>2. Seeded' = Seeded
      BY <1>1 DEF Seeded
    <2> QED
      BY <1>1, <2>1, <2>2 DEF SearchInv, Found
  <1> QED
    BY <1>2, <1>3, <1>4, <1>5, <1>6, <1>7 DEF SearchInv

LEMMA SearchStepKeeps ==
  ASSUME SearchInv, SearchNext
  PROVE  SearchInv'
  BY TakeKeeps, SkipSeenKeeps, ExtendKeeps, EndKeeps DEF SearchNext

LEMMA SearchStays ==
  ASSUME SearchInv, UNCHANGED searchVars
  PROVE  SearchInv'
  <1>1. /\ analysis' = analysis /\ request' = request /\ queue' = queue /\ current' = current
        /\ left' = left /\ paths' = paths /\ truncated' = truncated /\ done' = done
    BY DEF searchVars
  <1>2. Seeded' = Seeded /\ \A y : Pending(y)' <=> Pending(y)
    BY <1>1 DEF Seeded, Pending, Callers
  <1>3. SearchTyped'
    BY <1>1 DEF SearchInv, SearchTyped, Callers
  <1>4. EndsEmpty' /\ Levels' /\ Trails'
    BY <1>1, <1>2 DEF SearchInv, EndsEmpty, Levels, Trails
  <1>5. Distinct'
    BY <1>1 DEF SearchInv, Distinct, Callers
  <1>6. Found'
    BY <1>1, <1>2 DEF SearchInv, Found
  <1> QED
    BY <1>3, <1>4, <1>5, <1>6 DEF SearchInv

LEMMA AllPathsAre == AllPaths = PathsOf(analysis, request.maxDepth)
  <1>1. Calls = CallsOf(analysis)
    BY DEF Calls, CallsOf
  <1> HIDE DEF CallsOf
  <1> QED
    BY <1>1 DEF AllPaths, PathsOf, Chains, Chain, Names

LEMMA InvFinds == SearchInv => DependentsFound
  <1> SUFFICES ASSUME SearchInv PROVE DependentsFound
    OBVIOUS
  <1> DEFINE all == PathsOf(analysis, request.maxDepth)
  <1>1. SearchTyped /\ EndsEmpty /\ Levels /\ Distinct /\ Trails /\ Found
    BY DEF SearchInv
  <1>2. /\ AnalysisOK(analysis) /\ queue \in Seq(States(analysis)) /\ request.maxDepth \in Nat
        /\ left # <<>> => current \in States(analysis)
    BY <1>1, RequestsAssumption DEF SearchTyped
  <1>3. IsInjective(paths) /\ ToSet(paths) \subseteq all
    BY <1>1 DEF Distinct, Found
  <1>4. done /\ ~truncated => ToSet(paths) = all
    <2> SUFFICES ASSUME done, ~truncated, NEW y \in all, y \notin ToSet(paths)
                 PROVE  FALSE
      BY <1>3
    <2>1. Len(analysis.seeds) = Seeded /\ queue = <<>> /\ left = <<>>
      BY <1>1 DEF EndsEmpty
    <2>2. Pending(y)
      BY <1>1, <2>1 DEF Found
    <2> QED
      BY <2>1, <2>2 DEF Pending, ToSet
  <1>5. ASSUME Len(analysis.seeds) = Seeded, NEW x \in ToSet(paths), NEW y \in all \ ToSet(paths)
        PROVE  Len(x.steps) <= Len(y.steps)
    <2>1. Pending(y)
      BY <1>1, <1>5 DEF Found
    <2>2. PICK n \in Nat :
            /\ \A k \in DOMAIN queue : Len(queue[k].steps) \in {n, n + 1}
            /\ \A w \in ToSet(paths) : Len(w.steps) <= n + 1
            /\ left # <<>> => Len(current.steps) = n
      BY <1>1 DEF Levels
    <2>3. y.steps \in Seq(Ids(analysis)) /\ Len(y.steps) \in Nat
      BY <1>2, PathFacts DEF PathType
    <2>4. x.steps \in Seq(Ids(analysis)) /\ Len(x.steps) \in Nat
      BY <1>2, <1>3, PathFacts DEF PathType
    <2>5. Len(y.steps) >= n + 1
      <3>1. CASE \E z \in ToSet(queue) : \E b \in Callers(z.at) : Ahead(z, b, y)
        <4>1. PICK z \in ToSet(queue) : \E b \in Callers(z.at) : Ahead(z, b, y)
          BY <3>1
        <4>2. z.steps \in Seq(Ids(analysis)) /\ Len(z.steps) \in {n, n + 1}
          <5>1. PICK k \in DOMAIN queue : z = queue[k]
            BY DEF ToSet
          <5>2. z \in States(analysis)
            BY <1>2, <5>1
          <5> QED
            BY <2>2, <5>1, <5>2 DEF States
        <4>3. Len(y.steps) >= Len(z.steps) + 1
          BY <2>3, <4>1, <4>2, AheadLength
        <4> QED
          BY <2>3, <4>2, <4>3
      <3>2. CASE \E b \in ToSet(left) : Ahead(current, b, y)
        <4>1. left # <<>>
          BY <3>2 DEF ToSet
        <4>2. current.steps \in Seq(Ids(analysis)) /\ Len(current.steps) = n
          BY <1>2, <2>2, <4>1 DEF States
        <4>3. Len(y.steps) >= Len(current.steps) + 1
          BY <2>3, <3>2, <4>2, AheadLength
        <4> QED
          BY <4>2, <4>3
      <3> QED
        BY <2>1, <3>1, <3>2 DEF Pending
    <2> QED
      BY <2>2, <2>3, <2>4, <2>5
  <1> HIDE DEF all
  <1>6. AllPaths = all
    BY AllPathsAre DEF all
  <1> QED
    BY <1>3, <1>4, <1>5, <1>6 DEF DependentsFound

-----------------------------------------------------------------------------
(* The search within the whole.                                             *)

LEMMA NoSymbolOK == AnalysisOK(NoSymbol)
  <1>1. NoSymbol.seeds = <<>> /\ \A m \in Methods : NoSymbol.callers[m] = <<>>
    BY DEF NoSymbol
  <1>2. Assertions(NoSymbol) = {}
    BY <1>1 DEF Assertions, ToSet
  <1>3. NoSymbol.callers \in [Methods -> Seq(Assertions(NoSymbol))]
    <2>1. <<>> \in Seq(Assertions(NoSymbol))
      OBVIOUS
    <2> QED
      BY <2>1 DEF NoSymbol
  <1>4. NoSymbol.seeds \in Seq(Methods) /\ IsInjective(NoSymbol.seeds)
    BY <1>1 DEF IsInjective
  <1>5. \A m \in Methods : DOMAIN NoSymbol.callers[m] = {}
    BY <1>1
  <1> QED
    BY <1>2, <1>3, <1>4, <1>5 DEF AnalysisOK

LEMMA SearchInvariance == Spec => []SearchInv
  <1>1. ASSUME Init
        PROVE  SearchInv
    <2>1. AnalysisOK(analysis) /\ SearchInit({analysis})
      <3>1. CASE SearchInit(Analyses)
        BY <3>1, AnalysesAssumption DEF SearchInit
      <3>2. CASE SearchInit({NoSymbol})
        BY <3>2, NoSymbolOK DEF SearchInit
      <3> QED
        BY <1>1, <3>1, <3>2 DEF Init
    <2> QED
      BY <2>1, SearchStarts
  <1>2. ASSUME SearchInv, [Next]_<<searchVars, pageVars>>
        PROVE  SearchInv'
    <2>1. CASE SearchNext
      BY <1>2, <2>1, SearchStepKeeps
    <2>2. CASE UNCHANGED searchVars
      BY <1>2, <2>2, SearchStays
    <2>3. CASE Answer \/ AskAny \/ Change
      BY <2>2, <2>3 DEF Answer, AskAny, Ask, Refuse, Change
    <2> QED
      BY <1>2, <2>1, <2>2, <2>3 DEF Next
  <1> QED
    BY <1>1, <1>2, PTL DEF Spec

(* The search for the dependents finds chains of calls only, each once; if  *)
(* it does not say that it was truncated it finds all that its depth allows,*)
(* and if it does, and no seed was cut off, it leaves out none that is      *)
(* nearer than one it found.                                                *)
THEOREM DependentsAreFound == Spec => []DependentsFound
  BY SearchInvariance, InvFinds, PTL

=============================================================================
