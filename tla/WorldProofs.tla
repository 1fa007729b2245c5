---------------------------- MODULE WorldProofs -----------------------------
(***************************************************************************)
(* Theorems about World and the components it puts side by side: the       *)
(* tiles, the conditions and the creatures.                                *)
(***************************************************************************)
EXTENDS World, FoldLemmas, FiniteSetTheorems, FunctionTheorems,
        SequenceTheorems, TLAPS

-----------------------------------------------------------------------------
\* Min gives the least of a set of numbers that is not empty.
LEMMA LeastOf ==
  ASSUME NEW S, S \subseteq Nat, S # {}
  PROVE  /\ \E m \in S : \A j \in S : m <= j
         /\ Min(S) \in S /\ \A j \in S : Min(S) <= j
BY Zenon, HasLeast DEF Min

-----------------------------------------------------------------------------
\* What the properties and the marks of the item types are.
LEMMA TypesAre ==
  /\ \A x \in ItemTypes : /\ x.hasHeight \in {0, 1}
                          /\ x.props \subseteq Immovable
                          /\ x.marks \subseteq Marks
  /\ Marks \cap Immovable = {}
<1>1. Marks \cap Immovable = {}
  BY DEF Marks, Immovable, Solid
<1>2. ASSUME NEW x \in ItemTypes
      PROVE  /\ x.hasHeight \in {0, 1}
             /\ x.props \subseteq Immovable
             /\ x.marks \subseteq Marks
  <2> DEFINE Good(y) == /\ y.hasHeight \in {0, 1}
                        /\ y.props \subseteq Immovable
                        /\ y.marks \subseteq Marks
  <2>1. ASSUME NEW s, NEW o, NEW ty, NEW p, NEW m, NEW h,
               p \subseteq Immovable, m \subseteq Marks, h \in {0, 1}
        PROVE  Good(ItemType(s, o, ty, p, m, h))
    BY <2>1 DEF ItemType
  <2>2. /\ {} \subseteq Immovable /\ Immovable \subseteq Immovable
        /\ Solid \subseteq Immovable /\ {"BLOCKPATH"} \subseteq Immovable
        /\ {"BLOCKPATH", "BLOCKSOLID", "IMMOVABLEBLOCKSOLID"}
                \subseteq Immovable
        /\ {} \subseteq Marks /\ {"FLOORCHANGE"} \subseteq Marks
        /\ {"MAGICFIELD"} \subseteq Marks
    BY DEF Immovable, Solid, Marks
  <2> HIDE DEF Good
  <2>3. \A y \in ItemTypes : Good(y)
    BY Zenon, <2>1, <2>2 DEF ItemTypes
  <2> QED
    BY <2>3 DEF Good
<1> QED
  BY <1>1, <1>2

TileRecords ==
    [ground : ItemTypes \cup {NoItem}, items : Seq(ItemTypes), down : Nat,
     creatures : Nat, flags : SUBSET (Immovable \cup Marks), height : Nat,
     everTwo : SUBSET Marks, loading : BOOLEAN]

\* What lies at the places of a tile.
LEMMA PlacesAre ==
  ASSUME NEW t \in TileRecords
  PROVE  /\ Len(t.items) \in Nat /\ DOMAIN t.items = 1 .. Len(t.items)
         /\ \A k : k \in Places(t) <=> \/ k = 0 /\ t.ground # NoItem
                                       \/ k \in 1 .. Len(t.items)
         /\ Places(t) \subseteq Nat
         /\ \A k \in Places(t) : At(t, k) \in ItemTypes
         /\ IsFiniteSet(Places(t))
         /\ Cardinality(Places(t)) <= Len(t.items) + 1
<1>1. t.items \in Seq(ItemTypes) /\ t.ground \in ItemTypes \cup {NoItem}
  BY DEF TileRecords
<1>2. Len(t.items) \in Nat /\ DOMAIN t.items = 1 .. Len(t.items)
  BY <1>1
<1>3. \A k : k \in Places(t) <=> \/ k = 0 /\ t.ground # NoItem
                                 \/ k \in 1 .. Len(t.items)
  BY <1>2 DEF Places
<1>4. \A k \in Places(t) : At(t, k) \in ItemTypes
  <2> SUFFICES ASSUME NEW k \in Places(t) PROVE At(t, k) \in ItemTypes
    OBVIOUS
  <2>1. CASE k = 0 /\ t.ground # NoItem
    BY <1>1, <2>1 DEF At
  <2>2. CASE k \in 1 .. Len(t.items)
    <3>1. t.items[k] \in ItemTypes
      BY <1>1, <2>2, ElementOfSeq
    <3>2. k # 0
      BY <1>2, <2>2
    <3> QED
      BY <3>1, <3>2 DEF At
  <2> QED
    BY <1>3, <2>1, <2>2
<1>5. IsFiniteSet(0 .. Len(t.items))
      /\ Cardinality(0 .. Len(t.items)) = Len(t.items) + 1
  <2>1. \A n \in Nat : IsFiniteSet(0 .. n) /\ Cardinality(0 .. n) = n + 1
    BY FS_Interval
  <2> QED
    BY <1>2, <2>1
<1>6. Places(t) \in SUBSET (0 .. Len(t.items))
  BY <1>2, <1>3
<1>7. IsFiniteSet(Places(t)) /\ Cardinality(Places(t)) <= Len(t.items) + 1
  BY <1>5, <1>6, FS_Subset
<1> QED
  BY <1>2, <1>3, <1>4, <1>6, <1>7

-----------------------------------------------------------------------------
\* The invariant, of any tile.
Split(t) ==
    /\ t.down \in 0 .. Len(t.items)
    /\ \A k \in DOMAIN t.items : k <= t.down <=> ~OnTop(t.items[k])

FlagsFit(t) ==
    \A p \in Immovable :
        p \in t.flags <=> \E k \in Places(t) : p \in At(t, k).props

High(t) == {k \in Places(t) : At(t, k).hasHeight = 1}

HeightFits(t) == t.height = Cardinality(High(t))

\* A mark is set when one item bears it; when two do, that is remembered, but
\* not at once.
MarksSet(t) ==
    \A m \in Marks :
        /\ m \in t.flags => \E k \in Places(t) : m \in At(t, k).marks
        /\ m \notin t.everTwo =>
            \A k \in Places(t) : m \in At(t, k).marks => m \in t.flags

TwoRemembered(t) ==
    \A m \in Marks : m \notin t.everTwo =>
        \A j, k \in Places(t) :
            m \in At(t, j).marks /\ m \in At(t, k).marks => j = k

Sound(t) ==
    /\ t \in TileRecords /\ Split(t)
    /\ FlagsFit(t) /\ HeightFits(t) /\ MarksSet(t)

Steady(t) == Sound(t) /\ TwoRemembered(t)

\* Not more items have a height than lie there.
LEMMA HighFinite ==
  ASSUME NEW t \in TileRecords
  PROVE  /\ IsFiniteSet(High(t)) /\ Cardinality(High(t)) \in Nat
         /\ Cardinality(High(t)) <= Len(t.items) + 1
<1>1. /\ Len(t.items) \in Nat /\ IsFiniteSet(Places(t))
      /\ Cardinality(Places(t)) <= Len(t.items) + 1
  BY PlacesAre
<1>2. High(t) \in SUBSET Places(t)
  BY DEF High
<1>3. /\ IsFiniteSet(High(t)) /\ Cardinality(High(t)) <= Cardinality(Places(t))
      /\ Cardinality(High(t)) \in Nat /\ Cardinality(Places(t)) \in Nat
  BY <1>1, <1>2, FS_Subset, FS_CardinalityType
<1> QED
  BY <1>1, <1>3

\* big has one item more than small, at place k; the others correspond.
OneMore(big, small, k, f) ==
    /\ k \in Places(big)
    /\ f \in Bijection(Places(small), Places(big) \ {k})
    /\ \A j \in Places(small) : At(big, f[j]) = At(small, j)

\* What lies at the places of a tile with one item more.
LEMMA OneMoreGives ==
  ASSUME NEW big \in TileRecords, NEW small \in TileRecords, NEW k, NEW f,
         OneMore(big, small, k, f)
  PROVE  /\ k \in Places(big)
         /\ \A j \in Places(small) :
                /\ f[j] \in Places(big) /\ f[j] # k
                /\ At(big, f[j]) = At(small, j)
         /\ \A i, j \in Places(small) : f[i] = f[j] => i = j
         /\ \A i \in Places(big) : i # k =>
                \E j \in Places(small) : f[j] = i /\ At(small, j) = At(big, i)
         /\ Cardinality(High(big)) = Cardinality(High(small))
                    + (IF At(big, k).hasHeight = 1 THEN 1 ELSE 0)
<1>1. k \in Places(big)
  BY DEF OneMore
<1>2. f \in Bijection(Places(small), Places(big) \ {k})
  BY DEF OneMore
<1>3. \A j \in Places(small) : At(big, f[j]) = At(small, j)
  BY DEF OneMore
<1>4. /\ f \in [Places(small) -> Places(big) \ {k}]
      /\ \A i, j \in Places(small) : f[i] = f[j] => i = j
      /\ \A i \in Places(big) \ {k} : \E j \in Places(small) : f[j] = i
  BY <1>2, Fun_IsBij, Zenon DEF Bijection, Injection, Surjection,
     IsInjective
<1>5. \A j \in Places(small) : f[j] \in Places(big) /\ f[j] # k
  BY <1>4
<1>6. \A i \in Places(big) : i # k =>
            \E j \in Places(small) : f[j] = i /\ At(small, j) = At(big, i)
  BY <1>3, <1>4
<1> DEFINE H == High(big) \ {k}
           g == [j \in High(small) |-> f[j]]
<1>7. g \in Bijection(High(small), H)
  <2>1. \A j \in High(small) : j \in Places(small) /\ f[j] \in H
    BY <1>3, <1>5 DEF High
  <2>2. g \in [High(small) -> H]
    BY <2>1
  <2>3. \A i, j \in High(small) : g[i] = g[j] => i = j
    BY <1>4, <2>1
  <2>4. \A i \in H : \E j \in High(small) : g[j] = i
    BY <1>6 DEF High
  <2> HIDE DEF g, H
  <2> QED
    BY <2>2, <2>3, <2>4, Fun_IsBij
<1>8. Cardinality(H) = Cardinality(High(small))
  <2>1. ExistsBijection(High(small), H)
    BY <1>7, Zenon DEF ExistsBijection
  <2>2. IsFiniteSet(High(small))
    BY HighFinite
  <2> HIDE DEF H
  <2> QED
    BY <2>1, <2>2, FS_Bijection, Zenon
<1>9. Cardinality(H) = IF k \in High(big) THEN Cardinality(High(big)) - 1
                       ELSE Cardinality(High(big))
  BY Zenon, HighFinite, FS_RemoveElement
<1>10. k \in High(big) <=> At(big, k).hasHeight = 1
  BY <1>1 DEF High
<1>11. Cardinality(High(big)) \in Nat /\ Cardinality(High(small)) \in Nat
  BY HighFinite
<1> HIDE DEF H
<1>12. Cardinality(High(big)) = Cardinality(High(small))
                    + (IF At(big, k).hasHeight = 1 THEN 1 ELSE 0)
  BY <1>8, <1>9, <1>10, <1>11
<1> QED
  BY <1>1, <1>3, <1>4, <1>5, <1>6, <1>12

Inserted(q, s, k, x) ==
    \A i \in 1 .. Len(s) + 1 :
        /\ i < k => q[i] = s[i]
        /\ i = k => q[i] = x
        /\ i > k => q[i] = s[i - 1]

\* ... or inserted into it.
LEMMA InsertedInto ==
  ASSUME NEW T, NEW s \in Seq(T), NEW k \in 1 .. Len(s) + 1, NEW x \in T
  PROVE  /\ InsertAt(s, k, x) \in Seq(T)
         /\ Len(InsertAt(s, k, x)) = Len(s) + 1
         /\ Inserted(InsertAt(s, k, x), s, k, x)
<1>1. SubSeq(s, 1, k - 1) \in Seq(T) /\ SubSeq(s, k, Len(s)) \in Seq(T)
  OBVIOUS
<1>2. /\ Len(SubSeq(s, 1, k - 1)) = k - 1
      /\ Len(SubSeq(s, k, Len(s))) = Len(s) - k + 1
  OBVIOUS
<1>3. /\ \A i \in 1 .. k - 1 : SubSeq(s, 1, k - 1)[i] = s[i]
      /\ \A i \in 1 .. Len(s) - k + 1 : SubSeq(s, k, Len(s))[i] = s[k + i - 1]
  OBVIOUS
<1>4. /\ SubSeq(s, 1, k - 1) \o <<x>> \in Seq(T)
      /\ Len(SubSeq(s, 1, k - 1) \o <<x>>) = k
      /\ \A i \in 1 .. k : (SubSeq(s, 1, k - 1) \o <<x>>)[i]
                                = IF i < k THEN s[i] ELSE x
  BY <1>1, <1>2, <1>3
<1> DEFINE a == SubSeq(s, 1, k - 1) \o <<x>>
           b == SubSeq(s, k, Len(s))
<1>5. InsertAt(s, k, x) = a \o b
  BY DEF InsertAt
<1>6. a \in Seq(T) /\ b \in Seq(T) /\ Len(a) = k /\ Len(b) = Len(s) - k + 1
  BY <1>1, <1>2, <1>4
<1>7. \A i \in 1 .. k : a[i] = IF i < k THEN s[i] ELSE x
  BY <1>4
<1>8. \A i \in 1 .. Len(s) - k + 1 : b[i] = s[k + i - 1]
  BY <1>3
<1> HIDE DEF a, b
<1>9. a \o b \in Seq(T) /\ Len(a \o b) = Len(s) + 1
  BY <1>6
<1>10. Inserted(a \o b, s, k, x)
  <2> SUFFICES ASSUME NEW i \in 1 .. Len(s) + 1
               PROVE  /\ i < k => (a \o b)[i] = s[i]
                      /\ i = k => (a \o b)[i] = x
                      /\ i > k => (a \o b)[i] = s[i - 1]
    BY Zenon DEF Inserted
  <2>1. (a \o b)[i] = IF i <= k THEN a[i] ELSE b[i - k]
    BY <1>6
  <2>2. CASE i <= k
    <3>1. (a \o b)[i] = a[i]
      BY <2>1, <2>2
    <3>2. a[i] = IF i < k THEN s[i] ELSE x
      BY <2>2, <1>7
    <3> QED
      BY <3>1, <3>2, <2>2
  <2>3. CASE i > k
    <3>0. i - k \in 1 .. Len(s) - k + 1 /\ Len(s) \in Nat
      BY <2>3
    <3>1. b[i - k] = s[k + (i - k) - 1]
      BY <3>0, <1>8
    <3>2. k + (i - k) - 1 = i - 1
      OBVIOUS
    <3> QED
      BY <3>1, <3>2, <2>1, <2>3
  <2>4. i \in Int /\ k \in Int
    OBVIOUS
  <2>5. i <= k \/ i > k
    BY <2>4
  <2> QED
    BY <2>2, <2>3, <2>5, Zenon
<1> QED
  BY <1>5, <1>9, <1>10

-----------------------------------------------------------------------------
\* A tile with other items and ground than t.
SameRest(r, t) ==
    /\ r.creatures = t.creatures /\ r.everTwo = t.everTwo
    /\ r.loading = t.loading

\* What RemoveThing leaves, before and after the flags are reset.
Without(t, k) ==
    IF k = 0 THEN [t EXCEPT !.ground = NoItem]
    ELSE [t EXCEPT !.items = RemoveAt(@, k),
                   !.down = IF OnTop(At(t, k)) THEN @ ELSE @ - 1]

Down(k) == [j \in Nat |-> IF j = 0 \/ j < k THEN j ELSE j + 1]

\* Without its item at place k a tile has that item less.
LEMMA WithoutIs ==
  ASSUME NEW t \in TileRecords, Split(t), NEW k \in Places(t)
  PROVE  /\ Without(t, k) \in TileRecords
         /\ Without(t, k).flags = t.flags
         /\ Without(t, k).height = t.height
         /\ Len(Without(t, k).items) <= Len(t.items)
         /\ k # 0 => Len(Without(t, k).items) = Len(t.items) - 1
         /\ k # 0 => Without(t, k).ground = t.ground
         /\ k = 0 => Without(t, k).ground = NoItem
         /\ SameRest(Without(t, k), t)
         /\ Split(Without(t, k))
         /\ \E f : OneMore(t, Without(t, k), k, f)
<1> DEFINE r == Without(t, k)
<1>1. /\ Len(t.items) \in Nat /\ DOMAIN t.items = 1 .. Len(t.items)
      /\ \A j : j \in Places(t) <=> \/ j = 0 /\ t.ground # NoItem
                                    \/ j \in 1 .. Len(t.items)
      /\ Places(t) \subseteq Nat
  BY PlacesAre
<1>2. t.items \in Seq(ItemTypes)
  BY DEF TileRecords
<1>3. CASE k = 0
  <2>1. r = [t EXCEPT !.ground = NoItem]
    BY <1>3 DEF Without
  <2>2. /\ r \in TileRecords /\ r.items = t.items /\ r.down = t.down
        /\ r.flags = t.flags /\ r.height = t.height /\ r.ground = NoItem
        /\ SameRest(r, t)
    BY <2>1 DEF TileRecords, SameRest
  <2> HIDE DEF r
  <2>3. Split(r)
    BY <2>2 DEF Split
  <2>4. Places(r) = Places(t) \ {0}
    BY <1>1, <2>2 DEF Places
  <2> DEFINE f == [j \in Places(r) |-> j]
  <2>5. f \in Bijection(Places(r), Places(t) \ {k})
    <3>1. f \in [Places(r) -> Places(t) \ {k}]
      BY <2>4, <1>3
    <3> QED
      BY <3>1, <2>4, <1>3, Fun_IsBij
  <2>6. \A j \in Places(r) : At(t, f[j]) = At(r, j)
    BY <2>2, <2>4 DEF At
  <2>7. OneMore(t, r, k, f)
    BY <2>5, <2>6 DEF OneMore
  <2> QED
    BY <1>1, <1>3, <2>2, <2>3, <2>7 DEF r
<1>4. CASE k # 0
  <2>0. k \in 1 .. Len(t.items) /\ At(t, k) = t.items[k]
    BY <1>1, <1>4 DEF At
  <2> DEFINE s == RemoveAt(t.items, k)
             d == IF OnTop(t.items[k]) THEN t.down ELSE t.down - 1
  <2>1. r = [t EXCEPT !.items = s, !.down = d]
    BY <1>4, <2>0 DEF Without
  <2>2. /\ s \in Seq(ItemTypes) /\ Len(s) = Len(t.items) - 1
        /\ \A i \in 1 .. Len(t.items) - 1 :
             s[i] = IF i < k THEN t.items[i] ELSE t.items[i + 1]
    BY Zenon, <1>2, <2>0, RemovedFrom
  <2>3. /\ t.down \in 0 .. Len(t.items)
        /\ \A i \in 1 .. Len(t.items) : i <= t.down <=> ~OnTop(t.items[i])
    BY <1>1 DEF Split
  <2>4. d \in 0 .. Len(t.items) - 1
    BY <2>0, <2>3, <1>1
  <2> HIDE DEF s
  <2>5. \A i \in 1 .. Len(t.items) - 1 : i <= d <=> ~OnTop(s[i])
    <3> SUFFICES ASSUME NEW i \in 1 .. Len(t.items) - 1
                 PROVE  i <= d <=> ~OnTop(s[i])
      OBVIOUS
    <3>1. /\ i \in 1 .. Len(t.items) /\ i + 1 \in 1 .. Len(t.items)
      BY <1>1
    <3>2. /\ i <= t.down <=> ~OnTop(t.items[i])
          /\ i + 1 <= t.down <=> ~OnTop(t.items[i + 1])
          /\ k <= t.down <=> ~OnTop(t.items[k])
      BY <2>0, <2>3, <3>1
    <3>3. CASE i < k
      <4>1. s[i] = t.items[i]
        BY <2>2, <3>3
      <4> QED
        BY <4>1, <3>2, <3>3, <2>0, <2>3, <1>1
    <3>4. CASE ~(i < k)
      <4>1. s[i] = t.items[i + 1]
        BY <2>2, <3>4
      <4> QED
        BY <4>1, <3>2, <3>4, <2>0, <2>3, <1>1
    <3> QED
      BY <3>3, <3>4
  <2> HIDE DEF d
  <2>6. /\ r \in TileRecords /\ r.items = s /\ r.down = d
        /\ r.flags = t.flags /\ r.height = t.height /\ r.ground = t.ground
        /\ SameRest(r, t)
    <3>1. d \in Nat
      BY <2>4
    <3> QED
      BY Zenon, <2>1, <2>2, <3>1 DEF TileRecords, SameRest
  <2> HIDE DEF r
  <2>7. DOMAIN s = 1 .. Len(t.items) - 1
    BY <2>2, <1>1
  <2>8. Split(r)
    BY Zenon, <2>2, <2>4, <2>5, <2>6, <2>7 DEF Split
  <2>9. \A j : j \in Places(r) <=> \/ j = 0 /\ t.ground # NoItem
                                   \/ j \in 1 .. Len(t.items) - 1
    BY <2>6, <2>7 DEF Places
  <2> DEFINE f == [j \in Places(r) |-> IF j < k THEN j ELSE j + 1]
  <2>10. f \in Bijection(Places(r), Places(t) \ {k})
    <3>0. \A j \in Places(r) : j \in Nat
      BY <2>9, <1>1
    <3>1. f \in [Places(r) -> Places(t) \ {k}]
      <4> SUFFICES ASSUME NEW j \in Places(r)
                   PROVE  (IF j < k THEN j ELSE j + 1) \in Places(t) \ {k}
        OBVIOUS
      <4> QED
        BY <1>1, <2>0, <2>9
    <3>2. \A i, j \in Places(r) : f[i] = f[j] => i = j
      BY <3>0, <2>0, <1>1
    <3>3. \A i \in Places(t) \ {k} : \E j \in Places(r) : f[j] = i
      <4> SUFFICES ASSUME NEW i \in Places(t) \ {k}
                   PROVE  \E j \in Places(r) : f[j] = i
        OBVIOUS
      <4> DEFINE j == IF i < k THEN i ELSE i - 1
      <4>1. j \in Places(r)
        BY <1>1, <2>0, <2>9
      <4>2. f[j] = i
        BY <4>1, <2>0, <1>1
      <4> QED
        BY <4>1, <4>2
    <3> HIDE DEF f
    <3> QED
      BY <3>1, <3>2, <3>3, Fun_IsBij
  <2>11. \A j \in Places(r) : At(t, f[j]) = At(r, j)
    <3> SUFFICES ASSUME NEW j \in Places(r)
                 PROVE  At(t, f[j]) = At(r, j)
      OBVIOUS
    <3>1. f[j] = IF j < k THEN j ELSE j + 1
      OBVIOUS
    <3> HIDE DEF f
    <3>2. CASE j = 0
      <4>1. f[j] = 0
        BY <3>1, <3>2, <2>0
      <4> QED
        BY <4>1, <3>2, <2>6 DEF At
    <3>3. CASE j \in 1 .. Len(t.items) - 1
      <4>1. At(r, j) = s[j] /\ f[j] # 0 /\ At(t, f[j]) = t.items[f[j]]
        BY <3>1, <3>3, <2>6, <1>1, <2>0 DEF At
      <4>2. s[j] = IF j < k THEN t.items[j] ELSE t.items[j + 1]
        BY <2>2, <3>3
      <4> QED
        BY <4>1, <4>2, <3>1
    <3> QED
      BY <3>2, <3>3, <2>9
  <2>12. OneMore(t, r, k, f)
    <3> HIDE DEF f
    <3> QED
      BY <2>10, <2>11 DEF OneMore
  <2>13. \E g : OneMore(t, r, k, g)
    BY <2>12
  <2> HIDE DEF f
  <2> QED
    BY <1>1, <1>4, <2>2, <2>6, <2>8, <2>13 DEF r
<1> QED
  BY <1>3, <1>4

\* What lies on a tile is asked of its places.
LEMMA OnIs ==
  ASSUME NEW t \in TileRecords
  PROVE  /\ On(t) = {At(t, j) : j \in Places(t)}
         /\ \A k : Others(t, k) = {At(t, j) : j \in Places(t) \ {k}}
<1>1. -1 \notin Places(t)
  BY PlacesAre
<1> QED
  BY <1>1 DEF On, Others

ResetTo(t, r, x, others) ==
    /\ t \in TileRecords
    /\ t.ground = r.ground /\ t.items = r.items /\ t.down = r.down
    /\ SameRest(t, r)
    /\ \A p : p \in t.flags <=>
         /\ p \in r.flags /\ p \notin x.marks
         /\ p \in x.props => \E y \in others : p \in y.props
    /\ t.height = IF r.height > 0 THEN r.height - x.hasHeight ELSE r.height

\* ResetTileFlags changes flags and height only, ...
LEMMA ResetIs ==
  ASSUME NEW r \in TileRecords, NEW x \in ItemTypes, NEW others
  PROVE  ResetTo(ResetTileFlags(r, x, others), r, x, others)
<1> DEFINE lost == {p \in x.props : \A y \in others : p \notin y.props}
           fl == r.flags \ (lost \cup x.marks)
           h == IF r.height > 0 THEN r.height - x.hasHeight ELSE r.height
           t == ResetTileFlags(r, x, others)
<1>1. t = [r EXCEPT !.flags = fl, !.height = h]
  BY DEF ResetTileFlags
<1>2. fl \in SUBSET (Immovable \cup Marks)
  BY DEF TileRecords
<1>3. h \in Nat
  BY TypesAre DEF TileRecords
<1>4. \A p : p \in fl <=>
              /\ p \in r.flags /\ p \notin x.marks
              /\ p \in x.props => \E y \in others : p \in y.props
  OBVIOUS
<1> HIDE DEF fl
<1>5. h = IF r.height > 0 THEN r.height - x.hasHeight ELSE r.height
  OBVIOUS
<1> HIDE DEF h
<1>6. /\ t \in TileRecords /\ t.flags = fl /\ t.height = h
      /\ t.ground = r.ground /\ t.items = r.items /\ t.down = r.down
      /\ SameRest(t, r)
  BY Zenon, <1>1, <1>2, <1>3 DEF TileRecords, SameRest
<1> HIDE DEF t
<1>7. ResetTo(t, r, x, others)
  BY <1>4, <1>5, <1>6 DEF ResetTo
<1> QED
  BY <1>7 DEF t

\* ... and so does SetTileFlags.
LEMMA SetIs ==
  ASSUME NEW r \in TileRecords, NEW x \in ItemTypes
  PROVE  LET t == SetTileFlags(r, x) IN
         /\ t \in TileRecords
         /\ t.ground = r.ground /\ t.items = r.items /\ t.down = r.down
         /\ SameRest(t, r)
         /\ t.flags = r.flags \cup x.props \cup x.marks
         /\ t.height = r.height + x.hasHeight
<1> DEFINE fl == r.flags \cup x.props \cup x.marks
           h == r.height + x.hasHeight
<1>1. SetTileFlags(r, x) = [r EXCEPT !.flags = fl, !.height = h]
  BY DEF SetTileFlags
<1>2. fl \in SUBSET (Immovable \cup Marks) /\ h \in Nat
  BY TypesAre DEF TileRecords
<1> HIDE DEF fl, h
<1>3. LET t == SetTileFlags(r, x) IN
         /\ t \in TileRecords
         /\ t.ground = r.ground /\ t.items = r.items /\ t.down = r.down
         /\ SameRest(t, r)
         /\ t.flags = fl
         /\ t.height = h
  BY Zenon, <1>1, <1>2 DEF TileRecords, SameRest
<1> QED
  BY <1>3 DEF fl, h

\* Places and flags depend on the ground and the items only.
LEMMA SamePlaces ==
  ASSUME NEW r, NEW t, r.ground = t.ground, r.items = t.items
  PROVE  /\ Places(r) = Places(t) /\ High(r) = High(t)
         /\ \A k : At(r, k) = At(t, k)
         /\ r.down = t.down => (Split(r) <=> Split(t))
<1>1. Places(r) = Places(t) /\ \A k : At(r, k) = At(t, k)
  BY DEF Places, At
<1>2. High(r) = High(t)
  BY <1>1 DEF High
<1>3. r.down = t.down => (Split(r) <=> Split(t))
  BY DEF Split
<1> QED
  BY <1>1, <1>2, <1>3

-----------------------------------------------------------------------------
\* An item more, and its flags set.
LEMMA GainFits ==
  ASSUME NEW t, Sound(t), NEW r \in TileRecords, NEW k, NEW f,
         Split(r), OneMore(r, t, k, f), r.flags = t.flags,
         r.height = t.height, SameRest(r, t)
  PROVE  Sound(SetTileFlags(r, At(r, k)))
<1> DEFINE x == At(r, k)
           n == SetTileFlags(r, x)
<1>1. t \in TileRecords /\ FlagsFit(t) /\ HeightFits(t) /\ MarksSet(t)
  BY DEF Sound
<1>2. /\ k \in Places(r)
      /\ \A j \in Places(t) :
                /\ f[j] \in Places(r) /\ f[j] # k
                /\ At(r, f[j]) = At(t, j)
      /\ \A i \in Places(r) : i # k =>
                \E j \in Places(t) : f[j] = i /\ At(t, j) = At(r, i)
      /\ Cardinality(High(r)) = Cardinality(High(t))
                    + (IF At(r, k).hasHeight = 1 THEN 1 ELSE 0)
  BY <1>1, OneMoreGives
<1>3. x \in ItemTypes
  BY <1>2, PlacesAre
<1>4. /\ x.hasHeight \in {0, 1} /\ x.props \subseteq Immovable
      /\ x.marks \subseteq Marks
  BY <1>3, TypesAre
<1>5. /\ n \in TileRecords
      /\ n.ground = r.ground /\ n.items = r.items /\ n.down = r.down
      /\ SameRest(n, r)
      /\ n.flags = r.flags \cup x.props \cup x.marks
      /\ n.height = r.height + x.hasHeight
  BY <1>3, SetIs
<1>5a. x = At(r, k)
  OBVIOUS
<1> HIDE DEF n, x
<1>6. /\ Places(n) = Places(r) /\ High(n) = High(r)
      /\ \A i : At(n, i) = At(r, i)
      /\ Split(n)
  BY <1>5, SamePlaces
<1>7. FlagsFit(n)
  <2> SUFFICES ASSUME NEW p \in Immovable
               PROVE  p \in n.flags <=>
                        \E i \in Places(n) : p \in At(n, i).props
    BY DEF FlagsFit
  <2>1. p \in t.flags <=> \E j \in Places(t) : p \in At(t, j).props
    BY <1>1 DEF FlagsFit
  <2>2. p \notin x.marks
    BY <1>4, TypesAre
  <2>3. p \in n.flags <=> p \in t.flags \/ p \in x.props
    BY <1>5, <2>2
  <2>4. ASSUME p \in n.flags
        PROVE  \E i \in Places(r) : p \in At(r, i).props
    BY <2>1, <2>3, <2>4, <1>2, <1>5a
  <2>5. ASSUME NEW i \in Places(r), p \in At(r, i).props
        PROVE  p \in n.flags
    BY <2>1, <2>3, <2>5, <1>2, <1>5a
  <2> QED
    BY <2>4, <2>5, <1>6
<1>8. HeightFits(n)
  <2>1. /\ n.height = t.height + x.hasHeight
        /\ t.height = Cardinality(High(t))
    BY <1>1, <1>5 DEF HeightFits
  <2> QED
    BY <2>1, <1>2, <1>4, <1>5a, <1>6 DEF HeightFits
<1>9. MarksSet(n)
  <2> SUFFICES ASSUME NEW m \in Marks
               PROVE  /\ m \in n.flags =>
                          \E i \in Places(n) : m \in At(n, i).marks
                      /\ m \notin n.everTwo =>
                          \A i \in Places(n) :
                             m \in At(n, i).marks => m \in n.flags
    BY DEF MarksSet
  <2>1. /\ m \in t.flags => \E j \in Places(t) : m \in At(t, j).marks
        /\ m \notin t.everTwo =>
              \A j \in Places(t) : m \in At(t, j).marks => m \in t.flags
    BY <1>1 DEF MarksSet
  <2>2. m \notin x.props
    BY <1>4, TypesAre
  <2>3. m \in n.flags <=> m \in t.flags \/ m \in x.marks
    BY <1>5, <2>2
  <2>4. n.everTwo = t.everTwo
    BY <1>5 DEF SameRest
  <2>5. ASSUME m \in n.flags
        PROVE  \E i \in Places(r) : m \in At(r, i).marks
    BY <2>1, <2>3, <2>5, <1>2, <1>5a
  <2>6. ASSUME m \notin n.everTwo, NEW i \in Places(r), m \in At(r, i).marks
        PROVE  m \in n.flags
    BY <2>1, <2>3, <2>4, <2>6, <1>2, <1>5a
  <2> QED
    BY <2>5, <2>6, <1>6
<1> QED
  BY <1>5, <1>6, <1>7, <1>8, <1>9 DEF Sound, n, x

\* An item less, and its flags reset.
LEMMA LossFits ==
  ASSUME NEW t, Steady(t), NEW k \in Places(t)
  PROVE  LET n == RemoveThing(t, k) IN
         /\ Steady(n)
         /\ n.ground = Without(t, k).ground
         /\ n.items = Without(t, k).items
         /\ n.down = Without(t, k).down
         /\ SameRest(n, t)
<1> DEFINE x == At(t, k)
           r == Without(t, k)
           n == RemoveThing(t, k)
<1>1. /\ t \in TileRecords /\ Split(t) /\ FlagsFit(t) /\ HeightFits(t)
      /\ MarksSet(t) /\ TwoRemembered(t)
  BY DEF Steady, Sound
<1>2. /\ r \in TileRecords /\ r.flags = t.flags /\ r.height = t.height
      /\ SameRest(r, t) /\ Split(r) /\ \E f : OneMore(t, r, k, f)
  BY <1>1, WithoutIs
<1>3. n = ResetTileFlags(r, x, On(r))
  BY DEF RemoveThing, Without
<1>4. x \in ItemTypes
  BY <1>1, PlacesAre
<1>5. /\ x.hasHeight \in {0, 1} /\ x.props \subseteq Immovable
      /\ x.marks \subseteq Marks
  BY <1>4, TypesAre
<1>5a. x = At(t, k)
  OBVIOUS
<1> HIDE DEF r, n, x
<1>6. PICK f : OneMore(t, r, k, f)
  BY <1>2
<1>7. /\ \A j \in Places(r) :
                /\ f[j] \in Places(t) /\ f[j] # k
                /\ At(t, f[j]) = At(r, j)
      /\ \A i, j \in Places(r) : f[i] = f[j] => i = j
      /\ \A i \in Places(t) : i # k =>
                \E j \in Places(r) : f[j] = i /\ At(r, j) = At(t, i)
      /\ Cardinality(High(t)) = Cardinality(High(r))
                    + (IF At(t, k).hasHeight = 1 THEN 1 ELSE 0)
  BY <1>1, <1>2, <1>6, OneMoreGives
<1>8. /\ n \in TileRecords
      /\ n.ground = r.ground /\ n.items = r.items /\ n.down = r.down
      /\ SameRest(n, r)
      /\ \A p : p \in n.flags <=>
            /\ p \in r.flags /\ p \notin x.marks
            /\ p \in x.props => \E y \in On(r) : p \in y.props
      /\ n.height = IF r.height > 0 THEN r.height - x.hasHeight
                    ELSE r.height
  BY <1>2, <1>3, <1>4, ResetIs DEF ResetTo
<1>9. /\ Places(n) = Places(r) /\ High(n) = High(r)
      /\ \A i : At(n, i) = At(r, i)
      /\ Split(n)
  BY <1>2, <1>8, SamePlaces
<1>10. \A y : y \in On(r) <=> \E j \in Places(r) : y = At(r, j)
  BY <1>2, OnIs
<1>11. FlagsFit(n)
  <2> SUFFICES ASSUME NEW p \in Immovable
               PROVE  p \in n.flags <=>
                        \E i \in Places(n) : p \in At(n, i).props
    BY DEF FlagsFit
  <2>1. p \in t.flags <=> \E j \in Places(t) : p \in At(t, j).props
    BY <1>1 DEF FlagsFit
  <2>2. p \notin x.marks
    BY <1>5, TypesAre
  <2>3. p \in n.flags <=> /\ p \in t.flags
                          /\ p \in x.props =>
                               \E j \in Places(r) : p \in At(r, j).props
    BY <1>2, <1>8, <1>10, <2>2
  <2>4. ASSUME p \in n.flags
        PROVE  \E j \in Places(r) : p \in At(r, j).props
    BY <2>1, <2>3, <2>4, <1>5a, <1>7
  <2>5. ASSUME NEW j \in Places(r), p \in At(r, j).props
        PROVE  p \in n.flags
    BY <2>1, <2>3, <2>5, <1>7
  <2> QED
    BY <2>4, <2>5, <1>9
<1>12. HeightFits(n)
  <2>1. t.height = Cardinality(High(t)) /\ r.height = t.height
    BY <1>1, <1>2 DEF HeightFits
  <2>2. Cardinality(High(r)) \in Nat /\ Cardinality(High(t)) \in Nat
    BY <1>1, <1>2, HighFinite
  <2>3. n.height = Cardinality(High(r))
    BY <2>1, <2>2, <1>5, <1>5a, <1>7, <1>8
  <2> QED
    BY <2>3, <1>9 DEF HeightFits
<1>13. n.everTwo = t.everTwo /\ SameRest(n, t)
  BY <1>2, <1>8 DEF SameRest
<1>14. MarksSet(n)
  <2> SUFFICES ASSUME NEW m \in Marks
               PROVE  /\ m \in n.flags =>
                          \E i \in Places(n) : m \in At(n, i).marks
                      /\ m \notin n.everTwo =>
                          \A i \in Places(n) :
                             m \in At(n, i).marks => m \in n.flags
    BY DEF MarksSet
  <2>1. /\ m \in t.flags => \E j \in Places(t) : m \in At(t, j).marks
        /\ m \notin t.everTwo =>
              \A j \in Places(t) : m \in At(t, j).marks => m \in t.flags
    BY <1>1 DEF MarksSet
  <2>2. m \notin x.props
    BY <1>5, TypesAre
  <2>3. m \in n.flags <=> m \in t.flags /\ m \notin x.marks
    BY <1>2, <1>8, <2>2
  <2>4. ASSUME m \in n.flags
        PROVE  \E j \in Places(r) : m \in At(r, j).marks
    BY <2>1, <2>3, <2>4, <1>5a, <1>7
  <2>5. ASSUME m \notin n.everTwo, NEW j \in Places(r), m \in At(r, j).marks
        PROVE  m \in n.flags
    <3>1. f[j] \in Places(t) /\ f[j] # k /\ m \in At(t, f[j]).marks
      BY <2>5, <1>7
    <3>2. m \in t.flags
      BY <3>1, <2>1, <2>5, <1>13
    <3>3. m \notin x.marks
      BY <3>1, <2>5, <1>1, <1>5a, <1>13 DEF TwoRemembered
    <3> QED
      BY <3>2, <3>3, <2>3
  <2> QED
    BY <2>4, <2>5, <1>9
<1>15. TwoRemembered(n)
  <2> SUFFICES ASSUME NEW m \in Marks, m \notin n.everTwo,
                      NEW i \in Places(n), NEW j \in Places(n),
                      m \in At(n, i).marks, m \in At(n, j).marks
               PROVE  i = j
    BY DEF TwoRemembered
  <2>1. /\ f[i] \in Places(t) /\ f[j] \in Places(t)
        /\ m \in At(t, f[i]).marks /\ m \in At(t, f[j]).marks
    BY <1>7, <1>9
  <2>2. f[i] = f[j]
    BY <2>1, <1>1, <1>13 DEF TwoRemembered
  <2> QED
    BY <2>2, <1>7, <1>9
<1>16. Steady(n)
  BY <1>8, <1>9, <1>11, <1>12, <1>14, <1>15 DEF Steady, Sound
<1>17. /\ Steady(n)
       /\ n.ground = r.ground /\ n.items = r.items /\ n.down = r.down
       /\ SameRest(n, t)
  BY <1>8, <1>13, <1>16
<1> QED
  BY <1>17 DEF n, r

\* r is t with x put at place k of the list, where it belongs.
With(r, t, k, x) ==
    /\ k \in 1 .. Len(t.items) + 1
    /\ IF OnTop(x) THEN k > t.down ELSE k <= t.down + 1
    /\ r.items = InsertAt(t.items, k, x)
    /\ r.down = IF OnTop(x) THEN t.down ELSE t.down + 1
    /\ r.ground = t.ground /\ r.flags = t.flags /\ r.height = t.height
    /\ SameRest(r, t)

\* Put where it belongs, an item leaves the down items first.
LEMMA WithIs ==
  ASSUME NEW t \in TileRecords, Split(t), NEW k, NEW x \in ItemTypes,
         NEW r \in TileRecords, With(r, t, k, x)
  PROVE  /\ Split(r) /\ At(r, k) = x
         /\ Len(r.items) = Len(t.items) + 1
         /\ \E f : OneMore(r, t, k, f)
<1>1. /\ Len(t.items) \in Nat /\ DOMAIN t.items = 1 .. Len(t.items)
      /\ \A j : j \in Places(t) <=> \/ j = 0 /\ t.ground # NoItem
                                    \/ j \in 1 .. Len(t.items)
      /\ Places(t) \subseteq Nat
  BY PlacesAre
<1>2. t.items \in Seq(ItemTypes)
  BY DEF TileRecords
<1>3. /\ k \in 1 .. Len(t.items) + 1
      /\ OnTop(x) => k > t.down
      /\ ~OnTop(x) => k <= t.down + 1
      /\ r.items = InsertAt(t.items, k, x)
      /\ r.down = IF OnTop(x) THEN t.down ELSE t.down + 1
      /\ r.ground = t.ground
  BY DEF With
<1> DEFINE s == r.items
<1>4. /\ s \in Seq(ItemTypes) /\ Len(s) = Len(t.items) + 1
      /\ \A i \in 1 .. Len(t.items) + 1 :
           /\ i < k => s[i] = t.items[i]
           /\ i = k => s[i] = x
           /\ i > k => s[i] = t.items[i - 1]
  <2>1. k \in 1 .. Len(t.items) + 1
    BY <1>3
  <2>2. s = InsertAt(t.items, k, x)
    BY <1>3
  <2> HIDE DEF s
  <2>3. /\ s \in Seq(ItemTypes) /\ Len(s) = Len(t.items) + 1
        /\ Inserted(s, t.items, k, x)
    BY <1>2, <2>1, <2>2, InsertedInto, Zenon
  <2> QED
    BY <2>3 DEF Inserted
<1>5. DOMAIN s = 1 .. Len(t.items) + 1
  BY <1>1, <1>4
<1>6. r.items = s
  OBVIOUS
<1> HIDE DEF s
<1>7. /\ t.down \in 0 .. Len(t.items)
      /\ \A i \in 1 .. Len(t.items) : i <= t.down <=> ~OnTop(t.items[i])
  BY <1>1 DEF Split
<1>8. r.down \in 0 .. Len(t.items) + 1
  BY <1>1, <1>3, <1>7
<1>9. \A i \in 1 .. Len(t.items) + 1 : i <= r.down <=> ~OnTop(s[i])
  <2> SUFFICES ASSUME NEW i \in 1 .. Len(t.items) + 1
               PROVE  i <= r.down <=> ~OnTop(s[i])
    OBVIOUS
  <2>0. i \in Int /\ k \in Int /\ t.down \in Int
    BY <1>3, <1>7
  <2>1. CASE i < k
    <3>1. s[i] = t.items[i] /\ i \in 1 .. Len(t.items)
      BY <1>1, <1>3, <1>4, <2>1
    <3>2. i <= t.down <=> ~OnTop(s[i])
      BY <3>1, <1>7
    <3> QED
      BY <3>2, <2>0, <2>1, <1>3
  <2>2. CASE i = k
    <3>1. s[i] = x
      BY <1>4, <2>0, <2>2
    <3> QED
      BY <3>1, <2>0, <2>2, <1>3
  <2>3. CASE i > k
    <3>1. s[i] = t.items[i - 1] /\ i - 1 \in 1 .. Len(t.items)
      BY <1>1, <1>3, <1>4, <2>0, <2>3
    <3>2. i - 1 <= t.down <=> ~OnTop(s[i])
      BY <3>1, <1>7
    <3> QED
      BY <3>2, <2>0, <2>3, <1>3
  <2> QED
    BY <2>0, <2>1, <2>2, <2>3
<1>10. Split(r)
  BY <1>4, <1>5, <1>6, <1>8, <1>9 DEF Split
<1>11. \A j : j \in Places(r) <=> \/ j = 0 /\ t.ground # NoItem
                                  \/ j \in 1 .. Len(t.items) + 1
  BY <1>3, <1>5, <1>6 DEF Places
<1>12. At(r, k) = x /\ k \in Places(r)
  <2>1. k \in 1 .. Len(t.items) + 1 /\ k # 0 /\ k \in Int
    BY <1>1, <1>3
  <2>2. s[k] = x
    BY <1>4, <2>1
  <2> QED
    BY <1>6, <1>11, <2>1, <2>2 DEF At
<1> DEFINE f == [j \in Places(t) |-> IF j < k THEN j ELSE j + 1]
<1>13. f \in Bijection(Places(t), Places(r) \ {k})
  <2>1. f \in [Places(t) -> Places(r) \ {k}]
    <3> SUFFICES ASSUME NEW j \in Places(t)
                 PROVE  (IF j < k THEN j ELSE j + 1) \in Places(r) \ {k}
      OBVIOUS
    <3> QED
      BY <1>1, <1>3, <1>11
  <2>2. \A i, j \in Places(t) : f[i] = f[j] => i = j
    BY <1>1, <1>3
  <2>3. \A i \in Places(r) \ {k} : \E j \in Places(t) : f[j] = i
    <3> SUFFICES ASSUME NEW i \in Places(r) \ {k}
                 PROVE  \E j \in Places(t) : f[j] = i
      OBVIOUS
    <3> DEFINE j == IF i < k THEN i ELSE i - 1
    <3>1. j \in Places(t)
      BY <1>1, <1>3, <1>11
    <3>2. f[j] = i
      BY <3>1, <1>1, <1>3, <1>11
    <3> QED
      BY <3>1, <3>2
  <2> HIDE DEF f
  <2> QED
    BY <2>1, <2>2, <2>3, Fun_IsBij
<1>14. \A j \in Places(t) : At(r, f[j]) = At(t, j)
  <2> SUFFICES ASSUME NEW j \in Places(t)
               PROVE  At(r, f[j]) = At(t, j)
    OBVIOUS
  <2>1. f[j] = IF j < k THEN j ELSE j + 1
    OBVIOUS
  <2> HIDE DEF f
  <2>2. CASE j = 0
    <3>1. f[j] = 0
      BY <2>1, <2>2, <1>3
    <3> QED
      BY <3>1, <2>2, <1>3 DEF At
  <2>3. CASE j \in 1 .. Len(t.items)
    <3>1. /\ f[j] \in 1 .. Len(t.items) + 1 /\ f[j] # 0
          /\ At(r, f[j]) = s[f[j]] /\ At(t, j) = t.items[j]
      BY <2>1, <2>3, <1>1, <1>3, <1>6 DEF At
    <3>2. s[f[j]] = t.items[j]
      BY <2>1, <2>3, <3>1, <1>1, <1>3, <1>4
    <3> QED
      BY <3>1, <3>2
  <2> QED
    BY <2>2, <2>3, <1>1
<1>15. OneMore(r, t, k, f)
  <2> HIDE DEF f
  <2> QED
    BY <1>12, <1>13, <1>14 DEF OneMore
<1>16. \E g : OneMore(r, t, k, g)
  BY <1>15
<1> HIDE DEF f
<1> QED
  BY <1>4, <1>6, <1>10, <1>12, <1>16

\* An item becomes the first one, ...
LEMMA InsertDownFits ==
  ASSUME NEW t, Sound(t), NEW x \in ItemTypes, ~OnTop(x)
  PROVE  LET n == InsertDown(t, x) IN
         /\ Sound(n) /\ SameRest(n, t)
         /\ Len(n.items) = Len(t.items) + 1
<1> DEFINE s == <<x>> \o t.items
           d == t.down + 1
           r == [t EXCEPT !.items = s, !.down = d]
           n == SetTileFlags(r, x)
<1>1. t \in TileRecords /\ Split(t)
  BY DEF Sound
<1>2. t.items \in Seq(ItemTypes) /\ t.down \in Nat
  BY <1>1 DEF TileRecords
<1>3. s = InsertAt(t.items, 1, x)
  BY <1>2 DEF InsertAt
<1>4. s \in Seq(ItemTypes) /\ d \in Nat /\ d = t.down + 1
  BY <1>2
<1>5. n = InsertDown(t, x)
  BY DEF InsertDown
<1> HIDE DEF s, d
<1>6. r \in TileRecords /\ r.items = s /\ r.down = d
      /\ r.ground = t.ground /\ r.flags = t.flags /\ r.height = t.height
      /\ SameRest(r, t)
  BY Zenon, <1>1, <1>4 DEF TileRecords, SameRest
<1> HIDE DEF r
<1>7. 1 \in 1 .. Len(t.items) + 1 /\ 1 <= t.down + 1
  BY <1>2
<1>8. With(r, t, 1, x)
  BY <1>3, <1>4, <1>6, <1>7 DEF With
<1>9. /\ Split(r) /\ At(r, 1) = x
      /\ Len(r.items) = Len(t.items) + 1
      /\ \E f : OneMore(r, t, 1, f)
  BY <1>1, <1>6, <1>8, WithIs
<1>10. Sound(SetTileFlags(r, At(r, 1)))
  BY <1>6, <1>9, GainFits
<1>11. n.items = r.items /\ SameRest(n, r)
  BY <1>6, SetIs
<1>12. Sound(n) /\ SameRest(n, t) /\ Len(n.items) = Len(t.items) + 1
  BY <1>6, <1>9, <1>10, <1>11 DEF SameRest
<1> QED
  BY <1>5, <1>12

\* ... or a top item before later ones.
LEMMA InsertTopFits ==
  ASSUME NEW t, Sound(t), NEW x \in ItemTypes, OnTop(x),
         NEW later \in SUBSET TopPlaces(t)
  PROVE  LET n == InsertTop(t, x, later) IN
         /\ Sound(n) /\ SameRest(n, t)
         /\ Len(n.items) = Len(t.items) + 1
<1> DEFINE k == Min(later \cup {Len(t.items) + 1})
           s == InsertAt(t.items, k, x)
           r == [t EXCEPT !.items = s]
           n == SetTileFlags(r, x)
<1>1. t \in TileRecords /\ Split(t)
  BY DEF Sound
<1>2. t.items \in Seq(ItemTypes) /\ t.down \in 0 .. Len(t.items)
      /\ Len(t.items) \in Nat
  BY <1>1 DEF TileRecords, Split
<1>3. n = InsertTop(t, x, later)
  BY DEF InsertTop
<1>4. k \in later \cup {Len(t.items) + 1}
  <2>0. TopPlaces(t) \subseteq Nat /\ Len(t.items) + 1 \in Nat
    BY <1>2 DEF TopPlaces
  <2>1. later \cup {Len(t.items) + 1} \subseteq Nat
    BY <2>0
  <2> QED
    BY <2>1, LeastOf
<1>5. k \in 1 .. Len(t.items) + 1 /\ k > t.down
  <2> HIDE DEF k
  <2>1. CASE k \in later
    <3>1. k \in t.down + 1 .. Len(t.items)
      BY <2>1 DEF TopPlaces
    <3> QED
      BY <3>1, <1>2
  <2>2. CASE k = Len(t.items) + 1
    BY <2>2, <1>2
  <2> QED
    BY <1>4, <2>1, <2>2
<1> HIDE DEF k
<1>6. s \in Seq(ItemTypes)
  BY <1>2, <1>5, InsertedInto
<1>7. s = InsertAt(t.items, k, x)
  OBVIOUS
<1> HIDE DEF s
<1>8. r \in TileRecords /\ r.items = s /\ r.down = t.down
      /\ r.ground = t.ground /\ r.flags = t.flags /\ r.height = t.height
      /\ SameRest(r, t)
  BY <1>1, <1>6 DEF TileRecords, SameRest
<1> HIDE DEF r
<1>9. With(r, t, k, x)
  BY <1>5, <1>7, <1>8 DEF With
<1>10. /\ Split(r) /\ At(r, k) = x
       /\ Len(r.items) = Len(t.items) + 1
       /\ \E f : OneMore(r, t, k, f)
  BY <1>1, <1>8, <1>9, WithIs
<1>11. Sound(SetTileFlags(r, At(r, k)))
  BY <1>8, <1>10, GainFits
<1>12. n.items = r.items /\ SameRest(n, r)
  BY <1>8, SetIs
<1>13. Sound(n) /\ SameRest(n, t) /\ Len(n.items) = Len(t.items) + 1
  BY <1>8, <1>10, <1>11, <1>12 DEF SameRest
<1> QED
  BY <1>3, <1>13

\* The first ground of a tile.
LEMMA FirstGroundFits ==
  ASSUME NEW t, Sound(t), NEW x \in ItemTypes, t.ground = NoItem
  PROVE  /\ Sound(NewGround(t, x)) /\ SameRest(NewGround(t, x), t)
         /\ NewGround(t, x).items = t.items
<1> DEFINE r == [t EXCEPT !.ground = x]
           n == SetTileFlags(r, x)
<1>1. t \in TileRecords /\ Split(t)
  BY DEF Sound
<1>2. n = NewGround(t, x)
  BY DEF NewGround
<1>3. r \in TileRecords /\ r.items = t.items /\ r.down = t.down
      /\ r.ground = x /\ r.flags = t.flags /\ r.height = t.height
      /\ SameRest(r, t)
  BY <1>1 DEF TileRecords, SameRest
<1> HIDE DEF r
<1>4. Split(r)
  BY <1>1, <1>3 DEF Split
<1>5. x # NoItem
  BY NoItemAssumption
<1>6. 0 \notin Places(t) /\ Places(t) \subseteq Nat
  BY <1>1, PlacesAre
<1>7. Places(r) = Places(t) \cup {0}
  BY <1>3, <1>5 DEF Places
<1> DEFINE f == [j \in Places(t) |-> j]
<1>8. f \in Bijection(Places(t), Places(r) \ {0})
  <2>1. f \in [Places(t) -> Places(r) \ {0}]
    BY <1>6, <1>7
  <2> QED
    BY <2>1, <1>6, <1>7, Fun_IsBij
<1>9. \A j \in Places(t) : At(r, f[j]) = At(t, j)
  BY <1>3, <1>6 DEF At
<1>10. At(r, 0) = x
  BY <1>3 DEF At
<1>11. OneMore(r, t, 0, f)
  <2> HIDE DEF f
  <2> QED
    BY <1>7, <1>8, <1>9 DEF OneMore
<1>12. Sound(SetTileFlags(r, At(r, 0)))
  BY <1>3, <1>4, <1>11, GainFits
<1>13. n.items = r.items /\ SameRest(n, r)
  BY <1>3, SetIs
<1>14. Sound(n) /\ SameRest(n, t) /\ n.items = t.items
  BY <1>3, <1>10, <1>12, <1>13 DEF SameRest
<1> QED
  BY <1>2, <1>14

\* An item in the place of another: n is what becomes of the tile.
Replaced(n, t, k, x) ==
    /\ n \in TileRecords
    /\ n.ground = Put(t, k, x).ground /\ n.items = Put(t, k, x).items
    /\ n.down = t.down /\ SameRest(n, t)
    /\ \A p : p \in n.flags <=>
         \/ p \in x.props \/ p \in x.marks
         \/ /\ p \in t.flags /\ p \notin At(t, k).marks
            /\ p \in At(t, k).props =>
                 \E j \in Places(t) : j # k /\ p \in At(t, j).props
    /\ n.height = (IF t.height > 0 THEN t.height - At(t, k).hasHeight
                   ELSE t.height) + x.hasHeight

\* What lies at the places after Put.
LEMMA PutIs ==
  ASSUME NEW t \in TileRecords, NEW k \in Places(t), NEW x \in ItemTypes
  PROVE  /\ Put(t, k, x) \in TileRecords
         /\ Places(Put(t, k, x)) = Places(t)
         /\ \A j \in Places(t) :
               At(Put(t, k, x), j) = IF j = k THEN x ELSE At(t, j)
         /\ Len(Put(t, k, x).items) = Len(t.items)
         /\ Put(t, k, x).down = t.down
         /\ Put(t, k, x).flags = t.flags
         /\ Put(t, k, x).height = t.height
         /\ SameRest(Put(t, k, x), t)
<1> DEFINE r == Put(t, k, x)
<1>1. /\ Len(t.items) \in Nat /\ DOMAIN t.items = 1 .. Len(t.items)
      /\ \A j : j \in Places(t) <=> \/ j = 0 /\ t.ground # NoItem
                                    \/ j \in 1 .. Len(t.items)
  BY PlacesAre
<1>2. t.items \in Seq(ItemTypes) /\ x # NoItem
  BY NoItemAssumption DEF TileRecords
<1>3. CASE k = 0
  <2>1. r = [t EXCEPT !.ground = x]
    BY <1>3 DEF Put
  <2>2. /\ r \in TileRecords /\ r.items = t.items /\ r.down = t.down
        /\ r.flags = t.flags /\ r.height = t.height /\ r.ground = x
        /\ SameRest(r, t)
    BY <2>1 DEF TileRecords, SameRest
  <2> HIDE DEF r
  <2>3. Places(r) = Places(t)
    BY <1>1, <1>2, <1>3, <2>2 DEF Places
  <2>4. \A j \in Places(t) : At(r, j) = IF j = k THEN x ELSE At(t, j)
    BY <1>3, <2>2 DEF At
  <2> QED
    BY <2>2, <2>3, <2>4 DEF r
<1>4. CASE k # 0
  <2> DEFINE s == [t.items EXCEPT ![k] = x]
  <2>0. k \in 1 .. Len(t.items)
    BY <1>1, <1>4
  <2>1. r = [t EXCEPT !.items = s]
    BY <1>4 DEF Put
  <2>2. s \in Seq(ItemTypes) /\ Len(s) = Len(t.items)
        /\ DOMAIN s = DOMAIN t.items
        /\ \A j \in 1 .. Len(t.items) : s[j] = IF j = k THEN x ELSE t.items[j]
    BY <1>1, <1>2, <2>0
  <2> HIDE DEF s
  <2>3. /\ r \in TileRecords /\ r.items = s /\ r.down = t.down
        /\ r.flags = t.flags /\ r.height = t.height /\ r.ground = t.ground
        /\ SameRest(r, t)
    BY Zenon, <2>1, <2>2 DEF TileRecords, SameRest
  <2> HIDE DEF r
  <2>4. Places(r) = Places(t)
    BY <2>2, <2>3 DEF Places
  <2>5. \A j \in Places(t) : At(r, j) = IF j = k THEN x ELSE At(t, j)
    <3> SUFFICES ASSUME NEW j \in Places(t)
                 PROVE  At(r, j) = IF j = k THEN x ELSE At(t, j)
      OBVIOUS
    <3>1. CASE j = 0
      BY <1>4, <2>3, <3>1 DEF At
    <3>2. CASE j # 0
      <4>1. j \in 1 .. Len(t.items)
        BY <1>1, <3>2
      <4>2. s[j] = IF j = k THEN x ELSE t.items[j]
        BY <2>2, <4>1
      <4>3. At(r, j) = s[j] /\ At(t, j) = t.items[j]
        BY <3>2, <2>3 DEF At
      <4> QED
        BY <4>2, <4>3
    <3> QED
      BY <3>1, <3>2
  <2> QED
    BY <2>2, <2>3, <2>4, <2>5 DEF r
<1> QED
  BY <1>3, <1>4

\* An item in the place of one of its kind.
LEMMA ReplacedFits ==
  ASSUME NEW t, Steady(t), NEW k \in Places(t), NEW x \in ItemTypes,
         k # 0 => (OnTop(x) <=> OnTop(At(t, k))),
         NEW n, Replaced(n, t, k, x)
  PROVE  Sound(n) /\ Len(n.items) = Len(t.items)
<1> DEFINE r == Put(t, k, x)
           y == At(t, k)
<1>1. /\ t \in TileRecords /\ Split(t) /\ FlagsFit(t) /\ HeightFits(t)
      /\ MarksSet(t) /\ TwoRemembered(t)
  BY DEF Steady, Sound
<1>2. /\ r \in TileRecords /\ Places(r) = Places(t)
      /\ \A j \in Places(t) : At(r, j) = IF j = k THEN x ELSE At(t, j)
      /\ Len(r.items) = Len(t.items) /\ r.down = t.down
      /\ r.flags = t.flags /\ r.height = t.height
  BY <1>1, PutIs
<1>3. y \in ItemTypes /\ y = At(t, k)
  BY <1>1, PlacesAre
<1>4. /\ y.hasHeight \in {0, 1} /\ y.props \subseteq Immovable
      /\ y.marks \subseteq Marks
      /\ x.hasHeight \in {0, 1} /\ x.props \subseteq Immovable
      /\ x.marks \subseteq Marks /\ Marks \cap Immovable = {}
  BY <1>3, TypesAre
<1>5. /\ n \in TileRecords /\ n.ground = r.ground /\ n.items = r.items
      /\ n.down = t.down /\ n.everTwo = t.everTwo
      /\ \A p : p \in n.flags <=>
           \/ p \in x.props \/ p \in x.marks
           \/ /\ p \in t.flags /\ p \notin y.marks
              /\ p \in y.props =>
                   \E j \in Places(t) : j # k /\ p \in At(t, j).props
      /\ n.height = (IF t.height > 0 THEN t.height - y.hasHeight
                     ELSE t.height) + x.hasHeight
  BY DEF Replaced, SameRest
<1> HIDE DEF r, y
<1>6. /\ Places(n) = Places(t)
      /\ \A j \in Places(t) : At(n, j) = IF j = k THEN x ELSE At(t, j)
  BY <1>2, <1>5, SamePlaces
<1>7. Split(n)
  <2>1. /\ Len(t.items) \in Nat /\ DOMAIN t.items = 1 .. Len(t.items)
        /\ \A j : j \in Places(t) <=> \/ j = 0 /\ t.ground # NoItem
                                      \/ j \in 1 .. Len(t.items)
    BY <1>1, PlacesAre
  <2>2. /\ t.down \in 0 .. Len(t.items)
        /\ \A i \in 1 .. Len(t.items) : i <= t.down <=> ~OnTop(t.items[i])
    BY <1>1, <2>1 DEF Split
  <2>3. Len(n.items) = Len(t.items)
    BY <1>2, <1>5
  <2>3a. DOMAIN n.items = 1 .. Len(n.items)
    BY <1>5, PlacesAre
  <2>4. \A i \in 1 .. Len(t.items) : i <= t.down <=> ~OnTop(n.items[i])
    <3> SUFFICES ASSUME NEW i \in 1 .. Len(t.items)
                 PROVE  i <= t.down <=> ~OnTop(n.items[i])
      OBVIOUS
    <3>1. i \in Places(t) /\ i # 0
      BY <2>1
    <3>2. n.items[i] = At(n, i) /\ t.items[i] = At(t, i)
      BY <3>1 DEF At
    <3>3. n.items[i] = IF i = k THEN x ELSE t.items[i]
      BY <3>1, <3>2, <1>6
    <3>4. OnTop(n.items[i]) <=> OnTop(t.items[i])
      BY <3>1, <3>2, <3>3
    <3> QED
      BY <3>4, <2>2
  <2> QED
    BY <2>2, <2>3, <2>3a, <2>4, <1>5 DEF Split
<1>8. FlagsFit(n)
  <2> SUFFICES ASSUME NEW p \in Immovable
               PROVE  p \in n.flags <=>
                        \E i \in Places(n) : p \in At(n, i).props
    BY DEF FlagsFit
  <2>1. p \in t.flags <=> \E j \in Places(t) : p \in At(t, j).props
    BY <1>1 DEF FlagsFit
  <2>2. p \notin x.marks /\ p \notin y.marks
    BY <1>4
  <2>3. p \in n.flags <=>
           \/ p \in x.props
           \/ /\ p \in t.flags
              /\ p \in y.props =>
                   \E j \in Places(t) : j # k /\ p \in At(t, j).props
    BY <1>5, <2>2
  <2>4. ASSUME p \in n.flags
        PROVE  \E i \in Places(t) : p \in At(n, i).props
    BY <2>1, <2>3, <2>4, <1>3, <1>6
  <2>5. ASSUME NEW i \in Places(t), p \in At(n, i).props
        PROVE  p \in n.flags
    BY <2>1, <2>3, <2>5, <1>6
  <2> QED
    BY <2>4, <2>5, <1>6
<1>9. HeightFits(n)
  <2>1. High(n) \ {k} = High(t) \ {k}
    BY <1>6 DEF High
  <2>2. /\ IsFiniteSet(High(n)) /\ IsFiniteSet(High(t))
        /\ Cardinality(High(n)) \in Nat /\ Cardinality(High(t)) \in Nat
    BY <1>1, <1>5, HighFinite
  <2>3. /\ Cardinality(High(n) \ {k}) =
             IF k \in High(n) THEN Cardinality(High(n)) - 1
             ELSE Cardinality(High(n))
        /\ Cardinality(High(t) \ {k}) =
             IF k \in High(t) THEN Cardinality(High(t)) - 1
             ELSE Cardinality(High(t))
    BY Zenon, <2>2, FS_RemoveElement
  <2>4. /\ k \in High(n) <=> x.hasHeight = 1
        /\ k \in High(t) <=> y.hasHeight = 1
    BY <1>3, <1>6 DEF High
  <2>4a. Cardinality(High(t)) = 0 => k \notin High(t)
    BY <2>2, FS_EmptySet
  <2>5. t.height = Cardinality(High(t))
    BY <1>1 DEF HeightFits
  <2> DEFINE a == Cardinality(High(n))
             b == Cardinality(High(t))
             c == Cardinality(High(t) \ {k})
  <2>6. /\ c = IF x.hasHeight = 1 THEN a - 1 ELSE a
        /\ c = IF y.hasHeight = 1 THEN b - 1 ELSE b
        /\ a \in Nat /\ b \in Nat /\ (b = 0 => y.hasHeight # 1)
    BY <2>1, <2>2, <2>3, <2>4, <2>4a
  <2>7. n.height = (IF b > 0 THEN b - y.hasHeight ELSE b) + x.hasHeight
    BY <2>5, <1>5
  <2> HIDE DEF a, b, c
  <2>8. n.height = a
    BY <2>6, <2>7, <1>4
  <2> QED
    BY <2>8 DEF HeightFits, a
<1>10. MarksSet(n)
  <2> SUFFICES ASSUME NEW m \in Marks
               PROVE  /\ m \in n.flags =>
                          \E i \in Places(n) : m \in At(n, i).marks
                      /\ m \notin n.everTwo =>
                          \A i \in Places(n) :
                             m \in At(n, i).marks => m \in n.flags
    BY DEF MarksSet
  <2>1. /\ m \in t.flags => \E j \in Places(t) : m \in At(t, j).marks
        /\ m \notin t.everTwo =>
              \A j \in Places(t) : m \in At(t, j).marks => m \in t.flags
    BY <1>1 DEF MarksSet
  <2>2. m \notin x.props /\ m \notin y.props
    BY <1>4
  <2>3. m \in n.flags <=> \/ m \in x.marks
                          \/ m \in t.flags /\ m \notin y.marks
    BY <1>5, <2>2
  <2>4. ASSUME m \in n.flags
        PROVE  \E j \in Places(t) : m \in At(n, j).marks
    BY <2>1, <2>3, <2>4, <1>3, <1>6
  <2>5. ASSUME m \notin n.everTwo, NEW j \in Places(t), m \in At(n, j).marks
        PROVE  m \in n.flags
    <3>1. CASE j = k
      BY <3>1, <2>3, <2>5, <1>6
    <3>2. CASE j # k
      <4>1. m \in At(t, j).marks
        BY <3>2, <2>5, <1>6
      <4>2. m \in t.flags
        BY <4>1, <2>1, <2>5, <1>5
      <4>3. m \notin y.marks
        BY <4>1, <3>2, <2>5, <1>1, <1>3, <1>5 DEF TwoRemembered
      <4> QED
        BY <4>2, <4>3, <2>3
    <3> QED
      BY <3>1, <3>2
  <2> QED
    BY <2>4, <2>5, <1>6
<1> QED
  BY <1>2, <1>5, <1>7, <1>8, <1>9, <1>10 DEF Sound

\* The flags are those of the items that stay and of the new one, whether the
\* new one is asked or not.
LEMMA UpdateReplaces ==
  ASSUME NEW t \in TileRecords, NEW k \in Places(t), NEW x \in ItemTypes
  PROVE  Replaced(UpdateThing(t, k, x), t, k, x)
<1> DEFINE y == At(t, k)
           a == ResetTileFlags(t, y, Others(t, k))
           b == Put(a, k, x)
           n == SetTileFlags(b, x)
<1>1. n = UpdateThing(t, k, x)
  BY DEF UpdateThing
<1>2. y \in ItemTypes /\ y = At(t, k)
  BY PlacesAre
<1>3. ResetTo(a, t, y, Others(t, k))
  BY <1>2, ResetIs
<1>4. \A z : z \in Others(t, k) <=>
               \E j \in Places(t) : j # k /\ z = At(t, j)
  BY OnIs
<1> HIDE DEF a, y
<1>5. /\ a \in TileRecords
      /\ a.ground = t.ground /\ a.items = t.items /\ a.down = t.down
      /\ SameRest(a, t)
  BY <1>3 DEF ResetTo
<1>6. k \in Places(a)
  BY <1>5, SamePlaces
<1>7. /\ b \in TileRecords /\ b.down = a.down /\ b.flags = a.flags
      /\ b.height = a.height /\ SameRest(b, a)
  BY <1>5, <1>6, PutIs
<1>8. b.ground = Put(t, k, x).ground /\ b.items = Put(t, k, x).items
  <2>1. CASE k = 0
    BY <1>5, <2>1 DEF Put, TileRecords
  <2>2. CASE k # 0
    BY <1>5, <2>2 DEF Put, TileRecords
  <2> QED
    BY <2>1, <2>2
<1> HIDE DEF b
<1>9. /\ n \in TileRecords
      /\ n.ground = b.ground /\ n.items = b.items /\ n.down = b.down
      /\ SameRest(n, b)
      /\ n.flags = b.flags \cup x.props \cup x.marks
      /\ n.height = b.height + x.hasHeight
  BY <1>7, SetIs
<1> HIDE DEF n
<1>10. \A p : p \in n.flags <=>
         \/ p \in x.props \/ p \in x.marks
         \/ /\ p \in t.flags /\ p \notin y.marks
            /\ p \in y.props =>
                 \E j \in Places(t) : j # k /\ p \in At(t, j).props
  BY <1>3, <1>4, <1>7, <1>9 DEF ResetTo
<1>11. n.height = (IF t.height > 0 THEN t.height - y.hasHeight
                   ELSE t.height) + x.hasHeight
  BY <1>3, <1>7, <1>9 DEF ResetTo
<1>12. SameRest(n, t)
  BY <1>5, <1>7, <1>9 DEF SameRest
<1>13. Replaced(n, t, k, x)
  BY <1>2, <1>5, <1>7, <1>8, <1>9, <1>10, <1>11, <1>12 DEF Replaced
<1> QED
  BY <1>1, <1>13

\* The flags are the same if the new item is asked as well, as by
\* ReplaceThing and for a new ground.
LEMMA PutReplaces ==
  ASSUME NEW t \in TileRecords, NEW k \in Places(t), NEW x \in ItemTypes
  PROVE  Replaced(SetTileFlags(ResetTileFlags(Put(t, k, x), At(t, k),
                                              On(Put(t, k, x))), x),
                  t, k, x)
<1> DEFINE y == At(t, k)
           b == Put(t, k, x)
           a == ResetTileFlags(b, y, On(b))
           n == SetTileFlags(a, x)
<1>2. y \in ItemTypes /\ y = At(t, k)
  BY PlacesAre
<1>3. /\ b \in TileRecords /\ b.down = t.down /\ b.flags = t.flags
      /\ b.height = t.height /\ SameRest(b, t)
      /\ Places(b) = Places(t)
      /\ \A j \in Places(t) : At(b, j) = IF j = k THEN x ELSE At(t, j)
  BY PutIs
<1>4. b.ground = Put(t, k, x).ground /\ b.items = Put(t, k, x).items
  OBVIOUS
<1> HIDE DEF b
<1>5. \A z : z \in On(b) <=>
               \/ z = x
               \/ \E j \in Places(t) : j # k /\ z = At(t, j)
  <2>1. \A z : z \in On(b) <=> \E j \in Places(b) : z = At(b, j)
    BY <1>3, OnIs
  <2> QED
    BY <2>1, <1>3
<1>6. ResetTo(a, b, y, On(b))
  BY <1>2, <1>3, ResetIs
<1> HIDE DEF a, y
<1>7. /\ a \in TileRecords
      /\ a.ground = b.ground /\ a.items = b.items /\ a.down = b.down
      /\ SameRest(a, b)
  BY <1>6 DEF ResetTo
<1>9. /\ n \in TileRecords
      /\ n.ground = a.ground /\ n.items = a.items /\ n.down = a.down
      /\ SameRest(n, a)
      /\ n.flags = a.flags \cup x.props \cup x.marks
      /\ n.height = a.height + x.hasHeight
  BY <1>7, SetIs
<1>9a. n = SetTileFlags(a, x)
  OBVIOUS
<1> HIDE DEF n
<1>10. \A p : p \in n.flags <=>
         \/ p \in x.props \/ p \in x.marks
         \/ /\ p \in t.flags /\ p \notin y.marks
            /\ p \in y.props =>
                 \E j \in Places(t) : j # k /\ p \in At(t, j).props
  <2> SUFFICES ASSUME NEW p
               PROVE  p \in n.flags <=>
                 \/ p \in x.props \/ p \in x.marks
                 \/ /\ p \in t.flags /\ p \notin y.marks
                    /\ p \in y.props =>
                       \E j \in Places(t) : j # k /\ p \in At(t, j).props
    OBVIOUS
  <2>1. p \in a.flags <=>
          /\ p \in t.flags /\ p \notin y.marks
          /\ p \in y.props => \E z \in On(b) : p \in z.props
    BY <1>3, <1>6 DEF ResetTo
  <2>2. (\E z \in On(b) : p \in z.props) <=>
           \/ p \in x.props
           \/ \E j \in Places(t) : j # k /\ p \in At(t, j).props
    BY <1>5
  <2>3. p \in n.flags <=> p \in a.flags \/ p \in x.props \/ p \in x.marks
    BY <1>9
  <2> QED
    BY <2>1, <2>2, <2>3
<1>11. n.height = (IF t.height > 0 THEN t.height - y.hasHeight
                   ELSE t.height) + x.hasHeight
  BY <1>3, <1>6, <1>9 DEF ResetTo
<1>12. SameRest(n, t)
  BY <1>3, <1>7, <1>9 DEF SameRest
<1>13. Replaced(n, t, k, x)
  BY <1>2, <1>3, <1>4, <1>7, <1>9, <1>10, <1>11, <1>12 DEF Replaced
<1> QED
  BY <1>13, <1>9a DEF a, b, y

\* Some tile became of t, no fuller than the list takes.
Follows(n, t) == Sound(n) /\ SameRest(n, t) /\ Len(n.items) <= MaxItems

\* A ground, the first one or another.
LEMMA NewGroundFits ==
  ASSUME NEW t, Steady(t), NEW x \in ItemTypes, Len(t.items) <= MaxItems
  PROVE  Follows(NewGround(t, x), t)
<1>1. t \in TileRecords /\ Sound(t)
  BY DEF Steady, Sound
<1>2. CASE t.ground = NoItem
  BY <1>1, <1>2, FirstGroundFits DEF Follows
<1>3. CASE t.ground # NoItem
  <2> DEFINE n == NewGround(t, x)
  <2>1. 0 \in Places(t) /\ At(t, 0) = t.ground
    BY <1>1, <1>3, PlacesAre DEF At
  <2>2. n = SetTileFlags(ResetTileFlags(Put(t, 0, x), At(t, 0),
                                        On(Put(t, 0, x))), x)
    BY <1>3, <2>1 DEF NewGround, Put
  <2>3. Replaced(n, t, 0, x)
    BY <1>1, <2>1, <2>2, PutReplaces
  <2> HIDE DEF n
  <2>4. Sound(n) /\ Len(n.items) = Len(t.items)
    BY <2>1, <2>3, ReplacedFits
  <2>5. SameRest(n, t)
    BY <2>3 DEF Replaced
  <2> QED
    BY <2>4, <2>5 DEF Follows, n
<1> QED
  BY <1>2, <1>3

\* RemoveThing, of any item.
LEMMA RemoveFits ==
  ASSUME NEW t, Steady(t), NEW k \in Places(t), Len(t.items) <= MaxItems
  PROVE  /\ Steady(RemoveThing(t, k)) /\ Follows(RemoveThing(t, k), t)
         /\ Len(RemoveThing(t, k).items) <= Len(t.items)
         /\ k # 0 => Len(RemoveThing(t, k).items) = Len(t.items) - 1
<1>1. t \in TileRecords /\ Split(t)
  BY DEF Steady, Sound
<1>2. /\ Len(Without(t, k).items) <= Len(t.items)
      /\ k # 0 => Len(Without(t, k).items) = Len(t.items) - 1
  BY <1>1, WithoutIs
<1> DEFINE n == RemoveThing(t, k)
<1>3. Steady(n) /\ n.items = Without(t, k).items /\ SameRest(n, t)
  BY LossFits
<1> HIDE DEF n
<1>3a. /\ Len(n.items) <= Len(t.items)
       /\ k # 0 => Len(n.items) = Len(t.items) - 1
  BY <1>2, <1>3
<1>4. Len(n.items) \in Nat /\ Len(t.items) \in Nat /\ MaxItems \in Nat
  <2>1. n \in TileRecords
    BY <1>3 DEF Steady, Sound
  <2> QED
    BY <1>1, <2>1, PlacesAre, TilesAssumption
<1>5. Follows(n, t)
  BY <1>3, <1>3a, <1>4 DEF Follows, Steady
<1> QED
  BY <1>3, <1>3a, <1>5 DEF n

\* An old splash makes way.
LEMMA WithoutSplashFits ==
  ASSUME NEW t, Steady(t), Len(t.items) <= MaxItems
  PROVE  /\ Steady(WithoutSplash(t)) /\ SameRest(WithoutSplash(t), t)
         /\ Len(WithoutSplash(t).items) <= Len(t.items)
<1> DEFINE splashes == {k \in TopPlaces(t) : t.items[k].type = "splash"}
<1>1. t \in TileRecords /\ Split(t)
  BY DEF Steady, Sound
<1>2. /\ Len(t.items) \in Nat /\ t.down \in 0 .. Len(t.items)
      /\ 1 .. Len(t.items) \subseteq Places(t)
  BY <1>1, PlacesAre DEF Split
<1>3. CASE splashes = {}
  <2>1. WithoutSplash(t) = t
    BY <1>3 DEF WithoutSplash
  <2> QED
    BY <1>2, <2>1 DEF SameRest
<1>4. CASE splashes # {}
  <2>1. WithoutSplash(t) = RemoveThing(t, Min(splashes))
    BY <1>4 DEF WithoutSplash
  <2>2. splashes \subseteq 1 .. Len(t.items)
    BY <1>2 DEF TopPlaces
  <2>3. splashes \subseteq Nat
    BY <2>2
  <2>4. Min(splashes) \in splashes
    <3> HIDE DEF splashes
    <3> QED
      BY Zenon, <1>4, <2>3, LeastOf
  <2> HIDE DEF splashes
  <2>5. Min(splashes) \in Places(t)
    BY Zenon, <1>2, <2>2, <2>4
  <2> QED
    BY <2>1, <2>5, RemoveFits DEF Follows
<1> QED
  BY <1>3, <1>4

\* AddThing, with all that makes way.
LEMMA AddFits ==
  ASSUME NEW t, Steady(t), NEW x \in ItemTypes, Len(t.items) <= MaxItems
  PROVE  Follows(AddThing(t, x), t)
<1>1. t \in TileRecords /\ Sound(t) /\ Split(t)
  BY DEF Steady, Sound
<1>2. /\ Len(t.items) \in Nat /\ t.down \in 0 .. Len(t.items)
      /\ 1 .. Len(t.items) \subseteq Places(t) /\ MaxItems \in Nat
  BY <1>1, PlacesAre, TilesAssumption DEF Split
<1>3. SameRest(t, t) /\ Follows(t, t)
  BY <1>1 DEF Follows, SameRest
<1> DEFINE dried == IF x.type = "splash" THEN WithoutSplash(t) ELSE t
           fields == {k \in 1..t.down : IsField(t.items[k])}
           later == {k \in TopPlaces(dried) : x.order <= dried.items[k].order}
<1>4. CASE Len(t.items) >= MaxItems
  <2>1. AddThing(t, x) = t
    BY <1>4 DEF AddThing
  <2> QED
    BY <1>3, <2>1
<1>5. CASE Len(t.items) < MaxItems /\ x.slot = "ground"
  <2>1. AddThing(t, x) = NewGround(t, x)
    BY <1>2, <1>5 DEF AddThing
  <2> QED
    BY <2>1, NewGroundFits
<1>6. CASE Len(t.items) < MaxItems /\ x.slot # "ground" /\ OnTop(x)
  <2>1. AddThing(t, x) = InsertTop(dried, x, later)
    <3>1. ~(Len(t.items) >= MaxItems) /\ x.slot # "ground" /\ OnTop(x)
      BY <1>2, <1>6
    <3> QED
      BY <3>1 DEF AddThing
  <2>2. Steady(dried) /\ SameRest(dried, t)
        /\ Len(dried.items) <= Len(t.items)
    BY <1>2, <1>3, WithoutSplashFits
  <2>3. later \in SUBSET TopPlaces(dried)
    OBVIOUS
  <2> DEFINE n == InsertTop(dried, x, later)
  <2> HIDE DEF later, dried
  <2>4. Sound(n) /\ SameRest(n, dried) /\ Len(n.items) = Len(dried.items) + 1
    BY <1>6, <2>2, <2>3, InsertTopFits DEF Steady
  <2> HIDE DEF n
  <2>5. Len(dried.items) \in Nat
    <3>1. dried \in TileRecords
      BY <2>2 DEF Steady, Sound
    <3> QED
      BY <3>1, PlacesAre
  <2>6. Follows(n, t)
    BY <1>2, <1>6, <2>2, <2>4, <2>5 DEF Follows, SameRest
  <2> QED
    BY <2>1, <2>6 DEF n
<1>7. CASE /\ Len(t.items) < MaxItems /\ x.slot # "ground" /\ ~OnTop(x)
           /\ (~IsField(x) \/ fields = {})
  <2>1. AddThing(t, x) = InsertDown(t, x)
    <3>1. ~(Len(t.items) >= MaxItems) /\ x.slot # "ground" /\ ~OnTop(x)
      BY <1>2, <1>7
    <3> QED
      BY <1>7, <3>1 DEF AddThing
  <2> DEFINE n == InsertDown(t, x)
  <2>2. Sound(n) /\ SameRest(n, t) /\ Len(n.items) = Len(t.items) + 1
    BY <1>1, <1>7, InsertDownFits
  <2> HIDE DEF n
  <2>3. Follows(n, t)
    BY <1>2, <1>7, <2>2 DEF Follows
  <2> QED
    BY <2>1, <2>3 DEF n
<1>8. CASE /\ Len(t.items) < MaxItems /\ x.slot # "ground" /\ ~OnTop(x)
           /\ ~(~IsField(x) \/ fields = {})
  <2> DEFINE k == Min(fields)
             w == RemoveThing(t, k)
             n == InsertDown(w, x)
  <2>1. AddThing(t, x) = IF t.items[k].type = "field" THEN n ELSE t
    <3>1. ~(Len(t.items) >= MaxItems) /\ x.slot # "ground" /\ ~OnTop(x)
      BY <1>2, <1>8
    <3> QED
      BY <1>8, <3>1 DEF AddThing
  <2>2. fields # {} /\ fields \subseteq 1 .. Len(t.items)
    BY <1>2, <1>8
  <2>3. k \in fields
    <3> HIDE DEF fields
    <3>1. fields \subseteq Nat
      BY <2>2
    <3> QED
      BY Zenon, <2>2, <3>1, LeastOf
  <2> HIDE DEF fields, k
  <2>4. k \in Places(t) /\ k # 0
    BY <1>2, <2>2, <2>3
  <2>5. Steady(w) /\ Follows(w, t) /\ Len(w.items) = Len(t.items) - 1
    BY <2>4, RemoveFits
  <2> HIDE DEF w
  <2>6. Sound(n) /\ SameRest(n, w) /\ Len(n.items) = Len(w.items) + 1
    BY <1>8, <2>5, InsertDownFits DEF Steady
  <2> HIDE DEF n
  <2>7. Follows(n, t)
    BY <1>2, <1>8, <2>5, <2>6 DEF Follows, SameRest
  <2> QED
    BY <1>3, <2>1, <2>7
<1> QED
  BY <1>2, <1>4, <1>5, <1>6, <1>7, <1>8

\* InternalAddThing.
LEMMA LoadFits ==
  ASSUME NEW t, Steady(t), NEW x \in ItemTypes, Len(t.items) <= MaxItems
  PROVE  Follows(InternalAddThing(t, x), t)
<1>1. t \in TileRecords /\ Sound(t) /\ Split(t)
  BY DEF Steady, Sound
<1>2. Len(t.items) \in Nat /\ MaxItems \in Nat
  BY <1>1, PlacesAre, TilesAssumption
<1>3. Follows(t, t)
  BY <1>1 DEF Follows, SameRest
<1>4. CASE x.slot = "ground"
  <2>1. InternalAddThing(t, x) =
            IF t.ground = NoItem THEN NewGround(t, x) ELSE t
    BY <1>4 DEF InternalAddThing
  <2> QED
    BY <1>3, <2>1, NewGroundFits
<1>5. CASE x.slot # "ground" /\ Len(t.items) >= MaxItems
  <2>1. InternalAddThing(t, x) = t
    BY <1>5 DEF InternalAddThing
  <2> QED
    BY <1>3, <2>1
<1>6. CASE x.slot # "ground" /\ Len(t.items) < MaxItems /\ OnTop(x)
  <2> DEFINE later == {k \in TopPlaces(t) : t.items[k].order > x.order}
             n == InsertTop(t, x, later)
  <2>0. ~(Len(t.items) >= MaxItems)
    BY <1>2, <1>6
  <2>1. InternalAddThing(t, x) = n
    BY <1>6, <2>0 DEF InternalAddThing
  <2>2. later \in SUBSET TopPlaces(t)
    OBVIOUS
  <2> HIDE DEF later
  <2>3. Sound(n) /\ SameRest(n, t) /\ Len(n.items) = Len(t.items) + 1
    BY <1>1, <1>6, <2>2, InsertTopFits
  <2> HIDE DEF n
  <2> QED
    BY <1>2, <1>6, <2>1, <2>3 DEF Follows
<1>7. CASE x.slot # "ground" /\ Len(t.items) < MaxItems /\ ~OnTop(x)
  <2> DEFINE n == InsertDown(t, x)
  <2>0. ~(Len(t.items) >= MaxItems)
    BY <1>2, <1>7
  <2>1. InternalAddThing(t, x) = n
    BY <1>7, <2>0 DEF InternalAddThing
  <2>2. Sound(n) /\ SameRest(n, t) /\ Len(n.items) = Len(t.items) + 1
    BY <1>1, <1>7, InsertDownFits
  <2> HIDE DEF n
  <2> QED
    BY <1>2, <1>7, <2>1, <2>2 DEF Follows
<1> QED
  BY <1>2, <1>4, <1>5, <1>6, <1>7

-----------------------------------------------------------------------------
\* The index of an item leads back to it.
LEMMA ItemIndexLeadsBack ==
  ASSUME NEW t \in TileRecords, Split(t), NEW k \in Places(t)
  PROVE  GetThing(t, GetThingIndex(t, <<"item", k>>)) = <<"item", k>>
<1>1. /\ Len(t.items) \in Nat /\ DOMAIN t.items = 1 .. Len(t.items)
      /\ \A j : j \in Places(t) <=> \/ j = 0 /\ t.ground # NoItem
                                    \/ j \in 1 .. Len(t.items)
  BY PlacesAre
<1>2. /\ t.down \in 0 .. Len(t.items) /\ t.creatures \in Nat
      /\ \A i \in 1 .. Len(t.items) : i <= t.down <=> ~OnTop(t.items[i])
  BY <1>1 DEF Split, TileRecords
<1> DEFINE g == First(t)
           top == Top(t)
<1>3. g \in {0, 1} /\ top = Len(t.items) - t.down /\ top \in Nat
      /\ (t.ground # NoItem => g = 1)
  BY <1>1, <1>2 DEF First, Top
<1> DEFINE index == GetThingIndex(t, <<"item", k>>)
<1> HIDE DEF g, top
<1>4. CASE k = 0
  <2>1. index = 0
    BY <1>4 DEF GetThingIndex
  <2>2. g = 1
    BY <1>1, <1>3, <1>4
  <2>3. index - g < 0
    BY <2>1, <2>2
  <2> HIDE DEF index
  <2>4. GetThing(t, index) = <<"item", 0>>
    BY <2>3 DEF GetThing, g
  <2> QED
    BY <1>4, <2>4 DEF index
<1>5. CASE k \in 1 .. Len(t.items) /\ OnTop(t.items[k])
  <2>1. index = g + k - t.down - 1
    <3>1. k # 0 /\ At(t, k) = t.items[k]
      BY <1>1, <1>5 DEF At
    <3> QED
      BY <1>5, <3>1 DEF GetThingIndex, g
  <2>2. k > t.down
    BY <1>2, <1>5
  <2> HIDE DEF index
  <2>3. /\ ~(index - g < 0) /\ index - g < top
        /\ t.down + (index - g) + 1 = k
    <3> DEFINE d == t.down
               l == Len(t.items)
    <3>1. /\ l \in Nat /\ d \in 0 .. l /\ k \in 1 .. l /\ k > d
          /\ g \in Int /\ top = l - d /\ index = g + k - d - 1
      BY <1>1, <1>2, <1>3, <1>5, <2>1, <2>2
    <3> HIDE DEF d, l
    <3>2. /\ ~(index - g < 0) /\ index - g < top
          /\ d + (index - g) + 1 = k
      BY <3>1
    <3> QED
      BY <3>2 DEF d
  <2>4. GetThing(t, index) = <<"item", t.down + (index - g) + 1>>
    BY <2>3 DEF GetThing, g, top
  <2> QED
    BY <2>3, <2>4 DEF index
<1>6. CASE k \in 1 .. Len(t.items) /\ ~OnTop(t.items[k])
  <2>1. index = g + top + t.creatures + k - 1
    <3>1. k # 0 /\ At(t, k) = t.items[k]
      BY <1>1, <1>6 DEF At
    <3> QED
      BY <1>6, <3>1 DEF GetThingIndex, g, top
  <2> HIDE DEF index
  <2>3. /\ ~(index - g < 0) /\ ~(index - g < top)
        /\ ~(index - g - top < t.creatures)
        /\ (index - g - top) - t.creatures + 1 = k
    <3> DEFINE c == t.creatures
    <3>1. /\ c \in Nat /\ k \in Nat /\ k >= 1 /\ top \in Nat /\ g \in Int
          /\ index = g + top + c + k - 1
      BY <1>1, <1>2, <1>3, <1>6, <2>1
    <3> HIDE DEF c
    <3>2. /\ ~(index - g < 0) /\ ~(index - g < top)
          /\ ~(index - g - top < c) /\ (index - g - top) - c + 1 = k
      BY <3>1
    <3> QED
      BY <3>2 DEF c
  <2>4. GetThing(t, index) = <<"item", (index - g - top) - t.creatures + 1>>
    BY <2>3 DEF GetThing, g, top
  <2> QED
    BY <2>3, <2>4 DEF index
<1> QED
  BY <1>1, <1>4, <1>5, <1>6

\* The index of a creature leads back to it.
LEMMA CreatureIndexLeadsBack ==
  ASSUME NEW t \in TileRecords, Split(t), NEW c \in 1 .. t.creatures
  PROVE  GetThing(t, GetThingIndex(t, <<"creature", c>>)) = <<"creature", c>>
<1>1. Len(t.items) \in Nat /\ t.down \in 0 .. Len(t.items)
      /\ t.creatures \in Nat
  BY PlacesAre DEF Split, TileRecords
<1> DEFINE g == First(t)
           top == Top(t)
           index == GetThingIndex(t, <<"creature", c>>)
<1>2. g \in {0, 1} /\ top = Len(t.items) - t.down /\ top \in Nat
  BY <1>1 DEF First, Top
<1> HIDE DEF g, top
<1>3. index = g + top + c - 1
  <2>1. <<"creature", c>> # <<"item", 0>>
    OBVIOUS
  <2> QED
    BY <2>1 DEF GetThingIndex, g, top
<1> HIDE DEF index
<1>4. /\ ~(index - g < 0) /\ ~(index - g < top)
      /\ index - g - top < t.creatures
      /\ (index - g - top) + 1 = c
  <2> DEFINE s == t.creatures
  <2>1. /\ s \in Nat /\ c \in 1 .. s /\ top \in Nat /\ g \in Int
        /\ index = g + top + c - 1
    BY <1>1, <1>2, <1>3
  <2> HIDE DEF s
  <2>2. /\ ~(index - g < 0) /\ ~(index - g < top)
        /\ index - g - top < s /\ (index - g - top) + 1 = c
    BY <2>1
  <2> QED
    BY <2>2 DEF s
<1>5. GetThing(t, index) = <<"creature", (index - g - top) + 1>>
  BY <1>4 DEF GetThing, g, top
<1> QED
  BY <1>4, <1>5 DEF index

\* Game::transformItem, by any of its three ways.
LEMMA TransformFits ==
  ASSUME NEW t, Steady(t), NEW k \in Places(t), NEW x \in ItemTypes,
         Len(t.items) <= MaxItems
  PROVE  Follows(TransformItem(t, k, x), t)
<1> DEFINE old == At(t, k)
<1>1. t \in TileRecords /\ Sound(t) /\ Split(t)
  BY DEF Steady, Sound
<1>2. CASE old = x
  <2>1. TransformItem(t, k, x) = t
    BY <1>2 DEF TransformItem
  <2> QED
    BY <1>1, <2>1 DEF Follows, SameRest
<1>3. CASE old # x /\ OnTop(old) # OnTop(x)
  <2> DEFINE w == RemoveThing(t, k)
  <2>1. TransformItem(t, k, x) = AddThing(w, x)
    BY <1>3 DEF TransformItem
  <2>2. Steady(w) /\ Follows(w, t)
    BY RemoveFits
  <2> HIDE DEF w
  <2>3. Follows(AddThing(w, x), w)
    BY <2>2, AddFits DEF Follows
  <2>4. Follows(AddThing(w, x), t)
    BY <2>2, <2>3 DEF Follows, SameRest
  <2> QED
    BY <2>1, <2>4
<1>4. ASSUME NEW n, Replaced(n, t, k, x), OnTop(old) = OnTop(x)
      PROVE  Follows(n, t)
  <2>1. Sound(n) /\ Len(n.items) = Len(t.items)
    BY <1>4, ReplacedFits
  <2> QED
    BY <1>4, <2>1 DEF Follows, Replaced
<1>5. CASE old # x /\ OnTop(old) = OnTop(x) /\ old.type = x.type
  <2>1. TransformItem(t, k, x) = UpdateThing(t, k, x)
    BY <1>5 DEF TransformItem
  <2> QED
    BY <1>1, <1>4, <1>5, <2>1, UpdateReplaces
<1>6. CASE old # x /\ OnTop(old) = OnTop(x) /\ old.type # x.type
  <2> DEFINE index == GetThingIndex(t, <<"item", k>>)
  <2>1. TransformItem(t, k, x) = ReplaceThing(t, index, x)
    BY <1>6 DEF TransformItem
  <2>2. GetThing(t, index) = <<"item", k>>
    BY <1>1, ItemIndexLeadsBack
  <2> HIDE DEF index
  <2>3. GetThing(t, index)[2] = k /\ GetThing(t, index)[1] # "creature"
    BY <2>2
  <2>4. ReplaceThing(t, index, x) =
          SetTileFlags(ResetTileFlags(Put(t, k, x), At(t, k),
                                      On(Put(t, k, x))), x)
    BY <2>3 DEF ReplaceThing
  <2> QED
    BY <1>1, <1>4, <1>6, <2>1, <2>4, PutReplaces
<1> QED
  BY <1>2, <1>3, <1>5, <1>6

-----------------------------------------------------------------------------
TilesInv ==
    /\ Steady(tile) /\ Len(tile.items) <= MaxItems
    /\ tile.creatures <= MaxStanding

\* What a step makes of the tile is remembered if it is two of a mark.
LEMMA BecomesFits ==
  ASSUME NEW t, Sound(t), Len(t.items) <= MaxItems,
         t.creatures <= MaxStanding, TileBecomes(t)
  PROVE  TilesInv'
<1> DEFINE two == t.everTwo \cup {m \in Marks : Cardinality(Bears(t, m)) > 1}
           n == [t EXCEPT !.everTwo = two]
<1>1. tile' = n
  BY DEF TileBecomes
<1>2. t \in TileRecords /\ Split(t) /\ FlagsFit(t) /\ HeightFits(t)
      /\ MarksSet(t)
  BY DEF Sound
<1>3. two \in SUBSET Marks
  BY <1>2 DEF TileRecords
<1>4. /\ t.everTwo \subseteq two
      /\ \A m \in Marks : m \notin two => ~(Cardinality(Bears(t, m)) > 1)
  OBVIOUS
<1> HIDE DEF two
<1>5. /\ n \in TileRecords /\ n.ground = t.ground /\ n.items = t.items
      /\ n.down = t.down /\ n.flags = t.flags /\ n.height = t.height
      /\ n.creatures = t.creatures /\ n.everTwo = two
  BY <1>2, <1>3 DEF TileRecords
<1> HIDE DEF n
<1>6. /\ Places(n) = Places(t) /\ High(n) = High(t)
      /\ \A k : At(n, k) = At(t, k)
      /\ Split(n)
  BY <1>2, <1>5, SamePlaces
<1>7. FlagsFit(n)
  BY <1>2, <1>5, <1>6 DEF FlagsFit
<1>8. HeightFits(n)
  BY <1>2, <1>5, <1>6 DEF HeightFits
<1>9. MarksSet(n)
  BY <1>2, <1>4, <1>5, <1>6 DEF MarksSet
<1>10. TwoRemembered(n)
  <2> SUFFICES ASSUME NEW m \in Marks, m \notin n.everTwo,
                      NEW i \in Places(n), NEW j \in Places(n),
                      m \in At(n, i).marks, m \in At(n, j).marks, i # j
               PROVE  FALSE
    BY DEF TwoRemembered
  <2>1. {i, j} \in SUBSET Bears(t, m)
    BY <1>6 DEF Bears
  <2>2. IsFiniteSet(Places(t)) /\ Bears(t, m) \in SUBSET Places(t)
    BY <1>2, PlacesAre DEF Bears
  <2>3. IsFiniteSet(Bears(t, m)) /\ Cardinality(Bears(t, m)) \in Nat
    BY <2>2, FS_Subset, FS_CardinalityType
  <2>4. Cardinality({i, j}) <= Cardinality(Bears(t, m))
    BY <2>1, <2>3, FS_Subset
  <2>5. Cardinality({i, j}) = 2
    <3>1. IsFiniteSet({i}) /\ Cardinality({i}) = 1
      BY Zenon, FS_Singleton
    <3>2. {i} \cup {j} = {i, j} /\ j \notin {i}
      OBVIOUS
    <3>3. Cardinality({i} \cup {j}) = Cardinality({i}) + 1
      BY Zenon, <3>1, <3>2, FS_AddElement
    <3>4. Cardinality({i} \cup {j}) = 2
      BY <3>1, <3>3
    <3> QED
      BY <3>2, <3>4, Zenon
  <2> QED
    BY <1>4, <1>5, <2>3, <2>4, <2>5
<1>11. Steady(n) /\ Len(n.items) <= MaxItems /\ n.creatures <= MaxStanding
  BY <1>5, <1>6, <1>7, <1>8, <1>9, <1>10 DEF Steady, Sound
<1> HIDE DEF TilesInv
<1>12. (Steady(tile) /\ Len(tile.items) <= MaxItems
        /\ tile.creatures <= MaxStanding)'
  BY <1>1, <1>11 DEF Steady, Sound, TwoRemembered, MarksSet, FlagsFit,
     HeightFits, Split, Places, At, High
<1> QED
  BY <1>12 DEF TilesInv

\* The rest of the tile is not looked at by its flags.
LEMMA OthersSound ==
  ASSUME NEW t, Sound(t), NEW n \in TileRecords,
         n.ground = t.ground, n.items = t.items, n.down = t.down,
         n.flags = t.flags, n.height = t.height, n.everTwo = t.everTwo
  PROVE  Sound(n)
<1>1. t \in TileRecords /\ Split(t) /\ FlagsFit(t) /\ HeightFits(t)
      /\ MarksSet(t)
  BY DEF Sound
<1>2. /\ Places(n) = Places(t) /\ High(n) = High(t)
      /\ \A k : At(n, k) = At(t, k)
      /\ Split(n)
  BY <1>1, SamePlaces
<1>3. FlagsFit(n)
  BY <1>1, <1>2 DEF FlagsFit
<1>4. HeightFits(n)
  BY <1>1, <1>2 DEF HeightFits
<1>5. MarksSet(n)
  BY <1>1, <1>2 DEF MarksSet
<1> QED
  BY <1>2, <1>3, <1>4, <1>5 DEF Sound

\* At the start the tile is empty.
LEMMA TilesInitial == TilesInit => TilesInv
<1> SUFFICES ASSUME TilesInit PROVE TilesInv
  OBVIOUS
<1>1. /\ tile.ground = NoItem /\ tile.items = <<>> /\ tile.down = 0
      /\ tile.creatures = 0 /\ tile.flags = {} /\ tile.height = 0
      /\ tile.everTwo = {} /\ tile \in TileRecords
  BY DEF TilesInit, TileRecords
<1>2. Len(tile.items) = 0 /\ DOMAIN tile.items = {}
  BY <1>1
<1>3. Places(tile) = {}
  BY <1>1, <1>2 DEF Places
<1>4. High(tile) = {}
  BY <1>3 DEF High
<1>5. HeightFits(tile)
  BY <1>1, <1>4, FS_EmptySet DEF HeightFits
<1>6. Split(tile)
  BY <1>1, <1>2 DEF Split
<1>7. FlagsFit(tile) /\ MarksSet(tile) /\ TwoRemembered(tile)
  BY <1>1, <1>3 DEF FlagsFit, MarksSet, TwoRemembered
<1> QED
  BY <1>1, <1>2, <1>5, <1>6, <1>7, TilesAssumption
     DEF TilesInv, Steady, Sound

\* Every step of the tile keeps the invariant.
LEMMA TilesKeeps == TilesInv /\ [TilesNext]_TilesVars => TilesInv'
<1> SUFFICES ASSUME TilesInv, [TilesNext]_TilesVars PROVE TilesInv'
  OBVIOUS
<1>1. /\ Steady(tile) /\ Sound(tile) /\ tile \in TileRecords
      /\ Len(tile.items) <= MaxItems
      /\ tile.creatures <= MaxStanding
      /\ tile.creatures \in Nat /\ MaxStanding \in Nat
  BY TilesAssumption DEF TilesInv, Steady, Sound, TileRecords
<1>2. ASSUME NEW n, Follows(n, tile), TileBecomes(n) PROVE TilesInv'
  BY <1>1, <1>2, BecomesFits DEF Follows, SameRest
<1>3. ASSUME NEW x \in ItemTypes, LoadItem(x) PROVE TilesInv'
  BY <1>1, <1>2, <1>3, LoadFits DEF LoadItem
<1>4. ASSUME NEW x \in ItemTypes, AddItem(x) PROVE TilesInv'
  BY <1>1, <1>2, <1>4, AddFits DEF AddItem
<1>5. ASSUME NEW k \in Places(tile), RemoveItem(k) PROVE TilesInv'
  BY <1>1, <1>2, <1>5, RemoveFits DEF RemoveItem
<1>6. ASSUME NEW k \in Places(tile), NEW x \in ItemTypes, ChangeItem(k, x)
      PROVE  TilesInv'
  BY <1>1, <1>2, <1>6, TransformFits DEF ChangeItem
<1>7. CASE MapLoaded
  <2> DEFINE n == [tile EXCEPT !.loading = FALSE]
  <2>1. /\ n \in TileRecords /\ n.ground = tile.ground
        /\ n.items = tile.items /\ n.down = tile.down
        /\ n.flags = tile.flags /\ n.height = tile.height
        /\ n.everTwo = tile.everTwo /\ n.creatures = tile.creatures
    BY Zenon, <1>1 DEF TileRecords
  <2>2. TileBecomes(n)
    BY <1>7 DEF MapLoaded
  <2> HIDE DEF n
  <2>3. Sound(n)
    BY <1>1, <2>1, OthersSound
  <2> QED
    BY <1>1, <2>1, <2>2, <2>3, BecomesFits
<1>8. ASSUME NEW c \in Nat, c <= MaxStanding,
             TileBecomes([tile EXCEPT !.creatures = c])
      PROVE  TilesInv'
  <2> DEFINE n == [tile EXCEPT !.creatures = c]
  <2>1. /\ n \in TileRecords /\ n.ground = tile.ground
        /\ n.items = tile.items /\ n.down = tile.down
        /\ n.flags = tile.flags /\ n.height = tile.height
        /\ n.everTwo = tile.everTwo /\ n.creatures = c
    BY <1>1 DEF TileRecords
  <2>2. TileBecomes(n)
    BY <1>8
  <2> HIDE DEF n
  <2>3. Sound(n)
    BY <1>1, <2>1, OthersSound
  <2> QED
    BY <1>1, <1>8, <2>1, <2>2, <2>3, BecomesFits
<1>9. CASE Enter
  <2>1. tile.creatures + 1 \in Nat /\ tile.creatures + 1 <= MaxStanding
    BY <1>1, <1>9 DEF Enter
  <2>2. TileBecomes([tile EXCEPT !.creatures = tile.creatures + 1])
    BY <1>9 DEF Enter
  <2> QED
    BY <1>8, <2>1, <2>2
<1>10. CASE Leave
  <2>1. tile.creatures - 1 \in Nat /\ tile.creatures - 1 <= MaxStanding
    BY <1>1, <1>10 DEF Leave
  <2>2. TileBecomes([tile EXCEPT !.creatures = tile.creatures - 1])
    BY <1>10 DEF Leave
  <2> QED
    BY <1>8, <2>1, <2>2
<1>11. CASE UNCHANGED TilesVars
  BY <1>11 DEF TilesVars, TilesInv, Steady, Sound, TwoRemembered,
     MarksSet, FlagsFit, HeightFits, Split, Places, At, High
<1> QED
  BY <1>3, <1>4, <1>5, <1>6, <1>7, <1>9, <1>10, <1>11 DEF TilesNext

\* The invariant gives what is promised of tiles.
LEMMA TilesInvIsSound == TilesInv => TilesSound
<1> SUFFICES ASSUME TilesInv PROVE TilesSound
  OBVIOUS
<1>1. /\ Split(tile) /\ FlagsFit(tile) /\ HeightFits(tile)
      /\ MarksSet(tile) /\ TwoRemembered(tile) /\ tile \in TileRecords
      /\ Len(tile.items) <= MaxItems /\ tile.creatures <= MaxStanding
      /\ MaxItems \in Nat /\ MaxStanding \in Nat
  BY TilesAssumption DEF TilesInv, Steady, Sound
<1>2. TilesTypeOK
  <2>1. tile.height \in 0 .. MaxItems + 1
    <3>1. /\ tile.height = Cardinality(High(tile))
          /\ Cardinality(High(tile)) \in Nat
          /\ Cardinality(High(tile)) <= Len(tile.items) + 1
          /\ Len(tile.items) \in Nat
      BY <1>1, HighFinite, PlacesAre DEF HeightFits
    <3> QED
      BY <1>1, <3>1
  <2>2. tile.down \in 0 .. Len(tile.items)
    BY <1>1 DEF Split
  <2>3. tile.creatures \in 0 .. MaxStanding
    BY <1>1 DEF TileRecords
  <2> QED
    BY <1>1, <2>1, <2>2, <2>3 DEF TilesTypeOK, TileRecords
<1>3. FlagsExact
  <2>1. \A y : y \in On(tile) <=> \E j \in Places(tile) : y = At(tile, j)
    BY <1>1, OnIs
  <2> QED
    BY <1>1, <2>1 DEF FlagsExact, FlagsFit
<1>4. HeightExact
  BY <1>1 DEF HeightExact, HeightFits, High
<1>5. MarksExact
  BY <1>1 DEF MarksExact, MarksSet, Bears
<1>6. SplitAtDown
  BY <1>1 DEF SplitAtDown, Split
<1>7. IndexLeadsBack
  <2> SUFFICES ASSUME NEW thing \in Things(tile)
               PROVE  GetThing(tile, GetThingIndex(tile, thing)) = thing
    BY DEF IndexLeadsBack
  <2>1. CASE thing \in {"item"} \X Places(tile)
    <3>1. PICK k \in Places(tile) : thing = <<"item", k>>
      BY <2>1
    <3> QED
      BY <1>1, <3>1, ItemIndexLeadsBack
  <2>2. CASE thing \in {"creature"} \X (1 .. tile.creatures)
    <3>1. PICK c \in 1 .. tile.creatures : thing = <<"creature", c>>
      BY <2>2
    <3> QED
      BY <1>1, <3>1, CreatureIndexLeadsBack
  <2> QED
    BY <2>1, <2>2 DEF Things
<1> QED
  BY <1>2, <1>3, <1>4, <1>5, <1>6, <1>7 DEF TilesSound

-----------------------------------------------------------------------------
\* The conditions of a player.

\* A condition that is there, and what a list of them is.
Durable == [left : 0..Endless, value : -2..2]

Slots == [Keys -> Durable \cup {NoCondition}]

Changes == [varSpeed : Int, varSkill : Int, useDefense : BOOLEAN,
            visible : BOOLEAN, drunkenness : 0..2, outfit : 0..2]

\* Strengths and looks are positive.
ValueFits(type, n) == type \in {"DRUNK", "OUTFIT"} => n \in 1..2

\* The events that are put off, for conditions of ks only.
AddEvents(ks) == {"add"} \X (OfType("HASTE") \cap ks) \X Durable

Events(ks) == {<<"remove", "PARALYZE">>} \cup AddEvents(ks)

\* A player: its conditions, what they changed and the events to come.
Players(ks) == [conditions : Slots, affected : Changes,
                deferred : Seq(Events(ks)), renewed : BOOLEAN]

\* The conditions that add up.
H1 == <<"HASTE", 1>>
H2 == <<"HASTE", 2>>
P1 == <<"PARALYZE", 1>>
P2 == <<"PARALYZE", 2>>
A1 == <<"ATTRIBUTES", 1>>
A2 == <<"ATTRIBUTES", 2>>

\* What one adds.
Amount(cs, k) == IF cs[k] = NoCondition THEN 0 ELSE cs[k].value

Speed(cs) == Amount(cs, H1) + Amount(cs, H2) + Amount(cs, P1) + Amount(cs, P2)

Skill(cs) == Amount(cs, A1) + Amount(cs, A2)

\* What was changed is the sum.
AmountsFit(cs, a) == a.varSpeed = Speed(cs) /\ a.varSkill = Skill(cs)

\* No condition of this type is left.
Absent(cs, type) == \A k \in OfType(type) : cs[k] = NoCondition

Lowered(cs) ==
    \E k \in OfType("ATTRIBUTES") : cs[k] # NoCondition /\ cs[k].value < 0

\* What is not counted is as it was when none is left.
RestFits(cs, a) ==
    /\ a.visible <=> Absent(cs, "INVISIBLE")
    /\ a.drunkenness # 0 => ~Absent(cs, "DRUNK")
    /\ a.outfit # 0 => ~Absent(cs, "OUTFIT")
    /\ ~a.useDefense => Lowered(cs)

EachFits(cs, ks) ==
    \A k \in Keys :
        cs[k] # NoCondition => k \in ks /\ ValueFits(k[1], cs[k].value)

\* What they changed is what is there.
Fits(w, ks) ==
    /\ w \in Players(ks) /\ EachFits(w.conditions, ks)
    /\ AmountsFit(w.conditions, w.affected)
    /\ RestFits(w.conditions, w.affected)

\* Types and ids of conditions.
LEMMA KeysAre ==
  /\ \A k \in Keys : k = <<k[1], k[2]>> /\ k[1] \in Types /\ k[2] \in {1, 2}
                     /\ k \in OfType(k[1])
  /\ \A k \in Keys : k[1] \in {"HASTE", "PARALYZE"} <=> k \in {H1, H2, P1, P2}
  /\ \A k \in Keys : k[1] = "ATTRIBUTES" <=> k \in {A1, A2}
  /\ {H1, H2, P1, P2, A1, A2} \subseteq Keys
  /\ \A type : OfType(type) \subseteq Keys
               /\ \A k \in OfType(type) : k[1] = type
  /\ Speeds = {H1, H2, P1, P2} /\ OfType("ATTRIBUTES") = {A1, A2}
<1>1. \A k \in Keys : k = <<k[1], k[2]>> /\ k[1] \in Types /\ k[2] \in {1, 2}
  BY DEF Keys
<1>2. {H1, H2, P1, P2, A1, A2} \subseteq Keys
  BY DEF Keys, Types, H1, H2, P1, P2, A1, A2
<1>3. \A k \in Keys : k[1] \in {"HASTE", "PARALYZE"} <=> k \in {H1, H2, P1, P2}
  BY <1>1 DEF H1, H2, P1, P2
<1>4. \A k \in Keys : k[1] = "ATTRIBUTES" <=> k \in {A1, A2}
  BY <1>1 DEF A1, A2
<1>5. \A type : OfType(type) \subseteq Keys
                /\ \A k \in OfType(type) : k[1] = type
  BY DEF OfType
<1>6. Speeds = {H1, H2, P1, P2}
  BY DEF Speeds, H1, H2, P1, P2
<1>7. OfType("ATTRIBUTES") = {A1, A2}
  BY <1>2, <1>4 DEF OfType
<1>8. \A k \in Keys : k \in OfType(k[1])
  BY DEF OfType
<1> QED
  BY <1>1, <1>2, <1>3, <1>4, <1>5, <1>6, <1>7, <1>8

\* Only the condition k is another one, c, in ds.
OneMoved(cs, ds, k, c) ==
    /\ ds \in Slots /\ Amount(cs, k) \in Int /\ Amount(ds, k) \in Int
    /\ ds[k] = c /\ \A j \in Keys \ {k} : ds[j] = cs[j]
    /\ Speed(cs) \in Int /\ Skill(cs) \in Int
    /\ k[1] \in {"HASTE", "PARALYZE"} =>
            /\ Speed(ds) = Speed(cs) + (Amount(ds, k) - Amount(cs, k))
            /\ Skill(ds) = Skill(cs)
    /\ k[1] = "ATTRIBUTES" =>
            /\ Speed(ds) = Speed(cs)
            /\ Skill(ds) = Skill(cs) + (Amount(ds, k) - Amount(cs, k))
    /\ k[1] \notin {"HASTE", "PARALYZE", "ATTRIBUTES"} =>
            Speed(ds) = Speed(cs) /\ Skill(ds) = Skill(cs)

\* One condition comes, changes or goes: the sums change by that.
LEMMA OneChanges ==
  ASSUME NEW cs \in Slots, NEW k \in Keys,
         NEW c \in Durable \cup {NoCondition}
  PROVE  OneMoved(cs, [cs EXCEPT ![k] = c], k, c)
<1> DEFINE ds == [cs EXCEPT ![k] = c]
<1>1. ds \in Slots /\ ds[k] = c /\ \A j \in Keys \ {k} : ds[j] = cs[j]
  BY DEF Slots
<1> SUFFICES OneMoved(cs, ds, k, c)
  OBVIOUS
<1> HIDE DEF ds
<1>2. \A x \in Durable : x.value \in Int
  BY DEF Durable
<1>3. ASSUME NEW es \in Slots, NEW j \in Keys PROVE Amount(es, j) \in Int
  <2>1. es[j] \in Durable \cup {NoCondition}
    BY DEF Slots
  <2> QED
    BY <1>2, <2>1 DEF Amount
<1>4. \A j \in Keys \ {k} : Amount(ds, j) = Amount(cs, j)
  BY <1>1 DEF Amount
<1>5. {H1, H2, P1, P2, A1, A2} \subseteq Keys
  BY KeysAre
<1>5a. /\ H1 # H2 /\ H1 # P1 /\ H1 # P2 /\ H2 # P1 /\ H2 # P2 /\ P1 # P2
       /\ A1 # A2
  BY DEF H1, H2, P1, P2, A1, A2
<1>6. Speed(cs) \in Int /\ Skill(cs) \in Int
  BY <1>3, <1>5 DEF Speed, Skill
<1>7. CASE k[1] \in {"HASTE", "PARALYZE"}
  <2>1. k \in {H1, H2, P1, P2} /\ k \notin {A1, A2} /\ k[1] # "ATTRIBUTES"
    BY <1>7, KeysAre
  <2>2. Skill(ds) = Skill(cs)
    BY <2>1, <1>4, <1>5 DEF Skill
  <2>3. Speed(ds) = Speed(cs) + (Amount(ds, k) - Amount(cs, k))
    <3>1. /\ Amount(cs, H1) \in Int /\ Amount(cs, H2) \in Int
          /\ Amount(cs, P1) \in Int /\ Amount(cs, P2) \in Int
          /\ Amount(ds, H1) \in Int /\ Amount(ds, H2) \in Int
          /\ Amount(ds, P1) \in Int /\ Amount(ds, P2) \in Int
      BY <1>1, <1>3, <1>5
    <3>2. \A j \in {H1, H2, P1, P2} : j # k => Amount(ds, j) = Amount(cs, j)
      BY <1>4, <1>5
    <3>3. CASE k = H1
      BY <3>1, <3>2, <3>3, <1>5a DEF Speed
    <3>4. CASE k = H2
      BY <3>1, <3>2, <3>4, <1>5a DEF Speed
    <3>5. CASE k = P1
      BY <3>1, <3>2, <3>5, <1>5a DEF Speed
    <3>6. CASE k = P2
      BY <3>1, <3>2, <3>6, <1>5a DEF Speed
    <3> QED
      BY <2>1, <3>3, <3>4, <3>5, <3>6
  <2> QED
    BY <1>1, <1>3, <1>6, <1>7, <2>1, <2>2, <2>3 DEF OneMoved
<1>8. CASE k[1] = "ATTRIBUTES"
  <2>1. k \in {A1, A2} /\ k \notin {H1, H2, P1, P2}
    BY <1>8, KeysAre
  <2>2. Speed(ds) = Speed(cs)
    BY <2>1, <1>4, <1>5 DEF Speed
  <2>3. Skill(ds) = Skill(cs) + (Amount(ds, k) - Amount(cs, k))
    <3>1. /\ Amount(cs, A1) \in Int /\ Amount(cs, A2) \in Int
          /\ Amount(ds, A1) \in Int /\ Amount(ds, A2) \in Int
      BY <1>1, <1>3, <1>5
    <3>2. \A j \in {A1, A2} : j # k => Amount(ds, j) = Amount(cs, j)
      BY <1>4, <1>5
    <3>3. CASE k = A1
      BY <3>1, <3>2, <3>3, <1>5a DEF Skill
    <3>4. CASE k = A2
      BY <3>1, <3>2, <3>4, <1>5a DEF Skill
    <3> QED
      BY <2>1, <3>3, <3>4
  <2> QED
    BY <1>1, <1>3, <1>6, <1>8, <2>1, <2>2, <2>3 DEF OneMoved
<1>9. CASE k[1] \notin {"HASTE", "PARALYZE", "ATTRIBUTES"}
  <2>1. k \notin {H1, H2, P1, P2, A1, A2}
    BY <1>9, KeysAre
  <2>2. Speed(ds) = Speed(cs) /\ Skill(ds) = Skill(cs)
    BY <2>1, <1>4, <1>5 DEF Speed, Skill
  <2> QED
    BY <1>1, <1>3, <1>6, <1>9, <2>1, <2>2 DEF OneMoved
<1> QED
  BY <1>7, <1>8, <1>9

\* What is not counted is as it was for the other types.
LEMMA OthersKeep ==
  ASSUME NEW cs, NEW ds, NEW k \in Keys, \A j \in Keys \ {k} : ds[j] = cs[j]
  PROVE  /\ \A type : type # k[1] => (Absent(ds, type) <=> Absent(cs, type))
         /\ k[1] # "ATTRIBUTES" => (Lowered(ds) <=> Lowered(cs))
<1>1. \A type : type # k[1] => \A j \in OfType(type) : ds[j] = cs[j]
  BY KeysAre
<1> QED
  BY <1>1 DEF Absent, Lowered

\* Those of gone have ended, the others are as they were.
Ended(n, w, gone, ks) ==
    /\ Fits(n, ks) /\ n.deferred = w.deferred /\ n.renewed = w.renewed
    /\ \A j \in Keys : /\ j \in gone => n.conditions[j] = NoCondition
                       /\ j \notin gone => n.conditions[j] = w.conditions[j]

\* What the end of a condition does, by its type.
LEMMA EndChanges ==
  ASSUME NEW cs \in Slots, NEW k \in Keys, cs[k] # NoCondition,
         NEW a \in Changes, AmountsFit(cs, a), RestFits(cs, a),
         NEW ds, ds = [cs EXCEPT ![k] = NoCondition],
         NEW x, x.conditions = ds, x.affected = a,
         NEW b, b = EndCondition(x, k[1], cs[k])
  PROVE  b \in Changes /\ AmountsFit(ds, b) /\ RestFits(ds, b)
<1> DEFINE c == cs[k]
<1>1. c \in Durable /\ c.value \in Int
  BY DEF Slots, Durable
<1>2. OneMoved(cs, ds, k, NoCondition)
  BY Zenon, OneChanges
<1>2a. /\ ds \in Slots /\ ds[k] = NoCondition
       /\ \A j \in Keys \ {k} : ds[j] = cs[j]
  BY <1>2 DEF OneMoved
<1>2b. Amount(ds, k) = 0 /\ Amount(cs, k) = c.value
  BY <1>2a DEF Amount
<1> HIDE DEF c
<1>3. /\ k[1] \in {"HASTE", "PARALYZE"} =>
            Speed(ds) = Speed(cs) - c.value /\ Skill(ds) = Skill(cs)
      /\ k[1] = "ATTRIBUTES" =>
            Speed(ds) = Speed(cs) /\ Skill(ds) = Skill(cs) - c.value
      /\ k[1] \notin {"HASTE", "PARALYZE", "ATTRIBUTES"} =>
            Speed(ds) = Speed(cs) /\ Skill(ds) = Skill(cs)
  BY <1>1, <1>2, <1>2b DEF OneMoved
<1>4. /\ \A type : type # k[1] => (Absent(ds, type) <=> Absent(cs, type))
      /\ k[1] # "ATTRIBUTES" => (Lowered(ds) <=> Lowered(cs))
  BY Zenon, <1>2a, OthersKeep
<1>5. /\ a.varSpeed = Speed(cs) /\ a.varSkill = Skill(cs)
      /\ a.visible <=> Absent(cs, "INVISIBLE")
      /\ a.drunkenness # 0 => ~Absent(cs, "DRUNK")
      /\ a.outfit # 0 => ~Absent(cs, "OUTFIT")
      /\ ~a.useDefense => Lowered(cs)
  BY DEF AmountsFit, RestFits
<1>6. CASE k[1] \in {"HASTE", "PARALYZE"}
  <2>1. b = [a EXCEPT !.varSpeed = @ - c.value]
    BY <1>6 DEF EndCondition, c
  <2>2. /\ b \in Changes /\ b.varSpeed = a.varSpeed - c.value
        /\ b.varSkill = a.varSkill /\ b.visible = a.visible
        /\ b.drunkenness = a.drunkenness /\ b.outfit = a.outfit
        /\ b.useDefense = a.useDefense
    BY <1>1, <2>1 DEF Changes
  <2>3. AmountsFit(ds, b)
    BY <1>3, <1>5, <1>6, <2>2 DEF AmountsFit
  <2>4. RestFits(ds, b)
    BY Zenon, <1>4, <1>5, <1>6, <2>2 DEF RestFits
  <2> QED
    BY <2>2, <2>3, <2>4
<1>7. CASE k[1] = "ATTRIBUTES"
  <2> DEFINE d == a.useDefense \/ Disables(c)
  <2>1. b = [a EXCEPT !.varSkill = @ - c.value, !.useDefense = d]
    BY <1>7 DEF EndCondition, c
  <2>1a. d \in BOOLEAN /\ (d <=> (a.useDefense \/ Disables(c)))
    BY DEF Changes, Disables
  <2> HIDE DEF d
  <2>2. /\ b \in Changes /\ b.varSpeed = a.varSpeed
        /\ b.varSkill = a.varSkill - c.value /\ b.visible = a.visible
        /\ b.drunkenness = a.drunkenness /\ b.outfit = a.outfit
        /\ b.useDefense = d
    <3> DEFINE e == [a EXCEPT !.varSkill = @ - c.value]
    <3>1. /\ e \in Changes /\ e.varSpeed = a.varSpeed
          /\ e.varSkill = a.varSkill - c.value /\ e.visible = a.visible
          /\ e.drunkenness = a.drunkenness /\ e.outfit = a.outfit
      BY <1>1 DEF Changes
    <3>2. b = [e EXCEPT !.useDefense = d]
      BY <2>1
    <3> HIDE DEF e
    <3> QED
      BY <2>1a, <3>1, <3>2 DEF Changes
  <2>3. AmountsFit(ds, b)
    BY <1>3, <1>5, <1>7, <2>2 DEF AmountsFit
  <2>4. ~b.useDefense => Lowered(ds)
    <3>1. SUFFICES ASSUME ~b.useDefense PROVE Lowered(ds)
      OBVIOUS
    <3>2. Lowered(cs) /\ ~(c.value < 0)
      BY <1>5, <2>1a, <2>2, <3>1 DEF Disables
    <3>3. PICK j \in OfType("ATTRIBUTES") :
                cs[j] # NoCondition /\ cs[j].value < 0
      BY <3>2 DEF Lowered
    <3>4. j # k /\ j \in Keys
      BY <3>2, <3>3, KeysAre DEF c
    <3> QED
      BY <1>2a, <3>3, <3>4 DEF Lowered
  <2>5. RestFits(ds, b)
    BY Zenon, <1>4, <1>5, <1>7, <2>2, <2>4 DEF RestFits
  <2> QED
    BY <2>2, <2>3, <2>5
<1>8. CASE k[1] = "INVISIBLE"
  <2>1. b = [a EXCEPT !.visible = Absent(ds, "INVISIBLE")]
    BY Zenon, <1>8 DEF EndCondition, c, Absent
  <2>2. /\ b \in Changes /\ b.varSpeed = a.varSpeed
        /\ b.varSkill = a.varSkill /\ b.visible = Absent(ds, "INVISIBLE")
        /\ b.drunkenness = a.drunkenness /\ b.outfit = a.outfit
        /\ b.useDefense = a.useDefense
    BY Zenon, <2>1 DEF Changes, Absent
  <2>3. AmountsFit(ds, b)
    BY <1>3, <1>5, <1>8, <2>2 DEF AmountsFit
  <2>4. RestFits(ds, b)
    BY Zenon, <1>4, <1>5, <1>8, <2>2 DEF RestFits
  <2> QED
    BY <2>2, <2>3, <2>4
<1>9. CASE k[1] = "DRUNK"
  <2>1. b = [a EXCEPT !.drunkenness = 0]
    BY <1>9 DEF EndCondition, c
  <2>2. /\ b \in Changes /\ b.varSpeed = a.varSpeed
        /\ b.varSkill = a.varSkill /\ b.visible = a.visible
        /\ b.drunkenness = 0 /\ b.outfit = a.outfit
        /\ b.useDefense = a.useDefense
    BY <2>1 DEF Changes
  <2>3. AmountsFit(ds, b)
    BY <1>3, <1>5, <1>9, <2>2 DEF AmountsFit
  <2>4. RestFits(ds, b)
    BY Zenon, <1>4, <1>5, <1>9, <2>2 DEF RestFits
  <2> QED
    BY <2>2, <2>3, <2>4
<1>10. CASE k[1] = "OUTFIT"
  <2>1. b = [a EXCEPT !.outfit = 0]
    BY <1>10 DEF EndCondition, c
  <2>2. /\ b \in Changes /\ b.varSpeed = a.varSpeed
        /\ b.varSkill = a.varSkill /\ b.visible = a.visible
        /\ b.drunkenness = a.drunkenness /\ b.outfit = 0
        /\ b.useDefense = a.useDefense
    BY <2>1 DEF Changes
  <2>3. AmountsFit(ds, b)
    BY <1>3, <1>5, <1>10, <2>2 DEF AmountsFit
  <2>4. RestFits(ds, b)
    BY Zenon, <1>4, <1>5, <1>10, <2>2 DEF RestFits
  <2> QED
    BY <2>2, <2>3, <2>4
<1> QED
  <2>1. k[1] \in {"HASTE", "PARALYZE", "ATTRIBUTES", "INVISIBLE", "DRUNK",
                  "OUTFIT"}
    BY KeysAre DEF Types
  <2> QED
    BY <1>6, <1>7, <1>8, <1>9, <1>10, <2>1

\* One has ended.
LEMMA EndOneFits ==
  ASSUME NEW ks, NEW w, Fits(w, ks), NEW k \in Keys,
         w.conditions[k] # NoCondition
  PROVE  Ended(EndOne(w, k), w, {k}, ks)
<1> DEFINE cs == w.conditions
           ds == [cs EXCEPT ![k] = NoCondition]
           x == [w EXCEPT !.conditions[k] = NoCondition]
           b == EndCondition(x, k[1], cs[k])
           n == [x EXCEPT !.affected = b]
<1>1. n = EndOne(w, k)
  BY DEF EndOne
<1>2. w \in Players(ks)
  BY DEF Fits
<1>3. /\ x \in [conditions : Slots, affected : Changes,
                deferred : Seq(Events(ks)), renewed : BOOLEAN]
      /\ x.conditions = ds /\ x.affected = w.affected
      /\ x.deferred = w.deferred /\ x.renewed = w.renewed
      /\ cs \in Slots /\ w.affected \in Changes /\ ds \in Slots
      /\ ds[k] = NoCondition /\ \A j \in Keys \ {k} : ds[j] = cs[j]
  BY <1>2 DEF Players, Slots
<1> HIDE DEF cs, ds, x
<1>4. b \in Changes /\ AmountsFit(ds, b) /\ RestFits(ds, b)
  <2>1. AmountsFit(cs, w.affected) /\ RestFits(cs, w.affected)
    BY DEF Fits, cs
  <2> QED
    BY <1>3, <2>1, EndChanges DEF cs, ds
<1> HIDE DEF b
<1>5. /\ n \in Players(ks) /\ n.conditions = ds /\ n.affected = b
      /\ n.deferred = w.deferred /\ n.renewed = w.renewed
  BY <1>3, <1>4 DEF Players
<1>6. EachFits(ds, ks)
  BY <1>3 DEF Fits, EachFits, cs
<1> HIDE DEF n
<1>7. Ended(n, w, {k}, ks)
  BY <1>3, <1>4, <1>5, <1>6 DEF Ended, Fits, cs
<1> QED
  BY <1>1, <1>7

\* What starting a condition does.
LEMMA StartChanges ==
  ASSUME NEW cs \in Slots, NEW k \in Keys, cs[k] = NoCondition,
         NEW a \in Changes, AmountsFit(cs, a), RestFits(cs, a),
         NEW c \in Durable, ValueFits(k[1], c.value)
  PROVE  /\ StartCondition(a, k[1], c) \in Changes
         /\ AmountsFit([cs EXCEPT ![k] = c], StartCondition(a, k[1], c))
         /\ RestFits([cs EXCEPT ![k] = c], StartCondition(a, k[1], c))
<1> DEFINE ds == [cs EXCEPT ![k] = c]
           b == StartCondition(a, k[1], c)
<1> SUFFICES b \in Changes /\ AmountsFit(ds, b) /\ RestFits(ds, b)
  OBVIOUS
<1>0. c # NoCondition
  BY ConditionsAssumption DEF Durable, Endless
<1>1. /\ c.value \in Int /\ c.value \in -2..2
      /\ k[1] \in {"DRUNK", "OUTFIT"} => c.value \in 1..2
      /\ a.varSpeed \in Int /\ a.varSkill \in Int
  BY DEF Durable, ValueFits, Changes
<1>2. OneMoved(cs, ds, k, c)
  BY OneChanges
<1>2a. /\ ds \in Slots /\ ds[k] = c
       /\ \A j \in Keys \ {k} : ds[j] = cs[j]
  BY <1>2 DEF OneMoved
<1>2b. Amount(ds, k) = c.value /\ Amount(cs, k) = 0
  BY <1>0, <1>2a DEF Amount
<1> HIDE DEF ds, b
<1>3. /\ k[1] \in {"HASTE", "PARALYZE"} =>
            Speed(ds) = Speed(cs) + c.value /\ Skill(ds) = Skill(cs)
      /\ k[1] = "ATTRIBUTES" =>
            Speed(ds) = Speed(cs) /\ Skill(ds) = Skill(cs) + c.value
      /\ k[1] \notin {"HASTE", "PARALYZE", "ATTRIBUTES"} =>
            Speed(ds) = Speed(cs) /\ Skill(ds) = Skill(cs)
  BY <1>1, <1>2, <1>2b DEF OneMoved
<1>4. /\ \A type : type # k[1] => (Absent(ds, type) <=> Absent(cs, type))
      /\ k[1] # "ATTRIBUTES" => (Lowered(ds) <=> Lowered(cs))
      /\ ~Absent(ds, k[1])
  <2>1. ~Absent(ds, k[1])
    BY <1>0, <1>2a, KeysAre DEF Absent
  <2> QED
    BY <1>2a, <2>1, OthersKeep
<1>5. /\ a.varSpeed = Speed(cs) /\ a.varSkill = Skill(cs)
      /\ a.visible <=> Absent(cs, "INVISIBLE")
      /\ a.drunkenness # 0 => ~Absent(cs, "DRUNK")
      /\ a.outfit # 0 => ~Absent(cs, "OUTFIT")
      /\ ~a.useDefense => Lowered(cs)
  BY DEF AmountsFit, RestFits
<1>6. CASE k[1] \in {"HASTE", "PARALYZE"}
  <2>1. b = [a EXCEPT !.varSpeed = @ + c.value]
    BY <1>6 DEF StartCondition, b
  <2>2. /\ b \in Changes
        /\ b.varSpeed = a.varSpeed + c.value
        /\ b.varSkill = a.varSkill
        /\ b.useDefense = a.useDefense
        /\ b.visible = a.visible
        /\ b.drunkenness = a.drunkenness
        /\ b.outfit = a.outfit
    BY <1>1, <2>1 DEF Changes
  <2>3. AmountsFit(ds, b)
    BY <1>3, <1>5, <1>6, <2>2 DEF AmountsFit
  <2>4. RestFits(ds, b)
    BY <1>4, <1>5, <1>6, <2>2 DEF RestFits
  <2> QED
    BY <2>2, <2>3, <2>4
<1>7. CASE k[1] = "ATTRIBUTES"
  <2> DEFINE d == ~Disables(c)
  <2>1. b = [a EXCEPT !.varSkill = @ + c.value, !.useDefense = d]
    BY <1>7 DEF StartCondition, b
  <2>1a. d \in BOOLEAN /\ (d <=> ~(c.value < 0))
    BY DEF Disables
  <2> HIDE DEF d
  <2>2. /\ b \in Changes
        /\ b.varSpeed = a.varSpeed
        /\ b.varSkill = a.varSkill + c.value
        /\ b.useDefense = d
        /\ b.visible = a.visible
        /\ b.drunkenness = a.drunkenness
        /\ b.outfit = a.outfit
    <3> DEFINE e == [a EXCEPT !.varSkill = @ + c.value]
    <3>1. /\ e \in Changes /\ e.varSpeed = a.varSpeed
          /\ e.varSkill = a.varSkill + c.value /\ e.visible = a.visible
          /\ e.drunkenness = a.drunkenness /\ e.outfit = a.outfit
      BY <1>1 DEF Changes
    <3>2. b = [e EXCEPT !.useDefense = d]
      BY <2>1
    <3> HIDE DEF e
    <3> QED
      BY <2>1a, <3>1, <3>2 DEF Changes
  <2>3. AmountsFit(ds, b)
    BY <1>3, <1>5, <1>7, <2>2 DEF AmountsFit
  <2>4. ~b.useDefense => Lowered(ds)
    BY <1>0, <1>2a, <1>7, <2>1a, <2>2, KeysAre DEF Lowered
  <2>5. RestFits(ds, b)
    BY <1>4, <1>5, <1>7, <2>2, <2>4 DEF RestFits
  <2> QED
    BY <2>2, <2>3, <2>5
<1>8. CASE k[1] = "INVISIBLE"
  <2>1. b = [a EXCEPT !.visible = FALSE]
    BY <1>8 DEF StartCondition, b
  <2>2. /\ b \in Changes
        /\ b.varSpeed = a.varSpeed
        /\ b.varSkill = a.varSkill
        /\ b.useDefense = a.useDefense
        /\ b.visible = FALSE
        /\ b.drunkenness = a.drunkenness
        /\ b.outfit = a.outfit
    BY Zenon, <1>1, <2>1 DEF Changes
  <2>3. AmountsFit(ds, b)
    BY <1>3, <1>5, <1>8, <2>2 DEF AmountsFit
  <2>4. RestFits(ds, b)
    BY <1>4, <1>5, <1>8, <2>2 DEF RestFits
  <2> QED
    BY <2>2, <2>3, <2>4
<1>9. CASE k[1] = "DRUNK"
  <2>1. b = [a EXCEPT !.drunkenness = c.value]
    BY <1>9 DEF StartCondition, b
  <2>2. /\ b \in Changes
        /\ b.varSpeed = a.varSpeed
        /\ b.varSkill = a.varSkill
        /\ b.useDefense = a.useDefense
        /\ b.visible = a.visible
        /\ b.drunkenness = c.value
        /\ b.outfit = a.outfit
    BY <1>1, <2>1, <1>9 DEF Changes
  <2>3. AmountsFit(ds, b)
    BY <1>3, <1>5, <1>9, <2>2 DEF AmountsFit
  <2>4. RestFits(ds, b)
    BY <1>4, <1>5, <1>9, <2>2 DEF RestFits
  <2> QED
    BY <2>2, <2>3, <2>4
<1>10. CASE k[1] = "OUTFIT"
  <2>1. b = [a EXCEPT !.outfit = c.value]
    BY <1>10 DEF StartCondition, b
  <2>2. /\ b \in Changes
        /\ b.varSpeed = a.varSpeed
        /\ b.varSkill = a.varSkill
        /\ b.useDefense = a.useDefense
        /\ b.visible = a.visible
        /\ b.drunkenness = a.drunkenness
        /\ b.outfit = c.value
    BY <1>1, <2>1, <1>10 DEF Changes
  <2>3. AmountsFit(ds, b)
    BY <1>3, <1>5, <1>10, <2>2 DEF AmountsFit
  <2>4. RestFits(ds, b)
    BY <1>4, <1>5, <1>10, <2>2 DEF RestFits
  <2> QED
    BY <2>2, <2>3, <2>4
<1> QED
  <2>1. k[1] \in {"HASTE", "PARALYZE", "ATTRIBUTES", "INVISIBLE", "DRUNK",
                  "OUTFIT"}
    BY KeysAre DEF Types
  <2> QED
    BY <1>6, <1>7, <1>8, <1>9, <1>10, <2>1

\* What merging one into another does.
LEMMA MergeChanges ==
  ASSUME NEW cs \in Slots, NEW k \in Keys, cs[k] # NoCondition,
         ValueFits(k[1], cs[k].value),
         NEW a \in Changes, AmountsFit(cs, a), RestFits(cs, a),
         NEW c \in Durable, ValueFits(k[1], c.value),
         NEW w, w.affected = a, w.conditions = cs,
         NEW d \in Durable,
         k[1] = "DRUNK" => d.value = cs[k].value,
         k[1] # "DRUNK" => d.value = c.value,
         NEW b,
         b = CASE k[1] \in {"HASTE", "PARALYZE"} ->
                    [a EXCEPT !.varSpeed = @ + (c.value - cs[k].value)]
              [] k[1] = "ATTRIBUTES" ->
                    [EndCondition(w, k[1], cs[k])
                        EXCEPT !.varSkill = @ + c.value]
              [] k[1] = "INVISIBLE" -> a
              [] k[1] = "DRUNK" -> [a EXCEPT !.drunkenness = c.value]
              [] OTHER -> [a EXCEPT !.outfit = c.value]
  PROVE  /\ b \in Changes
         /\ AmountsFit([cs EXCEPT ![k] = d], b)
         /\ RestFits([cs EXCEPT ![k] = d], b)
<1> DEFINE ds == [cs EXCEPT ![k] = d]
           old == cs[k]
<1> SUFFICES b \in Changes /\ AmountsFit(ds, b) /\ RestFits(ds, b)
  OBVIOUS
<1>0. d # NoCondition
  BY ConditionsAssumption DEF Durable, Endless
<1>1. /\ c.value \in Int /\ c.value \in -2..2
      /\ k[1] \in {"DRUNK", "OUTFIT"} => c.value \in 1..2
      /\ old.value \in Int /\ d.value \in Int
      /\ a.varSpeed \in Int /\ a.varSkill \in Int
  BY DEF Durable, ValueFits, Changes, Slots
<1>2. OneMoved(cs, ds, k, d)
  BY OneChanges
<1>2a. /\ ds \in Slots /\ ds[k] = d
       /\ \A j \in Keys \ {k} : ds[j] = cs[j]
  BY <1>2 DEF OneMoved
<1>2b. Amount(ds, k) = d.value /\ Amount(cs, k) = old.value
  BY <1>0, <1>2a DEF Amount
<1> HIDE DEF ds
<1>3. /\ k[1] \in {"HASTE", "PARALYZE"} =>
            /\ Speed(ds) = Speed(cs) + (c.value - old.value)
            /\ Skill(ds) = Skill(cs)
      /\ k[1] = "ATTRIBUTES" =>
            /\ Speed(ds) = Speed(cs)
            /\ Skill(ds) = Skill(cs) - old.value + c.value
      /\ k[1] \notin {"HASTE", "PARALYZE", "ATTRIBUTES"} =>
            Speed(ds) = Speed(cs) /\ Skill(ds) = Skill(cs)
  <2> HIDE DEF old
  <2> QED
    BY <1>1, <1>2, <1>2b DEF OneMoved
<1>4. /\ \A type : type # k[1] => (Absent(ds, type) <=> Absent(cs, type))
      /\ k[1] # "ATTRIBUTES" => (Lowered(ds) <=> Lowered(cs))
      /\ ~Absent(ds, k[1]) /\ ~Absent(cs, k[1])
  <2>1. ~Absent(ds, k[1]) /\ ~Absent(cs, k[1])
    BY <1>0, <1>2a, KeysAre DEF Absent
  <2> QED
    BY <1>2a, <2>1, OthersKeep
<1>5. /\ a.varSpeed = Speed(cs) /\ a.varSkill = Skill(cs)
      /\ a.visible <=> Absent(cs, "INVISIBLE")
      /\ a.drunkenness # 0 => ~Absent(cs, "DRUNK")
      /\ a.outfit # 0 => ~Absent(cs, "OUTFIT")
      /\ ~a.useDefense => Lowered(cs)
  BY DEF AmountsFit, RestFits
<1> HIDE DEF old
<1>6. CASE k[1] \in {"HASTE", "PARALYZE"}
  <2>1. b = [a EXCEPT !.varSpeed = @ + (c.value - old.value)]
    BY <1>6 DEF old
  <2>2. /\ b \in Changes
        /\ b.varSpeed = a.varSpeed + (c.value - old.value)
        /\ b.varSkill = a.varSkill
        /\ b.useDefense = a.useDefense
        /\ b.visible = a.visible
        /\ b.drunkenness = a.drunkenness
        /\ b.outfit = a.outfit
    BY <1>1, <2>1 DEF Changes
  <2>3. AmountsFit(ds, b)
    BY <1>3, <1>5, <1>6, <2>2 DEF AmountsFit
  <2>4. RestFits(ds, b)
    BY <1>4, <1>5, <1>6, <2>2 DEF RestFits
  <2> QED
    BY <2>2, <2>3, <2>4
<1>7. CASE k[1] = "ATTRIBUTES"
  <2> DEFINE u == a.useDefense \/ Disables(old)
             e == [a EXCEPT !.varSkill = @ - old.value, !.useDefense = u]
             f == [a EXCEPT !.varSkill = @ - old.value]
  <2>1. EndCondition(w, k[1], cs[k]) = e
    BY <1>7 DEF EndCondition, old
  <2>1a. u \in BOOLEAN /\ (u <=> a.useDefense \/ old.value < 0)
    BY DEF Disables, Changes
  <2> HIDE DEF u
  <2>2a. /\ f \in Changes /\ f.varSpeed = a.varSpeed
         /\ f.varSkill = a.varSkill - old.value /\ f.visible = a.visible
         /\ f.drunkenness = a.drunkenness /\ f.outfit = a.outfit
    BY <1>1 DEF Changes
  <2>2b. e = [f EXCEPT !.useDefense = u]
    OBVIOUS
  <2> HIDE DEF f
  <2>2c. /\ e \in Changes /\ e.varSpeed = a.varSpeed /\ e.useDefense = u
         /\ e.varSkill = a.varSkill - old.value /\ e.visible = a.visible
         /\ e.drunkenness = a.drunkenness /\ e.outfit = a.outfit
    BY <2>1a, <2>2a, <2>2b DEF Changes
  <2> HIDE DEF e
  <2>2d. b = [e EXCEPT !.varSkill = @ + c.value]
    BY <1>7, <2>1
  <2>2. /\ b \in Changes
        /\ b.varSpeed = a.varSpeed
        /\ b.varSkill = a.varSkill - old.value + c.value
        /\ b.useDefense = u
        /\ b.visible = a.visible
        /\ b.drunkenness = a.drunkenness
        /\ b.outfit = a.outfit
    BY <1>1, <2>2c, <2>2d DEF Changes
  <2>3. AmountsFit(ds, b)
    BY <1>3, <1>5, <1>7, <2>2 DEF AmountsFit
  <2>4. ~b.useDefense => Lowered(ds)
    <3> SUFFICES ASSUME ~b.useDefense PROVE Lowered(ds)
      OBVIOUS
    <3>2. Lowered(cs) /\ ~(old.value < 0)
      BY <1>5, <2>1a, <2>2
    <3>3. PICK j \in OfType("ATTRIBUTES") :
                cs[j] # NoCondition /\ cs[j].value < 0
      BY <3>2 DEF Lowered
    <3>4. j # k /\ j \in Keys
      BY <3>2, <3>3, KeysAre DEF old
    <3> QED
      BY <1>2a, <3>3, <3>4 DEF Lowered
  <2>5. RestFits(ds, b)
    BY <1>4, <1>5, <1>7, <2>2, <2>4 DEF RestFits
  <2> QED
    BY <2>2, <2>3, <2>5
<1>8. CASE k[1] = "INVISIBLE"
  <2>1. b = a
    BY <1>8 DEF old
  <2>2. /\ b \in Changes
        /\ b.varSpeed = a.varSpeed
        /\ b.varSkill = a.varSkill
        /\ b.useDefense = a.useDefense
        /\ b.visible = a.visible
        /\ b.drunkenness = a.drunkenness
        /\ b.outfit = a.outfit
    BY <1>1, <2>1 DEF Changes
  <2>3. AmountsFit(ds, b)
    BY <1>3, <1>5, <1>8, <2>2 DEF AmountsFit
  <2>4. RestFits(ds, b)
    BY <1>4, <1>5, <1>8, <2>2 DEF RestFits
  <2> QED
    BY <2>2, <2>3, <2>4
<1>9. CASE k[1] = "DRUNK"
  <2>1. b = [a EXCEPT !.drunkenness = c.value]
    BY <1>9 DEF old
  <2>2. /\ b \in Changes
        /\ b.varSpeed = a.varSpeed
        /\ b.varSkill = a.varSkill
        /\ b.useDefense = a.useDefense
        /\ b.visible = a.visible
        /\ b.drunkenness = c.value
        /\ b.outfit = a.outfit
    BY <1>1, <2>1, <1>9 DEF Changes
  <2>3. AmountsFit(ds, b)
    BY <1>3, <1>5, <1>9, <2>2 DEF AmountsFit
  <2>4. RestFits(ds, b)
    BY <1>4, <1>5, <1>9, <2>2 DEF RestFits
  <2> QED
    BY <2>2, <2>3, <2>4
<1>10. CASE k[1] = "OUTFIT"
  <2>1. b = [a EXCEPT !.outfit = c.value]
    BY <1>10 DEF old
  <2>2. /\ b \in Changes
        /\ b.varSpeed = a.varSpeed
        /\ b.varSkill = a.varSkill
        /\ b.useDefense = a.useDefense
        /\ b.visible = a.visible
        /\ b.drunkenness = a.drunkenness
        /\ b.outfit = c.value
    BY <1>1, <2>1, <1>10 DEF Changes
  <2>3. AmountsFit(ds, b)
    BY <1>3, <1>5, <1>10, <2>2 DEF AmountsFit
  <2>4. RestFits(ds, b)
    BY <1>4, <1>5, <1>10, <2>2 DEF RestFits
  <2> QED
    BY <2>2, <2>3, <2>4
<1> QED
  <2>1. k[1] \in {"HASTE", "PARALYZE", "ATTRIBUTES", "INVISIBLE", "DRUNK",
                  "OUTFIT"}
    BY KeysAre DEF Types
  <2> QED
    BY <1>6, <1>7, <1>8, <1>9, <1>10, <2>1

\* The condition c has come and the others are as they were.
Joined(n, w, k, c, ks) ==
    /\ Fits(n, ks) /\ n.deferred = w.deferred /\ n.renewed = w.renewed
    /\ n.conditions[k] = c
    /\ \A j \in Keys \ {k} : n.conditions[j] = w.conditions[j]

\* A condition that comes where none is.
LEMMA StartFits ==
  ASSUME NEW ks, NEW w, Fits(w, ks), NEW k \in Keys, k \in ks,
         w.conditions[k] = NoCondition,
         NEW c \in Durable, ValueFits(k[1], c.value)
  PROVE  Joined([w EXCEPT !.conditions[k] = c,
                        !.affected = StartCondition(@, k[1], c)], w, k, c, ks)
<1> DEFINE n == [w EXCEPT !.conditions[k] = c,
                          !.affected = StartCondition(@, k[1], c)]
<1> SUFFICES Joined(n, w, k, c, ks)
  OBVIOUS
<1> DEFINE cs == w.conditions
           ds == [cs EXCEPT ![k] = c]
           b == StartCondition(w.affected, k[1], c)
<1>1. w \in Players(ks) /\ cs \in Slots /\ w.affected \in Changes
  BY DEF Fits, Players
<1>2. n = [w EXCEPT !.conditions = ds, !.affected = b]
  OBVIOUS
<1>3. b \in Changes /\ AmountsFit(ds, b) /\ RestFits(ds, b)
  BY <1>1, StartChanges DEF Fits
<1>4. ds \in Slots /\ ds[k] = c /\ \A j \in Keys \ {k} : ds[j] = cs[j]
  BY <1>1 DEF Slots
<1> HIDE DEF ds, b, n
<1>5. /\ n \in Players(ks) /\ n.conditions = ds /\ n.affected = b
      /\ n.deferred = w.deferred /\ n.renewed = w.renewed
  BY Zenon, <1>1, <1>2, <1>3, <1>4 DEF Players
<1>6. EachFits(ds, ks)
  BY <1>4 DEF Fits, EachFits
<1> QED
  BY <1>3, <1>4, <1>5, <1>6 DEF Fits, Joined

\* Nothing is more than it was, or it is known to have been renewed.
Calmer(n, w) ==
    /\ n.deferred = w.deferred /\ (w.renewed => n.renewed)
    /\ n.renewed \/ \A type : Has(n, type) => Has(w, type)

\* One that comes where one is.
LEMMA MergeFits ==
  ASSUME NEW ks, NEW w, Fits(w, ks), NEW k \in Keys,
         w.conditions[k] # NoCondition,
         NEW c \in Durable, ValueFits(k[1], c.value)
  PROVE  Fits(Merged(w, k, c), ks) /\ Calmer(Merged(w, k, c), w)
<1> DEFINE cs == w.conditions
           old == cs[k]
           a == w.affected
           kept == IF k[1] = "DRUNK" THEN old.value ELSE c.value
           d == [left |-> c.left, value |-> kept]
           ds == [cs EXCEPT ![k] = d]
           ended == EndCondition(w, k[1], old)
           b == CASE k[1] \in {"HASTE", "PARALYZE"} ->
                        [a EXCEPT !.varSpeed = @ + (c.value - old.value)]
                  [] k[1] = "ATTRIBUTES" ->
                        [ended EXCEPT !.varSkill = @ + c.value]
                  [] k[1] = "INVISIBLE" -> a
                  [] k[1] = "DRUNK" -> [a EXCEPT !.drunkenness = c.value]
                  [] OTHER -> [a EXCEPT !.outfit = c.value]
           r == w.renewed \/ old.left = 0
           n == [w EXCEPT !.affected = b, !.renewed = r, !.conditions = ds]
<1>1. /\ w \in Players(ks) /\ cs \in Slots /\ a \in Changes
      /\ w.renewed \in BOOLEAN /\ old \in Durable
      /\ AmountsFit(cs, a) /\ RestFits(cs, a) /\ EachFits(cs, ks)
  BY DEF Fits, Players, Slots
<1>2. CASE ~UpdateCondition(k[1], old, c)
  <2>1. Merged(w, k, c) = w
    BY <1>2 DEF Merged
  <2> QED
    BY <2>1 DEF Calmer
<1>3. CASE UpdateCondition(k[1], old, c)
  <2>1. Merged(w, k, c) = n
    BY <1>3 DEF Merged
  <2>2. d \in Durable /\ ValueFits(k[1], d.value) /\ d.left = c.left
        /\ d # NoCondition /\ k \in ks
    <3>1. old.value \in -2..2 /\ c.value \in -2..2 /\ c.left \in 0..Endless
      BY <1>1 DEF Durable
    <3>2. ValueFits(k[1], old.value) /\ k \in ks
      BY <1>1 DEF EachFits
    <3>3. kept \in -2..2 /\ ValueFits(k[1], kept)
      BY <3>1, <3>2
    <3> HIDE DEF kept
    <3>4. d \in Durable
      BY <3>1, <3>3 DEF Durable
    <3> QED
      BY <3>2, <3>3, <3>4, ConditionsAssumption DEF Durable, Endless
  <2>3. b \in Changes /\ AmountsFit(ds, b) /\ RestFits(ds, b)
    <3>1. /\ k[1] = "DRUNK" => d.value = cs[k].value
          /\ k[1] # "DRUNK" => d.value = c.value
      OBVIOUS
    <3>2. ValueFits(k[1], cs[k].value)
      BY <1>1 DEF EachFits
    <3> HIDE DEF d
    <3> QED
      BY <1>1, <2>2, <3>1, <3>2, MergeChanges
  <2>4. ds \in Slots /\ ds[k] = d /\ \A j \in Keys \ {k} : ds[j] = cs[j]
    <3> HIDE DEF d
    <3> QED
      BY <1>1, <2>2 DEF Slots
  <2>4a. r \in BOOLEAN /\ (r <=> (w.renewed \/ old.left = 0))
    BY <1>1
  <2> HIDE DEF ds, b, d, r
  <2>5. /\ n \in Players(ks) /\ n.conditions = ds /\ n.affected = b
        /\ n.deferred = w.deferred /\ n.renewed = r
    BY Zenon, <1>1, <2>3, <2>4, <2>4a DEF Players
  <2> HIDE DEF n
  <2>6. EachFits(ds, ks)
    BY <1>1, <2>2, <2>4 DEF EachFits
  <2>7. Fits(n, ks)
    BY <2>3, <2>5, <2>6 DEF Fits
  <2>8. ASSUME ~n.renewed, NEW type, Has(n, type) PROVE Has(w, type)
    <3>1. PICK j \in OfType(type) : ds[j] # NoCondition /\ ds[j].left > 0
      BY <2>5, <2>8 DEF Has
    <3>2. CASE j = k
      <4>1. old.left # 0 /\ old.left \in 0..Endless
        BY <1>1, <2>4a, <2>5, <2>8 DEF Durable
      <4>2. old.left > 0
        BY <4>1, ConditionsAssumption DEF Endless
      <4> QED
        BY <3>1, <3>2, <4>2 DEF Has
    <3>3. CASE j # k
      BY <2>4, <3>1, <3>3, KeysAre DEF Has
    <3> QED
      BY <3>2, <3>3
  <2>9. Calmer(n, w)
    BY <2>4a, <2>5, <2>8 DEF Calmer
  <2> QED
    BY <2>1, <2>7, <2>9
<1> QED
  BY <1>2, <1>3

\* A step of the fold in EndAll, and its result for the set s.
EndedOr(x, k) == IF x.conditions[k] = NoCondition THEN x ELSE EndOne(x, k)

EndsFrom(f, w, s) == IF s = {} THEN w
                     ELSE EndedOr(f[s \ {Chosen(s)}], Chosen(s))

\* EndAll is a fold.
LEMMA EndAllUnfolds ==
  ASSUME NEW w, NEW S
  PROVE  EndAll(w, S) =
            (CHOOSE g : g = [s \in SUBSET S |-> EndsFrom(g, w, s)])[S]
<1> DEFINE Once(g, s) == IF s = {} THEN w
                    ELSE LET k == CHOOSE y \in s : TRUE
                         IN IF g[s \ {k}].conditions[k] = NoCondition
                            THEN g[s \ {k}] ELSE EndOne(g[s \ {k}], k)
<1>1. EndAll(w, S) = (CHOOSE g : g = [s \in SUBSET S |-> Once(g, s)])[S]
  BY DEF EndAll, FoldSet, MapThenFoldSet
<1>2. \A g : [s \in SUBSET S |-> Once(g, s)]
             = [s \in SUBSET S |-> EndsFrom(g, w, s)]
  BY DEF EndsFrom, EndedOr, Chosen
<1> HIDE DEF Once
<1> QED
  BY Zenon, <1>1, <1>2

\* There are finitely many conditions.
LEMMA KeysFinite ==
  ASSUME NEW S, S \subseteq Keys
  PROVE  IsFiniteSet(S)
<1> DEFINE T1 == {"HASTE"}
           T2 == T1 \cup {"PARALYZE"}
           T3 == T2 \cup {"ATTRIBUTES"}
           T4 == T3 \cup {"INVISIBLE"}
           T5 == T4 \cup {"DRUNK"}
           T6 == T5 \cup {"OUTFIT"}
<1>0. Types = T6 /\ {1, 2} = {1} \cup {2}
  BY DEF Types
<1>1. IsFiniteSet(Types) /\ IsFiniteSet({1, 2})
  <2>1. IsFiniteSet(T1) /\ IsFiniteSet({1})
    BY FS_Singleton
  <2> HIDE DEF T1, T2, T3, T4, T5, T6
  <2>2. IsFiniteSet(T2)
    BY <2>1, FS_AddElement DEF T2
  <2>3. IsFiniteSet(T3)
    BY <2>2, FS_AddElement DEF T3
  <2>4. IsFiniteSet(T4)
    BY <2>3, FS_AddElement DEF T4
  <2>5. IsFiniteSet(T5)
    BY <2>4, FS_AddElement DEF T5
  <2>6. IsFiniteSet(T6)
    BY <2>5, FS_AddElement DEF T6
  <2>7. IsFiniteSet({1} \cup {2})
    BY <2>1, FS_AddElement
  <2> QED
    BY <1>0, <2>6, <2>7
<1>2. IsFiniteSet(Keys)
  BY <1>1, FS_Product DEF Keys
<1> QED
  BY <1>2, FS_Subset

\* One has ended, if it was there.
LEMMA EndedOrFits ==
  ASSUME NEW ks, NEW w, Fits(w, ks), NEW k \in Keys
  PROVE  Ended(EndedOr(w, k), w, {k}, ks)
<1>1. CASE w.conditions[k] = NoCondition
  BY <1>1 DEF EndedOr, Ended
<1>2. CASE w.conditions[k] # NoCondition
  BY <1>2, EndOneFits DEF EndedOr
<1> QED
  BY <1>1, <1>2

\* All that are to end have ended, the others are as they were.
LEMMA EndAllFits ==
  ASSUME NEW ks, NEW w, Fits(w, ks), NEW S, S \subseteq Keys
  PROVE  Ended(EndAll(w, S), w, S, ks)
<1>0. IsFiniteSet(S)
  BY KeysFinite
<1> DEFINE D == {x \in Players(ks) : Fits(x, ks)}
           op == [p \in S \X D |-> EndedOr(p[2], p[1])]
<1>1. op \in [S \X D -> D]
  <2>1. \A x \in D, k \in S : EndedOr(x, k) \in D
    BY EndedOrFits DEF Ended, Fits
  <2> HIDE DEF D
  <2> QED
    BY <2>1
<1>2. w \in D
  BY DEF Fits
<1>3. \A x \in D, k \in S : op[<<k, x>>] = EndedOr(x, k)
  <2> HIDE DEF D
  <2> QED
    OBVIOUS
<1> HIDE DEF D, op
<1>4. PICK h \in [SUBSET S -> D] : Folded(h, S, w, op)
  BY Zenon, <1>0, <1>1, <1>2, FoldExists
<1>5. ASSUME NEW s \in SUBSET S PROVE h[s] = EndsFrom(h, w, s)
  <2>1. CASE s = {}
    BY Zenon, <1>4, <2>1 DEF EndsFrom, Folded
  <2>2. CASE s # {}
    <3>1. Chosen(s) \in S /\ s \ {Chosen(s)} \in SUBSET S
      BY <2>2, ChosenIs
    <3>2. h[s \ {Chosen(s)}] \in D
      BY <3>1
    <3>3. h[s] = op[<<Chosen(s), h[s \ {Chosen(s)}]>>]
      BY Zenon, <1>4, <2>2 DEF Folded
    <3> QED
      BY <1>3, <2>2, <3>1, <3>2, <3>3 DEF EndsFrom
  <2> QED
    BY <2>1, <2>2
<1> DEFINE f == CHOOSE g : g = [s \in SUBSET S |-> EndsFrom(g, w, s)]
<1>6. f = [s \in SUBSET S |-> EndsFrom(f, w, s)]
  <2>1. h = [s \in SUBSET S |-> EndsFrom(h, w, s)]
    BY <1>5
  <2> QED
    BY <2>1
<1>7. EndAll(w, S) = f[S]
  BY Zenon, EndAllUnfolds
<1> HIDE DEF f
<1>7a. \A s \in SUBSET S : f[s] = EndsFrom(f, w, s)
  BY <1>6
<1> DEFINE E == [s \in SUBSET S |-> {x \in Players(ks) : Ended(x, w, s, ks)}]
<1>8. f[{}] \in E[{}]
  <2>1. f[{}] = w
    BY Zenon, <1>7a DEF EndsFrom
  <2>2. Ended(w, w, {}, ks)
    BY DEF Ended
  <2> QED
    BY <2>1, <2>2 DEF Fits
<1>9. ASSUME NEW s \in SUBSET S, s # {},
             f[s \ {Chosen(s)}] \in E[s \ {Chosen(s)}]
      PROVE  f[s] \in E[s]
  <2> DEFINE y == Chosen(s)
             t == s \ {y}
  <2>1. y \in s /\ t \in SUBSET S /\ y \in Keys
    BY <1>9, ChosenIs
  <2>2. Ended(f[t], w, t, ks)
    BY <1>9, <2>1
  <2>3. f[s] = EndedOr(f[t], y)
    BY Zenon, <1>7a, <1>9 DEF EndsFrom
  <2>4. Ended(f[s], f[t], {y}, ks)
    <3>1. Fits(f[t], ks)
      BY <2>2 DEF Ended
    <3> HIDE DEF y, t
    <3>2. Ended(EndedOr(f[t], y), f[t], {y}, ks)
      BY <2>1, <3>1, EndedOrFits
    <3> QED
      BY <2>3, <3>2
  <2>5. s = t \cup {y}
    BY <2>1
  <2> HIDE DEF y, t
  <2>6. Ended(f[s], w, s, ks)
    BY Zenon, <2>2, <2>4, <2>5 DEF Ended
  <2> QED
    BY <2>6 DEF Ended, Fits
<1>10. f[S] \in E[S]
  <2> HIDE DEF E
  <2> QED
    BY Zenon, <1>0, <1>8, <1>9, FoldFits
<1> QED
  BY <1>7, <1>10

\* Nobody is hasted and paralysed ...

PutOff(w) == \E i \in DOMAIN w.deferred :
                    w.deferred[i] = <<"remove", "PARALYZE">>

Together(w) == Has(w, "HASTE") /\ Has(w, "PARALYZE") => w.renewed \/ PutOff(w)

\* ... if nobody has more than before, ...
LEMMA CalmerKeeps ==
  ASSUME NEW n, NEW w, Calmer(n, w), Together(w)
  PROVE  Together(n)
BY DEF Calmer, Together, PutOff

\* ... as when some have ended.
LEMMA EndedCalmer ==
  ASSUME NEW n, NEW w, NEW gone, NEW ks, Ended(n, w, gone, ks),
         w.renewed \in BOOLEAN
  PROVE  /\ Calmer(n, w) /\ \A type : Has(n, type) => Has(w, type)
         /\ \A type : OfType(type) \subseteq gone => ~Has(n, type)
<1>1. \A type : \A j \in OfType(type) :
            /\ n.conditions[j] # NoCondition =>
                    j \notin gone /\ n.conditions[j] = w.conditions[j]
  BY KeysAre DEF Ended
<1>2. \A type : Has(n, type) => Has(w, type)
  BY <1>1 DEF Has
<1>3. \A type : OfType(type) \subseteq gone => ~Has(n, type)
  BY <1>1 DEF Has
<1> QED
  BY <1>2, <1>3 DEF Calmer, Ended

\* What an event more does to those that are there.
LEMMA Appended ==
  ASSUME NEW ks, NEW w, Fits(w, ks), NEW e \in Events(ks),
         NEW n, n = [w EXCEPT !.deferred = Append(@, e)]
  PROVE  /\ Fits(n, ks) /\ n.renewed = w.renewed
         /\ n.conditions = w.conditions
         /\ Len(n.deferred) = Len(w.deferred) + 1
         /\ PutOff(w) => PutOff(n)
         /\ e = <<"remove", "PARALYZE">> => PutOff(n)
<1> DEFINE s == w.deferred
           t == Append(s, e)
<1>1. w \in Players(ks) /\ s \in Seq(Events(ks))
  BY DEF Fits, Players
<1>2. /\ t \in Seq(Events(ks)) /\ Len(t) = Len(s) + 1 /\ Len(s) \in Nat
      /\ t[Len(s) + 1] = e /\ \A i \in 1..Len(s) : t[i] = s[i]
      /\ DOMAIN s = 1..Len(s) /\ DOMAIN t = 1..Len(s) + 1
  BY <1>1, AppendProperties
<1> HIDE DEF t
<1>3. /\ n \in Players(ks) /\ n.deferred = t /\ n.renewed = w.renewed
      /\ n.conditions = w.conditions /\ n.affected = w.affected
  BY Zenon, <1>1, <1>2 DEF Players, t
<1>4. Fits(n, ks)
  BY <1>3 DEF Fits
<1>5. PutOff(w) => PutOff(n)
  BY <1>2, <1>3 DEF PutOff
<1>6. e = <<"remove", "PARALYZE">> => PutOff(n)
  <2>1. Len(s) + 1 \in DOMAIN t
    BY <1>2
  <2> QED
    BY Zenon, <1>2, <1>3, <2>1 DEF PutOff
<1> QED
  BY <1>2, <1>3, <1>4, <1>5, <1>6

\* A type is removed: nobody has it, or its end has been put off.
Removed(n, w, type, ks) ==
    /\ Fits(n, ks) /\ n.renewed = w.renewed
    /\ Len(n.deferred) <= Len(w.deferred) + 1
    /\ \A t : Has(n, t) => Has(w, t)
    /\ PutOff(w) => PutOff(n)
    /\ Has(n, type) => PutOff(n)

\* RemoveCondition, now or later.
LEMMA RemovalFits ==
  ASSUME NEW ks, NEW w, Fits(w, ks), NEW type, NEW delayed
  PROVE  /\ Removed(RemoveCondition(w, type, delayed), w, type, ks)
         /\ ~delayed => /\ ~Has(RemoveCondition(w, type, delayed), type)
                        /\ RemoveCondition(w, type, delayed).deferred
                                = w.deferred
<1>0. Len(w.deferred) \in Nat /\ w.renewed \in BOOLEAN
  BY DEF Fits, Players
<1> DEFINE Later == /\ type = "PARALYZE" /\ delayed
                    /\ \E k \in OfType(type) :
                            w.conditions[k] # NoCondition
<1>1. CASE Later
  <2> DEFINE n == [w EXCEPT !.deferred = Append(@, <<"remove", type>>)]
  <2>1. RemoveCondition(w, type, delayed) = n
    BY <1>1 DEF RemoveCondition
  <2>2. <<"remove", type>> \in Events(ks) /\ type = "PARALYZE"
    BY <1>1 DEF Events
  <2>3. /\ Fits(n, ks) /\ n.renewed = w.renewed
        /\ n.conditions = w.conditions
        /\ Len(n.deferred) = Len(w.deferred) + 1 /\ PutOff(n)
    BY <2>2, Appended
  <2> HIDE DEF n
  <2>4. \A t : Has(n, t) => Has(w, t)
    BY <2>3 DEF Has
  <2>5. Removed(n, w, type, ks)
    BY <1>0, <2>3, <2>4 DEF Removed
  <2> QED
    BY Zenon, <1>1, <2>1, <2>5
<1>2. CASE ~Later
  <2> DEFINE n == EndAll(w, OfType(type))
  <2>1. RemoveCondition(w, type, delayed) = n
    BY <1>2 DEF RemoveCondition
  <2>2. Ended(n, w, OfType(type), ks)
    BY EndAllFits, KeysAre
  <2> HIDE DEF n
  <2>3. (\A t : Has(n, t) => Has(w, t)) /\ ~Has(n, type)
    BY <1>0, <2>2, EndedCalmer
  <2>4. /\ Fits(n, ks) /\ n.renewed = w.renewed
        /\ n.deferred = w.deferred
    BY <2>2 DEF Ended
  <2> QED
    BY <1>0, <2>1, <2>3, <2>4 DEF Removed, PutOff
<1> QED
  BY <1>1, <1>2

\* Who has both has the end of one put off.
LEMMA RemovedKeeps ==
  ASSUME NEW n, NEW w, NEW type, NEW ks, Removed(n, w, type, ks),
         \/ Together(w)
         \/ type \in {"HASTE", "PARALYZE"}
  PROVE  Together(n)
BY DEF Removed, Together

\* A haste ends a paralysis, and a paralysis a haste.
LEMMA OnAddFits ==
  ASSUME NEW ks, NEW w, Fits(w, ks), NEW type, NEW delayed,
         type \notin {"HASTE", "PARALYZE"} => Together(w),
         NEW n, n = OnAddCondition(w, type, delayed)
  PROVE  /\ Fits(n, ks) /\ Together(n)
         /\ Len(n.deferred) <= Len(w.deferred) + 1
<1>0. Len(w.deferred) \in Nat
  BY DEF Fits, Players
<1>1. CASE type = "PARALYZE" /\ Has(w, "HASTE")
  <2>1. n = RemoveCondition(w, "HASTE", delayed)
    BY <1>1 DEF OnAddCondition
  <2>2. Removed(n, w, "HASTE", ks)
    BY <2>1, RemovalFits
  <2> QED
    BY <2>2, RemovedKeeps DEF Removed
<1>2. CASE type = "HASTE" /\ Has(w, "PARALYZE")
  <2>1. n = RemoveCondition(w, "PARALYZE", delayed)
    BY <1>2 DEF OnAddCondition
  <2>2. Removed(n, w, "PARALYZE", ks)
    BY <2>1, RemovalFits
  <2> QED
    BY <2>2, RemovedKeeps DEF Removed
<1>3. CASE /\ ~(type = "PARALYZE" /\ Has(w, "HASTE"))
           /\ ~(type = "HASTE" /\ Has(w, "PARALYZE"))
  <2>1. n = w
    BY <1>3 DEF OnAddCondition
  <2>2. Together(w)
    BY <1>3 DEF Together
  <2> QED
    BY <1>0, <2>1, <2>2
<1> QED
  BY <1>1, <1>2, <1>3

\* addCondition, in whatever state the player is.
LEMMA AdditionFits ==
  ASSUME NEW ks, NEW w, Fits(w, ks), Together(w),
         NEW k \in Keys, k \in ks,
         NEW c \in Durable, ValueFits(k[1], c.value),
         NEW delayed, NEW force,
         NEW n, n = AddCondition(w, k, c, delayed, force)
  PROVE  /\ Fits(n, ks) /\ Together(n)
         /\ Len(n.deferred) <= Len(w.deferred) + 1
<1>0. Len(w.deferred) \in Nat
  BY DEF Fits, Players
<1> DEFINE started == [w EXCEPT !.conditions[k] = c,
                                !.affected = StartCondition(@, k[1], c)]
           Later == ~force /\ k[1] = "HASTE" /\ Has(w, "PARALYZE")
                    /\ delayed
<1>1. CASE Later
  <2> DEFINE e == <<"add", k, c>>
  <2>1. n = [w EXCEPT !.deferred = Append(@, e)]
    BY <1>1 DEF AddCondition
  <2>2. e \in Events(ks)
    BY <1>1, KeysAre DEF Events, AddEvents
  <2> HIDE DEF e
  <2>3. /\ Fits(n, ks) /\ n.renewed = w.renewed
        /\ n.conditions = w.conditions
        /\ Len(n.deferred) = Len(w.deferred) + 1
        /\ PutOff(w) => PutOff(n)
    BY <2>1, <2>2, Appended
  <2>4. Together(n)
    BY <2>3 DEF Together, Has
  <2> QED
    BY <1>0, <2>3, <2>4
<1>2. CASE ~Later /\ w.conditions[k] # NoCondition
  <2>1. n = Merged(w, k, c)
    BY <1>2 DEF AddCondition
  <2>2. Fits(n, ks) /\ Calmer(n, w)
    BY <1>2, <2>1, MergeFits
  <2> QED
    BY <1>0, <2>2, CalmerKeeps DEF Calmer
<1>3. CASE ~Later /\ w.conditions[k] = NoCondition
  <2>1. n = OnAddCondition(started, k[1], delayed)
    BY <1>3 DEF AddCondition
  <2>2. /\ Fits(started, ks) /\ started.deferred = w.deferred
        /\ started.renewed = w.renewed
        /\ \A j \in Keys \ {k} : started.conditions[j] = w.conditions[j]
    <3>1. Joined(started, w, k, c, ks)
      BY Zenon, <1>3, StartFits
    <3> HIDE DEF started
    <3> QED
      BY <3>1 DEF Joined
  <2> HIDE DEF started
  <2>3. k[1] \notin {"HASTE", "PARALYZE"} => Together(started)
    <3> SUFFICES ASSUME k[1] \notin {"HASTE", "PARALYZE"}
                 PROVE  Together(started)
      OBVIOUS
    <3>1. \A type \in {"HASTE", "PARALYZE"} :
            \A j \in OfType(type) : started.conditions[j] = w.conditions[j]
      BY <2>2, KeysAre
    <3>2. \A type \in {"HASTE", "PARALYZE"} :
                Has(started, type) => Has(w, type)
      BY <3>1 DEF Has
    <3> QED
      BY <2>2, <3>2 DEF Together, PutOff
  <2> QED
    BY <2>1, <2>2, <2>3, OnAddFits
<1> QED
  BY <1>1, <1>2, <1>3

\* Only how long they last has changed.
Lasting(n, w, ds, r, ks) ==
    /\ Fits(n, ks) /\ n.deferred = w.deferred /\ n.renewed = r
    /\ n.conditions = ds

\* Who has the same conditions as before, if not for as long.
LEMMA SameValues ==
  ASSUME NEW ks, NEW w, Fits(w, ks), NEW ds \in Slots, NEW r \in BOOLEAN,
         \A k \in Keys : w.conditions[k] = NoCondition <=> ds[k] = NoCondition,
         \A k \in Keys : w.conditions[k] # NoCondition =>
                            ds[k].value = w.conditions[k].value
  PROVE  Lasting([w EXCEPT !.conditions = ds, !.renewed = r], w, ds, r, ks)
<1> DEFINE cs == w.conditions
           n == [w EXCEPT !.conditions = ds, !.renewed = r]
<1>1. /\ w \in Players(ks) /\ cs \in Slots /\ EachFits(cs, ks)
      /\ AmountsFit(cs, w.affected) /\ RestFits(cs, w.affected)
  BY DEF Fits, Players
<1>2. \A k \in Keys : Amount(ds, k) = Amount(cs, k)
  BY DEF Amount
<1>3. Speed(ds) = Speed(cs) /\ Skill(ds) = Skill(cs)
  BY <1>2, KeysAre DEF Speed, Skill
<1>4. /\ \A type : Absent(ds, type) <=> Absent(cs, type)
      /\ Lowered(ds) <=> Lowered(cs)
  BY KeysAre DEF Absent, Lowered
<1>5. EachFits(ds, ks)
  BY <1>1 DEF EachFits
<1>6. /\ n \in Players(ks) /\ n.conditions = ds /\ n.renewed = r
      /\ n.deferred = w.deferred /\ n.affected = w.affected
  BY Zenon, <1>1 DEF Players
<1> HIDE DEF n
<1>7. AmountsFit(ds, n.affected) /\ RestFits(ds, n.affected)
  BY <1>1, <1>3, <1>4, <1>6 DEF AmountsFit, RestFits
<1>8. Lasting(n, w, ds, r, ks)
  BY <1>5, <1>6, <1>7 DEF Fits, Lasting
<1> QED
  BY <1>8 DEF n

\* The sum of the values of some conditions.

SumsFrom(f, s) ==
    IF s = {} THEN 0
    ELSE f[s \ {Chosen(s)}] + conditions[Chosen(s)].value

\* Sum is a fold.
LEMMA ValuesUnfold ==
  ASSUME NEW keys
  PROVE  Sum(keys) = (CHOOSE g : g = [s \in SUBSET (keys \cap Present) |->
                                        SumsFrom(g, s)])[keys \cap Present]
<1> DEFINE S == keys \cap Present
           Once(g, s) == IF s = {} THEN 0
                    ELSE LET k == CHOOSE y \in s : TRUE
                         IN g[s \ {k}] + conditions[k].value
<1>1. Sum(keys) = (CHOOSE g : g = [s \in SUBSET S |-> Once(g, s)])[S]
  BY DEF Sum, FoldSet, MapThenFoldSet
<1>2. \A g : [s \in SUBSET S |-> Once(g, s)]
             = [s \in SUBSET S |-> SumsFrom(g, s)]
  BY DEF SumsFrom, Chosen
<1> HIDE DEF Once
<1> QED
  BY Zenon, <1>1, <1>2

\* What one of the conditions adds to the sum for the set s.
Part(s, k) == IF k \in s THEN conditions[k].value ELSE 0

Parts(s) == Part(s, H1) + Part(s, H2) + Part(s, P1) + Part(s, P2)
            + Part(s, A1) + Part(s, A2)

\* The sum of all but one, and that one.
LEMMA PartsAre ==
  ASSUME conditions \in Slots, NEW S, S \subseteq Present,
         S \subseteq {H1, H2, P1, P2, A1, A2}
  PROVE  /\ Parts({}) = 0
         /\ \A s \in SUBSET S : Parts(s) \in Int
         /\ \A s \in SUBSET S : \A y \in s :
                /\ conditions[y].value \in Int
                /\ Parts(s) = Parts(s \ {y}) + conditions[y].value
<1>1. \A y \in S : conditions[y].value \in Int
  BY KeysAre DEF Slots, Present, Durable
<1>2. ASSUME NEW s \in SUBSET S, NEW k PROVE Part(s, k) \in Int
  BY <1>1 DEF Part
<1>3. Parts({}) = 0
  BY DEF Parts, Part
<1>4. ASSUME NEW s \in SUBSET S PROVE Parts(s) \in Int
  BY <1>2 DEF Parts
<1>5. /\ H1 # H2 /\ H1 # P1 /\ H1 # P2 /\ H1 # A1 /\ H1 # A2
      /\ H2 # P1 /\ H2 # P2 /\ H2 # A1 /\ H2 # A2
      /\ P1 # P2 /\ P1 # A1 /\ P1 # A2 /\ P2 # A1 /\ P2 # A2 /\ A1 # A2
  BY DEF H1, H2, P1, P2, A1, A2
<1>6. ASSUME NEW s \in SUBSET S, NEW y \in s
      PROVE  Parts(s) = Parts(s \ {y}) + conditions[y].value
  <2> DEFINE t == s \ {y}
  <2>1. /\ \A k : k # y => Part(s, k) = Part(t, k)
        /\ Part(t, y) = 0 /\ Part(s, y) = conditions[y].value
        /\ t \in SUBSET S
    BY DEF Part
  <2> SUFFICES Parts(s) = Parts(t) + conditions[y].value
    OBVIOUS
  <2> HIDE DEF t
  <2>2. /\ Part(s, H1) \in Int /\ Part(s, H2) \in Int
        /\ Part(s, P1) \in Int /\ Part(s, P2) \in Int
        /\ Part(s, A1) \in Int /\ Part(s, A2) \in Int
        /\ Part(t, H1) \in Int /\ Part(t, H2) \in Int
        /\ Part(t, P1) \in Int /\ Part(t, P2) \in Int
        /\ Part(t, A1) \in Int /\ Part(t, A2) \in Int
    BY <1>2, <2>1
  <2>2a. conditions[y].value \in Int
    BY <1>1
  <2>3. CASE y = H1
    BY <1>5, <2>1, <2>2, <2>2a, <2>3 DEF Parts
  <2>4. CASE y = H2
    BY <1>5, <2>1, <2>2, <2>2a, <2>4 DEF Parts
  <2>5. CASE y = P1
    BY <1>5, <2>1, <2>2, <2>2a, <2>5 DEF Parts
  <2>6. CASE y = P2
    BY <1>5, <2>1, <2>2, <2>2a, <2>6 DEF Parts
  <2>7. CASE y = A1
    BY <1>5, <2>1, <2>2, <2>2a, <2>7 DEF Parts
  <2>8. CASE y = A2
    BY <1>5, <2>1, <2>2, <2>2a, <2>8 DEF Parts
  <2> QED
    BY <2>3, <2>4, <2>5, <2>6, <2>7, <2>8
<1> QED
  BY <1>1, <1>3, <1>4, <1>6

\* The fold gives the sum, whatever the order.
LEMMA ValuesAre ==
  ASSUME conditions \in Slots, NEW keys,
         keys \subseteq {H1, H2, P1, P2, A1, A2}
  PROVE  Sum(keys) = Parts(keys \cap Present)
<1> DEFINE S == keys \cap Present
<1>0. /\ IsFiniteSet(S) /\ S \subseteq Present
      /\ S \subseteq {H1, H2, P1, P2, A1, A2}
  BY KeysFinite DEF Present
<1>1. /\ Parts({}) = 0
      /\ \A s \in SUBSET S : Parts(s) \in Int
      /\ \A s \in SUBSET S : \A y \in s :
                /\ conditions[y].value \in Int
                /\ Parts(s) = Parts(s \ {y}) + conditions[y].value
  BY Zenon, <1>0, PartsAre
<1> HIDE DEF S
<1>2. \A y \in S : conditions[y].value \in Int
  BY Zenon, <1>1
<1> DEFINE op == [p \in S \X Int |-> p[2] + conditions[p[1]].value]
<1>3. /\ op \in [S \X Int -> Int] /\ 0 \in Int
      /\ \A y \in S, n \in Int : op[<<y, n>>] = n + conditions[y].value
  BY <1>2
<1> HIDE DEF op
<1>4. PICK h \in [SUBSET S -> Int] : Folded(h, S, 0, op)
  BY Zenon, <1>0, <1>3, FoldExists
<1>5. ASSUME NEW s \in SUBSET S PROVE h[s] = SumsFrom(h, s)
  <2>1. CASE s = {}
    BY Zenon, <1>4, <2>1 DEF SumsFrom, Folded
  <2>2. CASE s # {}
    <3>1. Chosen(s) \in S /\ s \ {Chosen(s)} \in SUBSET S
      BY <2>2, ChosenIs
    <3>2. h[s \ {Chosen(s)}] \in Int
      BY <3>1
    <3>3. h[s] = op[<<Chosen(s), h[s \ {Chosen(s)}]>>]
      BY <1>4, <2>2 DEF Folded
    <3> QED
      BY <1>3, <2>2, <3>1, <3>2, <3>3 DEF SumsFrom
  <2> QED
    BY <2>1, <2>2
<1> DEFINE f == CHOOSE g : g = [s \in SUBSET S |-> SumsFrom(g, s)]
<1>6. f = [s \in SUBSET S |-> SumsFrom(f, s)]
  <2>1. h = [s \in SUBSET S |-> SumsFrom(h, s)]
    BY <1>5
  <2> QED
    BY <2>1
<1>7. Sum(keys) = f[S]
  BY Zenon, ValuesUnfold DEF S
<1> HIDE DEF f
<1>8. \A s \in SUBSET S : f[s] = SumsFrom(f, s)
  BY <1>6
<1> DEFINE D == [s \in SUBSET S |-> {Parts(s)}]
<1>9. f[{}] \in D[{}]
  BY Zenon, <1>1, <1>8 DEF SumsFrom
<1>10. ASSUME NEW s \in SUBSET S, s # {},
              f[s \ {Chosen(s)}] \in D[s \ {Chosen(s)}]
       PROVE  f[s] \in D[s]
  <2>1. Chosen(s) \in s /\ s \ {Chosen(s)} \in SUBSET S
    BY <1>10, ChosenIs
  <2>2. f[s \ {Chosen(s)}] = Parts(s \ {Chosen(s)})
    BY <1>10, <2>1
  <2>3. f[s] = Parts(s \ {Chosen(s)}) + conditions[Chosen(s)].value
    BY <1>8, <1>10, <2>2 DEF SumsFrom
  <2> QED
    BY <1>1, <2>1, <2>3
<1>11. f[S] \in D[S]
  <2> HIDE DEF D
  <2> QED
    BY <1>0, <1>9, <1>10, FoldFits
<1> QED
  BY <1>7, <1>11 DEF S

\* The sums of the property are those of the invariant.
LEMMA SumsAre ==
  ASSUME conditions \in Slots
  PROVE  /\ Sum(Speeds) = Speed(conditions)
         /\ Sum(OfType("ATTRIBUTES")) = Skill(conditions)
<1>1. /\ Speeds = {H1, H2, P1, P2} /\ OfType("ATTRIBUTES") = {A1, A2}
      /\ {H1, H2, P1, P2, A1, A2} \subseteq Keys
      /\ A1 \notin Speeds /\ A2 \notin Speeds
      /\ {H1, H2, P1, P2} \cap OfType("ATTRIBUTES") = {}
  BY KeysAre DEF H1, H2, P1, P2, A1, A2
<1>2. \A k \in Keys : conditions[k] # NoCondition =>
                            conditions[k].value \in Int
  BY DEF Slots, Durable
<1>3. \A k \in Keys : k \in Present <=> conditions[k] # NoCondition
  BY DEF Present
<1>4. \A k \in Keys : Amount(conditions, k) \in Int
  BY <1>2 DEF Amount
<1>5. Sum(Speeds) = Speed(conditions)
  <2> DEFINE S == Speeds \cap Present
  <2>1. /\ Part(S, A1) = 0 /\ Part(S, A2) = 0
        /\ \A k \in {H1, H2, P1, P2} : Part(S, k) = Amount(conditions, k)
    BY <1>1, <1>3 DEF Part, Amount
  <2>2. Sum(Speeds) = Parts(S)
    BY <1>1, ValuesAre
  <2> HIDE DEF S
  <2> QED
    BY <1>1, <1>4, <2>1, <2>2 DEF Parts, Speed
<1>6. Sum(OfType("ATTRIBUTES")) = Skill(conditions)
  <2> DEFINE S == OfType("ATTRIBUTES") \cap Present
  <2>1. /\ Part(S, H1) = 0 /\ Part(S, H2) = 0
        /\ Part(S, P1) = 0 /\ Part(S, P2) = 0
        /\ \A k \in {A1, A2} : Part(S, k) = Amount(conditions, k)
    BY <1>1, <1>3 DEF Part, Amount
  <2>2. Sum(OfType("ATTRIBUTES")) = Parts(S)
    BY <1>1, ValuesAre
  <2> HIDE DEF S
  <2> QED
    BY <1>1, <1>4, <2>1, <2>2 DEF Parts, Skill
<1> QED
  BY <1>5, <1>6

\* The invariant of the conditions, and that every step keeps it.

ConditionsInv ==
    /\ Fits(Now, met) /\ Together(Now)
    /\ Len(deferred) <= MaxDeferred /\ skill \in 1..2

\* What a player becomes that fits keeps the invariant.
LEMMA PlayerKeeps ==
  ASSUME NEW n, Fits(n, met), Together(n), Len(n.deferred) <= MaxDeferred,
         skill \in 1..2, PlayerBecomes(n)
  PROVE  ConditionsInv'
<1>1. n \in Players(met)
  BY DEF Fits
<1>2. n = [conditions |-> n.conditions, affected |-> n.affected,
           deferred |-> n.deferred, renewed |-> n.renewed]
  BY <1>1 DEF Players
<1>3. Now' = n /\ met' = met /\ skill' = skill /\ deferred' = n.deferred
  BY <1>2 DEF PlayerBecomes, Now
<1>4. Fits(Now', met') /\ Together(Now')
  BY <1>3
<1>5. Fits(Now, met)' = Fits(Now', met') /\ Together(Now)' = Together(Now')
  BY ONLY DEF Fits, Together, Players, EachFits, AmountsFit, RestFits, Slots,
     Changes, Events, AddEvents, Durable, Has, PutOff
<1> QED
  BY <1>3, <1>4, <1>5 DEF ConditionsInv

\* At the start there is no condition.
LEMMA ConditionsInitial == ConditionsInit => ConditionsInv
<1> SUFFICES ASSUME ConditionsInit PROVE ConditionsInv
  OBVIOUS
<1>1. /\ conditions = [k \in Keys |-> NoCondition]
      /\ affected = [varSpeed |-> 0, varSkill |-> 0, useDefense |-> TRUE,
                   visible |-> TRUE, drunkenness |-> 0, outfit |-> 0]
      /\ deferred = <<>> /\ skill = 1 /\ renewed = FALSE
  BY DEF ConditionsInit
<1>2. conditions \in Slots /\ affected \in Changes
      /\ deferred \in Seq(Events(met)) /\ Len(deferred) = 0
  BY <1>1 DEF Slots, Changes
<1>3. Now \in Players(met) /\ Now.conditions = conditions
      /\ Now.affected = affected /\ Now.deferred = deferred
  BY Zenon, <1>1, <1>2 DEF Now, Players
<1>4. \A k \in Keys : conditions[k] = NoCondition
  BY <1>1
<1>5. EachFits(conditions, met) /\ AmountsFit(conditions, affected)
      /\ RestFits(conditions, affected)
  <2>1. Speed(conditions) = 0 /\ Skill(conditions) = 0
    BY <1>4, KeysAre DEF Speed, Skill, Amount
  <2>2. \A type : Absent(conditions, type)
    BY <1>4, KeysAre DEF Absent
  <2> QED
    BY <1>1, <1>4, <2>1, <2>2 DEF EachFits, AmountsFit, RestFits
<1>6. Together(Now)
  BY <1>3, <1>4, KeysAre DEF Together, Has
<1> QED
  BY <1>1, <1>2, <1>3, <1>5, <1>6, ConditionsAssumption
     DEF ConditionsInv, Fits

\* What the invariant says of the player.
LEMMA NowIs ==
  ASSUME ConditionsInv
  PROVE  /\ Fits(Now, met) /\ Together(Now) /\ skill \in 1..2
         /\ Now.conditions = conditions /\ Now.deferred = deferred
         /\ Now.renewed = renewed /\ Now.affected = affected
         /\ conditions \in Slots /\ deferred \in Seq(Events(met))
         /\ renewed \in BOOLEAN /\ Len(deferred) \in Nat
         /\ Len(deferred) <= MaxDeferred
         /\ MaxDeferred \in Nat /\ MaxTicks \in Nat
<1>1. /\ Now.conditions = conditions /\ Now.deferred = deferred
      /\ Now.renewed = renewed /\ Now.affected = affected
  BY DEF Now
<1>2. Fits(Now, met)
  BY DEF ConditionsInv
<1>3. /\ conditions \in Slots /\ deferred \in Seq(Events(met))
      /\ renewed \in BOOLEAN
  BY <1>1, <1>2 DEF Fits, Players
<1> QED
  BY <1>1, <1>2, <1>3, ConditionsAssumption DEF ConditionsInv

\* Each step keeps the invariant: a condition is added, ...
LEMMA AddKeeps ==
  ASSUME ConditionsInv, NEW k \in met, k \in Keys,
         NEW left \in 1..Endless, NEW value \in Values(k[1]),
         NEW delayed \in BOOLEAN, Add(k, left, value, delayed)
  PROVE  ConditionsInv'
<1> DEFINE v == IF value = Doubled THEN skill ELSE value
           c == [left |-> left, value |-> v]
           n == AddCondition(Now, k, c, delayed, FALSE)
<1>1. v \in -2..2 /\ ValueFits(k[1], v)
  <2>1. k[1] \in {"DRUNK", "OUTFIT"} => value \in 1..2
    BY DEF Values
  <2>2. value \in -2..2
    BY DEF Values, Doubled
  <2> QED
    BY <2>1, <2>2, NowIs DEF ValueFits, Doubled
<1>2. left \in 0..Endless
  BY ConditionsAssumption DEF Endless
<1> HIDE DEF v
<1>3. c \in Durable /\ ValueFits(k[1], c.value)
  BY <1>1, <1>2 DEF Durable
<1>4. PlayerBecomes(n) /\ Len(deferred) < MaxDeferred
  BY Zenon DEF Add, v
<1> HIDE DEF c
<1>5. Fits(n, met) /\ Together(n) /\ Len(n.deferred) <= Len(deferred) + 1
  BY Zenon, <1>3, NowIs, AdditionFits
<1> HIDE DEF n
<1>6. Len(n.deferred) <= MaxDeferred
  <2>1. Len(n.deferred) \in Nat
    BY <1>5 DEF Fits, Players
  <2> QED
    BY <1>4, <1>5, <2>1, NowIs
<1> QED
  BY <1>4, <1>5, <1>6, NowIs, PlayerKeeps

\* ... conditions of a type are removed, ...
LEMMA RemovalKeeps ==
  ASSUME ConditionsInv, NEW type, NEW delayed,
         NEW n, n = RemoveCondition(Now, type, delayed),
         Len(deferred) < MaxDeferred, PlayerBecomes(n)
  PROVE  ConditionsInv'
<1>1. Removed(n, Now, type, met)
  BY NowIs, RemovalFits
<1>2. Fits(n, met) /\ Together(n) /\ Len(n.deferred) <= Len(deferred) + 1
  BY <1>1, NowIs, RemovedKeeps DEF Removed
<1>3. Len(n.deferred) \in Nat
  BY <1>2 DEF Fits, Players
<1>4. Len(n.deferred) <= MaxDeferred
  BY <1>2, <1>3, NowIs
<1> QED
  BY <1>2, <1>4, NowIs, PlayerKeeps

\* ... or one of them by a spell, ...
LEMMA DispelKeeps ==
  ASSUME ConditionsInv, NEW k \in met, NEW delayed \in BOOLEAN,
         Dispel(k, delayed)
  PROVE  ConditionsInv'
<1>1. /\ k \in Keys /\ conditions[k] # NoCondition
      /\ Len(deferred) < MaxDeferred
  BY DEF Dispel, Present
<1>2. CASE k[1] = "PARALYZE" /\ delayed
  <2>1. PlayerBecomes(RemoveCondition(Now, k[1], TRUE))
    BY Zenon, <1>2 DEF Dispel
  <2> QED
    BY Zenon, <1>1, <2>1, RemovalKeeps
<1>3. CASE ~(k[1] = "PARALYZE" /\ delayed)
  <2> DEFINE n == EndOne(Now, k)
  <2>1. PlayerBecomes(n)
    BY Zenon, <1>3 DEF Dispel
  <2>2. Ended(n, Now, {k}, met)
    BY <1>1, NowIs, EndOneFits
  <2> HIDE DEF n
  <2>3. Calmer(n, Now)
    BY <2>2, NowIs, EndedCalmer
  <2>4. Fits(n, met) /\ Together(n) /\ n.deferred = deferred
    BY <2>2, <2>3, NowIs, CalmerKeeps DEF Ended
  <2> QED
    BY <2>1, <2>4, NowIs, PlayerKeeps
<1> QED
  BY <1>2, <1>3

\* ... those that have expired end, ...
LEMMA ExecuteKeeps ==
  ASSUME ConditionsInv, ExecuteConditions
  PROVE  ConditionsInv'
<1> DEFINE S == {k \in Present : conditions[k].left = 0}
           n == EndAll(Now, S)
<1>1. PlayerBecomes(n)
  BY DEF ExecuteConditions
<1>2. Ended(n, Now, S, met)
  <2>1. S \subseteq Keys
    BY DEF Present
  <2> HIDE DEF S
  <2> QED
    BY <2>1, NowIs, EndAllFits
<1> HIDE DEF S, n
<1>3. Calmer(n, Now)
  BY <1>2, NowIs, EndedCalmer
<1>4. Fits(n, met) /\ Together(n) /\ n.deferred = deferred
  BY <1>2, <1>3, NowIs, CalmerKeeps DEF Ended
<1> QED
  BY <1>1, <1>4, NowIs, PlayerKeeps

\* ... one has less time left, ...
LEMMA CutShortKeeps ==
  ASSUME ConditionsInv, NEW k \in met, NEW left \in 0..1, CutShort(k, left)
  PROVE  ConditionsInv'
<1> DEFINE old == conditions[k]
           d == [old EXCEPT !.left = left]
           ds == [conditions EXCEPT ![k] = d]
           r == renewed \/ old.left = 0
           n == [Now EXCEPT !.conditions = ds, !.renewed = r]
<1>1. k \in Keys /\ old # NoCondition /\ old \in Durable
  BY NowIs DEF CutShort, Present, Slots
<1>2. /\ d \in Durable /\ d # NoCondition /\ d.value = old.value
      /\ d.left = left /\ old.left \in 0..Endless
  <2>1. left \in 0..Endless
    BY ConditionsAssumption DEF Endless
  <2>2. d \in Durable /\ d.value = old.value /\ d.left = left
    BY <1>1, <2>1 DEF Durable
  <2> HIDE DEF d
  <2> QED
    BY <1>1, <2>2, ConditionsAssumption DEF Durable, Endless
<1>3. PlayerBecomes(n)
  <2>1. [Now EXCEPT !.renewed = @ \/ conditions[k].left = 0,
                    !.conditions[k].left = left] = n
    BY Zenon, NowIs DEF Now
  <2> QED
    BY <2>1 DEF CutShort
<1> HIDE DEF d
<1>4. ds \in Slots /\ ds[k] = d /\ \A j \in Keys \ {k} : ds[j] = conditions[j]
  BY <1>1, <1>2, NowIs DEF Slots
<1>5. r \in BOOLEAN /\ (r <=> (renewed \/ old.left = 0))
  BY NowIs
<1> HIDE DEF ds, r
<1>6. /\ \A j \in Keys : conditions[j] = NoCondition <=> ds[j] = NoCondition
      /\ \A j \in Keys : conditions[j] # NoCondition =>
                            ds[j].value = conditions[j].value
  BY <1>1, <1>2, <1>4
<1>6a. Lasting(n, Now, ds, r, met)
  BY Zenon, <1>4, <1>5, <1>6, NowIs, SameValues
<1> HIDE DEF n
<1>7. Fits(n, met) /\ n.deferred = deferred /\ n.renewed = r
      /\ n.conditions = ds
  BY <1>6a, NowIs DEF Lasting
<1>8. Calmer(n, Now)
  <2>1. ASSUME ~r, NEW type, Has(n, type) PROVE Has(Now, type)
    <3>1. PICK j \in OfType(type) : ds[j] # NoCondition /\ ds[j].left > 0
      BY <1>7, <2>1 DEF Has
    <3>2. CASE j = k
      <4>1. old.left # 0
        BY <1>5, <2>1
      <4>2. old.left > 0
        BY <1>2, <4>1, ConditionsAssumption DEF Endless
      <4> QED
        BY <1>1, <3>1, <3>2, <4>2, NowIs DEF Has
    <3>3. CASE j # k
      BY <1>4, <3>1, <3>3, KeysAre, NowIs DEF Has
    <3> QED
      BY <3>2, <3>3
  <2> QED
    BY <1>5, <1>7, <2>1, NowIs DEF Calmer
<1>9. Together(n)
  BY <1>8, NowIs, CalmerKeeps
<1> QED
  BY <1>3, <1>7, <1>9, NowIs, PlayerKeeps

\* ... all of them have, ...
LEMMA PassTimeKeeps ==
  ASSUME ConditionsInv, PassTime
  PROVE  ConditionsInv'
<1> DEFINE Aged(k) == IF k \in Present /\ conditions[k].left \in 1..MaxTicks
                      THEN [conditions[k] EXCEPT !.left = @ - 1]
                      ELSE conditions[k]
           ds == [k \in Keys |-> Aged(k)]
           n == [Now EXCEPT !.conditions = ds, !.renewed = renewed]
<1>1. ASSUME NEW k \in Keys
      PROVE  /\ Aged(k) \in Durable \cup {NoCondition}
             /\ conditions[k] = NoCondition <=> Aged(k) = NoCondition
             /\ conditions[k] # NoCondition =>
                    /\ Aged(k).value = conditions[k].value
                    /\ Aged(k).left > 0 => conditions[k].left > 0
  <2>1. CASE ~(k \in Present /\ conditions[k].left \in 1..MaxTicks)
    BY <2>1, NowIs DEF Slots
  <2>2. CASE k \in Present /\ conditions[k].left \in 1..MaxTicks
    <3> DEFINE d == [conditions[k] EXCEPT !.left = @ - 1]
    <3>1. conditions[k] \in Durable /\ conditions[k] # NoCondition
      BY <2>2, NowIs DEF Present, Slots
    <3>2. conditions[k].left - 1 \in 0..Endless /\ conditions[k].left > 0
      BY <2>2, NowIs DEF Endless
    <3>3. d \in Durable /\ d.value = conditions[k].value
      BY <3>1, <3>2 DEF Durable
    <3>4. Aged(k) = d
      BY <2>2
    <3> HIDE DEF d, Aged
    <3>5. d # NoCondition
      BY <3>3, ConditionsAssumption DEF Durable, Endless
    <3> QED
      BY <3>1, <3>2, <3>3, <3>4, <3>5
  <2> QED
    BY <2>1, <2>2
<1> HIDE DEF Aged
<1>2. ds \in Slots /\ \A k \in Keys : ds[k] = Aged(k)
  BY <1>1 DEF Slots
<1>3. PlayerBecomes(n)
  <2>1. /\ n.conditions = ds /\ n.affected = affected
        /\ n.deferred = deferred /\ n.renewed = renewed
    BY DEF Now
  <2> QED
    BY <2>1 DEF PassTime, PlayerBecomes, Aged
<1> HIDE DEF ds
<1>4. /\ \A j \in Keys : conditions[j] = NoCondition <=> ds[j] = NoCondition
      /\ \A j \in Keys : conditions[j] # NoCondition =>
                            ds[j].value = conditions[j].value
  BY <1>1, <1>2
<1>4a. Lasting(n, Now, ds, renewed, met)
  BY Zenon, <1>2, <1>4, NowIs, SameValues
<1> HIDE DEF n
<1>5. Fits(n, met) /\ n.deferred = deferred /\ n.renewed = renewed
      /\ n.conditions = ds
  BY <1>4a, NowIs DEF Lasting
<1>6. \A type : Has(n, type) => Has(Now, type)
  BY Zenon, <1>1, <1>2, <1>5, KeysAre, NowIs DEF Has
<1>7. Together(n)
  BY <1>5, <1>6, NowIs, CalmerKeeps DEF Calmer
<1> QED
  BY <1>3, <1>5, <1>7, NowIs, PlayerKeeps

\* ... and an event that was put off comes.
LEMMA FireKeeps ==
  ASSUME ConditionsInv, NEW i \in DOMAIN deferred, NEW delayed \in BOOLEAN,
         Fire(i, delayed)
  PROVE  ConditionsInv'
<1> DEFINE event == deferred[i]
           s == RemoveAt(deferred, i)
           w == [Now EXCEPT !.deferred = RemoveAt(@, i)]
<1>0. PlayerBecomes(IF event[1] = "add"
                THEN AddCondition(w, event[2], event[3], delayed, TRUE)
                ELSE RemoveCondition(w, event[2], FALSE))
  BY Zenon DEF Fire
<1>1. /\ i \in 1..Len(deferred) /\ event \in Events(met)
      /\ deferred \in Seq(Events(met))
  BY NowIs
<1>2. /\ s \in Seq(Events(met)) /\ Len(s) = Len(deferred) - 1
      /\ \A j \in 1..Len(deferred) - 1 :
            s[j] = IF j < i THEN deferred[j] ELSE deferred[j + 1]
  BY Zenon, <1>1, RemovedFrom
<1>2a. w = [Now EXCEPT !.deferred = s]
  BY NowIs
<1> HIDE DEF s, w
<1>3. /\ w \in Players(met) /\ w.conditions = conditions
      /\ w.affected = affected /\ w.renewed = renewed /\ w.deferred = s
  BY <1>2, <1>2a, NowIs DEF Fits, Players
<1>4. Fits(w, met)
  BY <1>3, NowIs DEF Fits
<1>6. CASE event \in AddEvents(met)
  <2> DEFINE k == event[2]
             c == event[3]
             n == AddCondition(w, k, c, delayed, TRUE)
  <2>1. /\ event[1] = "add" /\ k \in met /\ k \in Keys /\ c \in Durable
        /\ k[1] = "HASTE"
    BY <1>6, KeysAre DEF AddEvents
  <2>2. ValueFits(k[1], c.value)
    BY <2>1 DEF ValueFits
  <2>3. PlayerBecomes(n)
    BY Zenon, <1>0, <2>1
  <2>4. Together(w)
    <3>1. ASSUME PutOff(Now) PROVE PutOff(w)
      <4>1. PICK j \in DOMAIN deferred :
                    deferred[j] = <<"remove", "PARALYZE">>
        BY Zenon, <3>1, NowIs DEF PutOff
      <4>2. j # i /\ j \in 1..Len(deferred)
        BY <2>1, <4>1, NowIs
      <4>3. CASE j < i
        <5>1. j \in 1..Len(deferred) - 1 /\ s[j] = deferred[j]
          BY <1>1, <1>2, <4>2, <4>3, NowIs
        <5>2. j \in DOMAIN s
          BY <1>2, <5>1
        <5> QED
          BY <1>3, <4>1, <5>1, <5>2 DEF PutOff
      <4>4. CASE ~(j < i)
        <5>1. /\ j - 1 \in 1..Len(deferred) - 1 /\ ~(j - 1 < i)
              /\ j - 1 + 1 = j
          BY <1>1, <4>2, <4>4, NowIs
        <5>2. j - 1 \in DOMAIN s /\ s[j - 1] = deferred[j]
          BY <1>2, <5>1
        <5> QED
          BY <1>3, <4>1, <5>2 DEF PutOff
      <4> QED
        BY <4>3, <4>4
    <3> QED
      BY <1>3, <3>1, NowIs DEF Together, Has
  <2>5. Fits(n, met) /\ Together(n) /\ Len(n.deferred) <= Len(w.deferred) + 1
    <3> HIDE DEF k, c
    <3> QED
      BY Zenon, <1>4, <2>1, <2>2, <2>4, AdditionFits
  <2> HIDE DEF n
  <2>6. Len(n.deferred) <= MaxDeferred
    <3>1. Len(n.deferred) \in Nat
      BY <2>5 DEF Fits, Players
    <3> QED
      BY <1>2, <1>3, <2>5, <3>1, NowIs
  <2> QED
    BY <2>3, <2>5, <2>6, NowIs, PlayerKeeps
<1>7. CASE event = <<"remove", "PARALYZE">>
  <2> DEFINE n == RemoveCondition(w, "PARALYZE", FALSE)
  <2>0. event[1] # "add" /\ event[2] = "PARALYZE"
    BY <1>7
  <2>1. PlayerBecomes(n)
    BY Zenon, <1>0, <2>0
  <2>2. Removed(n, w, "PARALYZE", met) /\ n.deferred = w.deferred
    BY Zenon, <1>4, RemovalFits
  <2> HIDE DEF n
  <2>3. Fits(n, met) /\ Together(n)
    BY <2>2, RemovedKeeps DEF Removed
  <2>4. Len(n.deferred) <= MaxDeferred
    BY <1>2, <1>3, <2>2, NowIs
  <2> QED
    BY <2>1, <2>3, <2>4, NowIs, PlayerKeeps
<1> QED
  BY <1>1, <1>6, <1>7 DEF Events

\* Every step of the conditions keeps the invariant.
LEMMA ConditionsKeeps ==
  ConditionsInv /\ met \subseteq Keys /\ [ConditionsNext]_ConditionsVars
      => ConditionsInv' /\ (met \subseteq Keys)'
<1> SUFFICES ASSUME ConditionsInv, met \subseteq Keys,
                    [ConditionsNext]_ConditionsVars
             PROVE  ConditionsInv' /\ met' \subseteq Keys
  BY DEF Keys
<1>0. met' = met
  BY Zenon
  DEF ConditionsNext, ConditionsVars, Add, RemoveType, Dispel, CutShort,
     Fire, PassTime, ExecuteConditions, Advance, PlayerBecomes
<1> SUFFICES ConditionsInv'
  BY <1>0
<1>1. ASSUME NEW k \in met, NEW left \in 1..Endless, NEW delayed \in BOOLEAN,
             NEW value \in Values(k[1]), Add(k, left, value, delayed)
      PROVE  ConditionsInv'
  BY <1>1, AddKeeps
<1>2. ASSUME NEW type \in Types, NEW delayed \in BOOLEAN,
             RemoveType(type, delayed)
      PROVE  ConditionsInv'
  BY <1>2, RemovalKeeps DEF RemoveType
<1>3. ASSUME NEW k \in met, NEW delayed \in BOOLEAN, Dispel(k, delayed)
      PROVE  ConditionsInv'
  BY <1>3, DispelKeeps
<1>4. ASSUME NEW k \in met, NEW left \in 0..1, CutShort(k, left)
      PROVE  ConditionsInv'
  BY <1>4, CutShortKeeps
<1>5. ASSUME NEW i \in DOMAIN deferred, NEW delayed \in BOOLEAN,
             Fire(i, delayed)
      PROVE  ConditionsInv'
  BY <1>5, FireKeeps
<1>6. CASE PassTime
  BY <1>6, PassTimeKeeps
<1>7. CASE ExecuteConditions
  BY <1>7, ExecuteKeeps
<1>8. CASE Advance
  <2>1. Now' = Now /\ met' = met /\ deferred' = deferred
    BY <1>8 DEF Advance, Now
  <2>2. skill' \in 1..2
    BY <1>8, NowIs DEF Advance
  <2> QED
    BY <2>1, <2>2 DEF ConditionsInv, Fits, Together, Players, EachFits,
       AmountsFit, RestFits, Slots, Changes, Events, AddEvents, Has, PutOff
<1>9. CASE UNCHANGED ConditionsVars
  <2>1. /\ Now' = Now /\ met' = met /\ deferred' = deferred
        /\ skill' = skill
    BY <1>9 DEF ConditionsVars, Now
  <2> QED
    BY <2>1 DEF ConditionsInv, Fits, Together, Players, EachFits,
       AmountsFit, RestFits, Slots, Changes, Events, AddEvents, Has, PutOff
<1> QED
  BY <1>1, <1>2, <1>3, <1>4, <1>5, <1>6, <1>7, <1>8, <1>9
     DEF ConditionsNext

\* The invariant gives what is promised of conditions.
LEMMA ConditionsInvIsSound == ConditionsInv => ConditionsSound
<1> SUFFICES ASSUME ConditionsInv PROVE ConditionsSound
  OBVIOUS
<1>1. /\ Fits(Now, met) /\ Now.conditions = conditions
      /\ Now.affected = affected /\ conditions \in Slots
      /\ EachFits(conditions, met) /\ AmountsFit(conditions, affected)
      /\ RestFits(conditions, affected) /\ affected \in Changes
  BY NowIs DEF Fits, Players
<1>2. \A k \in Keys : k \in Present <=> conditions[k] # NoCondition
  BY DEF Present
<1>3. ConditionsTypeOK
  <2>1. ASSUME NEW k \in Present
        PROVE  /\ conditions[k].left \in 0..Endless
               /\ conditions[k].value \in -2..2 /\ k \in met
    <3>1. k \in Keys /\ conditions[k] \in Durable
      BY <1>1 DEF Present, Slots
    <3>2. k \in met
      BY <1>1, <1>2, <3>1 DEF EachFits
    <3>3. conditions[k].left \in 0..Endless /\ conditions[k].value \in -2..2
      BY <3>1 DEF Durable
    <3> QED
      BY <3>2, <3>3
  <2>2. /\ affected.varSpeed \in Int /\ affected.varSkill \in Int
        /\ affected.useDefense \in BOOLEAN /\ affected.visible \in BOOLEAN
        /\ affected.drunkenness \in 0..2 /\ affected.outfit \in 0..2
    BY <1>1 DEF Changes
  <2> QED
    BY <2>1, <2>2, NowIs DEF ConditionsTypeOK
<1>4. ChangesAddUp
  BY <1>1, SumsAre DEF ChangesAddUp, AmountsFit
<1>5. NothingStays
  <2>1. \A type : Absent(conditions, type) <=> OfType(type) \cap Present = {}
    BY <1>2, KeysAre DEF Absent
  <2>2. Lowered(conditions) =>
            \E k \in OfType("ATTRIBUTES") \cap Present :
                Disables(conditions[k])
    BY <1>2, KeysAre DEF Lowered, Disables
  <2> QED
    BY <1>1, <2>1, <2>2 DEF NothingStays, RestFits
<1>6. HasteOrParalysis
  BY Zenon, NowIs DEF HasteOrParalysis, Together, PutOff
<1> QED
  BY <1>3, <1>4, <1>5, <1>6 DEF ConditionsSound

-----------------------------------------------------------------------------
(* The creatures.  The functions on the books of Creatures are shown to    *)
(* keep all calm, in the order in which they are built; the loops over all *)
(* creatures are unrolled step by step.                                    *)
Lives == {"unborn", "placed", "removed", "freed"}

\* What may be stored in the creatures, however badly it is counted.
Books ==
    [life : [Beings -> Lives],
     room : [Beings -> Rooms \cup {NoCreature}],
     healthy : [Beings -> BOOLEAN],
     master : [Beings -> Beings \cup {NoCreature}],
     attacked : [Beings -> Beings \cup {NoCreature}],
     friends : [Monsters -> SUBSET Beings],
     targets : [Monsters -> SUBSET Beings],
     isIdle : [Monsters -> BOOLEAN],
     check : [Beings -> {"none", "thinks", "leaves"}],
     references : [Beings -> Int],
     toRelease : [Beings -> Nat]]

Stands(b, c) == IF b.life[c] = "placed" THEN 1 ELSE 0

Checks(b, c) == IF b.check[c] # "none" THEN 1 ELSE 0

Serves(b, c) == IF b.master[c] # NoCreature THEN 1 ELSE 0

In(c, S) == IF c \in S THEN 1 ELSE 0

\* The monsters in whose lists c is.
Listing(lists, c) == {m \in Monsters : c \in lists[m]}

\* Held, of any books.
HeldIn(b, c) ==
    Stands(b, c) + Checks(b, c)
        + Serves(b, c) + b.toRelease[c]
        + Cardinality(Listing(b.friends, c))
        + Cardinality(Listing(b.targets, c))

\* The references are exact, and there is none to who is not in the game.
Counted(b) ==
    \A c \in Beings :
        /\ b.references[c] = HeldIn(b, c)
        /\ b.life[c] \in {"unborn", "freed"} => b.references[c] = 0

Good(b) == b \in Books /\ Counted(b)

\* The kinds of creatures.
LEMMA BeingsAre ==
  /\ Humans \subseteq Beings /\ Monsters \subseteq Beings
  /\ NoCreature \notin Beings /\ \A c \in Humans : c \notin Monsters
  /\ IsFiniteSet(Monsters) /\ IsFiniteSet(Beings)
<1>1. IsFiniteSet(Beings)
  BY Zenon, CreaturesAssumption, FS_Union DEF Beings
<1> QED
  BY <1>1, CreaturesAssumption DEF Beings

\* The fields of the books.
LEMMA BooksAre ==
  ASSUME NEW b \in Books
  PROVE  /\ b.life \in [Beings -> Lives]
         /\ b.room \in [Beings -> Rooms \cup {NoCreature}]
         /\ b.healthy \in [Beings -> BOOLEAN]
         /\ b.master \in [Beings -> Beings \cup {NoCreature}]
         /\ b.attacked \in [Beings -> Beings \cup {NoCreature}]
         /\ b.friends \in [Monsters -> SUBSET Beings]
         /\ b.targets \in [Monsters -> SUBSET Beings]
         /\ b.isIdle \in [Monsters -> BOOLEAN]
         /\ b.check \in [Beings -> {"none", "thinks", "leaves"}]
         /\ b.references \in [Beings -> Int]
         /\ b.toRelease \in [Beings -> Nat]
BY DEF Books

\* How many lists one is in is a number.
LEMMA ListingIs ==
  ASSUME NEW f, NEW c
  PROVE  /\ IsFiniteSet(Listing(f, c))
         /\ Cardinality(Listing(f, c)) \in Nat
         /\ (Cardinality(Listing(f, c)) = 0 <=>
                \A m \in Monsters : c \notin f[m])
<1>1. Listing(f, c) \subseteq Monsters
  BY DEF Listing
<1>2. IsFiniteSet(Listing(f, c))
  BY <1>1, BeingsAre, FS_Subset
<1>3. Cardinality(Listing(f, c)) \in Nat
  BY <1>2, FS_CardinalityType
<1>4. Cardinality(Listing(f, c)) = 0 <=> Listing(f, c) = {}
  BY <1>2, FS_EmptySet
<1>5. Listing(f, c) = {} <=> \A m \in Monsters : c \notin f[m]
  BY DEF Listing
<1> QED
  BY <1>2, <1>3, <1>4, <1>5

\* One list changes.
LEMMA ListingChanged ==
  ASSUME NEW f, NEW g, NEW c, NEW m \in Monsters,
         \A x \in Monsters \ {m} : g[x] = f[x]
  PROVE  Cardinality(Listing(g, c)) =
            Cardinality(Listing(f, c)) - In(c, f[m]) + In(c, g[m])
<1> DEFINE F == Listing(f, c)
           G == Listing(g, c)
<1>0. /\ IsFiniteSet(F) /\ Cardinality(F) \in Nat
      /\ IsFiniteSet(G) /\ Cardinality(G) \in Nat
  BY ListingIs
<1>1. /\ m \in F <=> c \in f[m]
      /\ m \in G <=> c \in g[m]
      /\ F \ {m} = G \ {m}
  BY DEF Listing
<1> HIDE DEF F, G
<1>2. Cardinality(F \ {m}) = Cardinality(F) - In(m, F)
      /\ Cardinality(G \ {m}) = Cardinality(G) - In(m, G)
  <2>1. \A s : IsFiniteSet(s) => Cardinality(s \ {m}) = 
            IF m \in s THEN Cardinality(s) - 1 ELSE Cardinality(s)
    BY FS_RemoveElement
  <2> QED
    BY <1>0, <2>1 DEF In
<1>3. Cardinality(G) = Cardinality(F) - In(m, F) + In(m, G)
  <2> DEFINE k == Cardinality(F \ {m})
  <2>1. k = Cardinality(F) - In(m, F) /\ k = Cardinality(G) - In(m, G)
    BY <1>1, <1>2
  <2> HIDE DEF k
  <2> QED
    BY <1>0, <2>1 DEF In
<1> QED
  BY <1>1, <1>3 DEF F, G, In

\* What is held is a number, and each hold counts.
LEMMA HeldIs ==
  ASSUME NEW b \in Books, NEW c \in Beings
  PROVE  /\ HeldIn(b, c) \in Nat
         /\ HeldIn(b, c) = 0 <=>
                /\ b.life[c] # "placed" /\ b.check[c] = "none"
                /\ b.master[c] = NoCreature /\ b.toRelease[c] = 0
                /\ \A m \in Monsters : c \notin b.friends[m]
                /\ \A m \in Monsters : c \notin b.targets[m]
<1> DEFINE F == Cardinality(Listing(b.friends, c))
           T == Cardinality(Listing(b.targets, c))
<1>1. /\ F \in Nat /\ (F = 0 <=> \A m \in Monsters : c \notin b.friends[m])
      /\ T \in Nat /\ (T = 0 <=> \A m \in Monsters : c \notin b.targets[m])
  BY ListingIs
<1>2. b.toRelease[c] \in Nat
  BY BooksAre
<1>3. HeldIn(b, c) = Stands(b, c) + Checks(b, c)
        + Serves(b, c) + b.toRelease[c] + F + T
  BY DEF HeldIn
<1> DEFINE L == Stands(b, c)
           K == Checks(b, c)
           M == Serves(b, c)
<1>5. /\ L \in Nat /\ (L = 0 <=> b.life[c] # "placed")
      /\ K \in Nat /\ (K = 0 <=> b.check[c] = "none")
      /\ M \in Nat /\ (M = 0 <=> b.master[c] = NoCreature)
  BY DEF Stands, Checks, Serves
<1> HIDE DEF F, T, L, K, M
<1>6. HeldIn(b, c) = L + K + M + b.toRelease[c] + F + T
  BY <1>3 DEF L, K, M
<1> DEFINE R == b.toRelease[c]
           H == HeldIn(b, c)
<1>7. /\ H \in Nat /\ R \in Nat
      /\ H = 0 <=> L = 0 /\ K = 0 /\ M = 0 /\ R = 0 /\ F = 0 /\ T = 0
  <2>1. R \in Nat /\ H = L + K + M + R + F + T
    BY <1>2, <1>6
  <2> HIDE DEF R, H
  <2> QED
    BY <1>1, <1>5, <2>1
<1> QED
  BY <1>1, <1>5, <1>7

-----------------------------------------------------------------------------
\* w is what b becomes when only the lists, the sleep and the check of the
\* monster m change.
Touched(b, w, m) ==
    /\ w \in Books
    /\ w.life = b.life /\ w.room = b.room /\ w.healthy = b.healthy
    /\ w.master = b.master /\ w.attacked = b.attacked
    /\ w.toRelease = b.toRelease
    /\ \A x \in Monsters \ {m} : /\ w.friends[x] = b.friends[x]
                                 /\ w.targets[x] = b.targets[x]
                                 /\ w.isIdle[x] = b.isIdle[x]
    /\ \A c \in Beings \ {m} : w.check[c] = b.check[c]

\* The references change with them.
Recounts(b, w, m) ==
    /\ \A c \in Beings :
        w.references[c] = b.references[c]
            - In(c, b.friends[m]) + In(c, w.friends[m])
            - In(c, b.targets[m]) + In(c, w.targets[m])
            + (IF c = m THEN Checks(w, m)
                                - Checks(b, m) ELSE 0)
    /\ \A c \in Beings : b.life[c] \in {"unborn", "freed"} =>
                            w.references[c] <= b.references[c]

\* What changes in the lists of one is counted.
LEMMA TouchedIsGood ==
  ASSUME NEW b, Good(b), NEW m \in Monsters, NEW w, Touched(b, w, m),
         Recounts(b, w, m)
  PROVE  Good(w)
<1>1. ASSUME NEW c \in Beings
      PROVE  /\ w.references[c] = HeldIn(w, c)
             /\ w.life[c] \in {"unborn", "freed"} => w.references[c] = 0
  <2> DEFINE F == Cardinality(Listing(b.friends, c))
             T == Cardinality(Listing(b.targets, c))
             G == Cardinality(Listing(w.friends, c))
             U == Cardinality(Listing(w.targets, c))
  <2>1. F \in Nat /\ T \in Nat /\ G \in Nat /\ U \in Nat
    BY ListingIs
  <2> DEFINE f == b.friends
             g == w.friends
             t == b.targets
             u == w.targets
  <2>1a. \A x \in Monsters \ {m} : g[x] = f[x] /\ u[x] = t[x]
    BY DEF Touched
  <2> HIDE DEF f, g, t, u
  <2>2. /\ G = F - In(c, f[m]) + In(c, g[m])
        /\ U = T - In(c, t[m]) + In(c, u[m])
    <3>1. Cardinality(Listing(g, c)) =
            Cardinality(Listing(f, c)) - In(c, f[m]) + In(c, g[m])
      BY <2>1a, ListingChanged
    <3>2. Cardinality(Listing(u, c)) =
            Cardinality(Listing(t, c)) - In(c, t[m]) + In(c, u[m])
      BY <2>1a, ListingChanged
    <3> QED
      BY <3>1, <3>2 DEF f, g, t, u
  <2>3. b.references[c] = HeldIn(b, c) /\ b \in Books
    BY DEF Good, Counted
  <2>4. /\ b.toRelease[c] \in Nat /\ w.toRelease[c] = b.toRelease[c]
        /\ w.life[c] = b.life[c] /\ w.master[c] = b.master[c]
        /\ w.check[c] = b.check[c] \/ c = m
    BY <2>3, BooksAre DEF Touched
  <2>5. /\ HeldIn(b, c) = Stands(b, c) + Checks(b, c)
                + Serves(b, c) + b.toRelease[c] + F + T
        /\ HeldIn(w, c) = Stands(b, c) + Checks(w, c)
                + Serves(b, c) + b.toRelease[c] + G + U
    BY <2>4 DEF HeldIn, Stands, Checks, Serves
  <2> DEFINE lf == In(c, f[m])
             lg == In(c, g[m])
             lt == In(c, t[m])
             lu == In(c, u[m])
             k == Checks(b, c)
             l == Checks(w, c)
             p == Stands(b, c)
             a == Serves(b, c)
  <2>6. w.references[c] = b.references[c] - lf + lg - lt + lu
                            + (IF c = m THEN l - k ELSE 0)
    BY DEF Recounts, f, g, t, u
  <2>6a. /\ lf \in Int /\ lg \in Int /\ lt \in Int /\ lu \in Int
         /\ k \in Int /\ l \in Int /\ p \in Int /\ a \in Int
         /\ c # m => k = l
    BY <2>4 DEF In, Stands, Checks, Serves
  <2> HIDE DEF F, T, G, U, lf, lg, lt, lu, k, l, p, a
  <2>6b. /\ G = F - lf + lg /\ U = T - lt + lu
         /\ HeldIn(b, c) = p + k + a + b.toRelease[c] + F + T
         /\ HeldIn(w, c) = p + l + a + b.toRelease[c] + G + U
    BY <2>2, <2>5 DEF lf, lg, lt, lu, k, l, p, a
  <2>7. w.references[c] = HeldIn(w, c)
    BY <2>1, <2>3, <2>4, <2>6, <2>6a, <2>6b
  <2>8. HeldIn(w, c) \in Nat
    BY HeldIs DEF Touched
  <2>9. w.life[c] \in {"unborn", "freed"} =>
            w.references[c] <= b.references[c] /\ b.references[c] = 0
    BY <2>4 DEF Recounts, Good, Counted
  <2> QED
    BY <2>7, <2>8, <2>9
<1> QED
  BY <1>1 DEF Good, Counted, Touched

\* Nothing changes in the lists, and the references change with the rest.
LEMMA CountedAnew ==
  ASSUME NEW b, Good(b), NEW w, w \in Books,
         w.friends = b.friends, w.targets = b.targets,
         \A c \in Beings :
            /\ w.references[c] = b.references[c]
                    + (Stands(w, c) - Stands(b, c))
                    + (Checks(w, c) - Checks(b, c))
                    + (Serves(w, c) - Serves(b, c))
                    + (w.toRelease[c] - b.toRelease[c])
            /\ w.life[c] \in {"unborn", "freed"} => w.references[c] = 0
  PROVE  Good(w)
<1>1. ASSUME NEW c \in Beings PROVE w.references[c] = HeldIn(w, c)
  <2> DEFINE F == Cardinality(Listing(b.friends, c))
             T == Cardinality(Listing(b.targets, c))
  <2>1. F \in Nat /\ T \in Nat
    BY ListingIs
  <2>2. /\ b.toRelease[c] \in Nat /\ w.toRelease[c] \in Nat
        /\ b.references[c] = HeldIn(b, c)
    BY BooksAre DEF Good, Counted
  <2>3. /\ Stands(b, c) \in Nat /\ Stands(w, c) \in Nat
        /\ Checks(b, c) \in Nat /\ Checks(w, c) \in Nat
        /\ Serves(b, c) \in Nat /\ Serves(w, c) \in Nat
    BY DEF Stands, Checks, Serves
  <2>4. /\ HeldIn(b, c) = Stands(b, c) + Checks(b, c) + Serves(b, c)
                            + b.toRelease[c] + F + T
        /\ HeldIn(w, c) = Stands(w, c) + Checks(w, c) + Serves(w, c)
                            + w.toRelease[c] + F + T
    BY DEF HeldIn
  <2> HIDE DEF F, T
  <2> QED
    BY <2>1, <2>2, <2>3, <2>4
<1> QED
  BY <1>1 DEF Good, Counted

\* Who has a reference more is one that has some.
Known(b, c) == b.life[c] \in {"placed", "removed"}

\* w is b with other lists, sleep and check of m.
Became(b, w, m, friends, targets, isIdle, check) ==
    /\ Touched(b, w, m) /\ Good(w)
    /\ w.friends[m] = friends /\ w.targets[m] = targets
    /\ w.isIdle[m] = isIdle /\ w.check[m] = check

\* One after the other.
LEMMA BecameOnce ==
  ASSUME NEW b, NEW w, NEW v, NEW m, NEW F, NEW T, NEW I, NEW K,
         Touched(b, w, m), Became(w, v, m, F, T, I, K)
  PROVE  Became(b, v, m, F, T, I, K)
BY DEF Became, Touched

\* Nothing changes.
LEMMA BecameSame ==
  ASSUME NEW b, Good(b), NEW m
  PROVE  Became(b, b, m, b.friends[m], b.targets[m], b.isIdle[m], b.check[m])
BY DEF Became, Touched, Good

\* The books with another number of references.
LEMMA BooksCounted ==
  ASSUME NEW b \in Books, NEW c \in Beings, NEW n \in Int
  PROVE  [b EXCEPT !.references[c] = n] \in Books
<1> DEFINE r == [b.references EXCEPT ![c] = n]
<1>1. r \in [Beings -> Int]
  BY BooksAre
<1>2. [b EXCEPT !.references[c] = n] = [b EXCEPT !.references = r]
  OBVIOUS
<1> HIDE DEF r
<1> QED
  BY Zenon, <1>1, <1>2 DEF Books

\* The books with another list.
LEMMA BooksListed ==
  ASSUME NEW b \in Books, NEW m \in Monsters, NEW S \in SUBSET Beings
  PROVE  /\ [b EXCEPT !.friends[m] = S] \in Books
         /\ [b EXCEPT !.targets[m] = S] \in Books
<1> DEFINE r == [b.friends EXCEPT ![m] = S]
           t == [b.targets EXCEPT ![m] = S]
<1>1. r \in [Monsters -> SUBSET Beings] /\ t \in [Monsters -> SUBSET Beings]
  BY BooksAre
<1>2. /\ [b EXCEPT !.friends[m] = S] = [b EXCEPT !.friends = r]
      /\ [b EXCEPT !.targets[m] = S] = [b EXCEPT !.targets = t]
  OBVIOUS
<1> HIDE DEF r, t
<1> QED
  BY Zenon, <1>1, <1>2 DEF Books

\* A reference more or less.
LEMMA RefIs ==
  ASSUME NEW b \in Books, NEW c \in Beings
  PROVE  /\ Ref(b, c) \in Books
         /\ Ref(b, c) = [b EXCEPT !.references[c] = @ + 1]
         /\ Unref(b, c) \in Books
         /\ Unref(b, c) = [b EXCEPT !.references[c] = @ - 1]
<1> DEFINE n == b.references[c]
<1>1. n + 1 \in Int /\ n - 1 \in Int
  BY BooksAre
<1> HIDE DEF n
<1>2. /\ [b EXCEPT !.references[c] = n + 1] \in Books
      /\ [b EXCEPT !.references[c] = n - 1] \in Books
  BY <1>1, BooksCounted
<1> QED
  BY <1>2 DEF Ref, Unref, n

\* A friend more.
LEMMA AddFriendIs ==
  ASSUME NEW b, Good(b), NEW m \in Monsters, NEW c \in Beings, Known(b, c)
  PROVE  Became(b, AddFriend(b, m, c), m, b.friends[m] \cup {c},
                b.targets[m], b.isIdle[m], b.check[m])
<1> DEFINE w == AddFriend(b, m, c)
<1>0. b \in Books /\ m \in Beings
  BY BeingsAre DEF Good
<1>1. CASE c \in b.friends[m]
  <2>1. w = b /\ b.friends[m] = b.friends[m] \cup {c}
    BY <1>1 DEF AddFriend
  <2> QED
    BY Zenon, <2>1, BecameSame
<1>2. CASE c \notin b.friends[m]
  <2>1. w = [Ref(b, c) EXCEPT !.friends[m] = @ \cup {c}]
    BY <1>2 DEF AddFriend
  <2>2. Touched(b, w, m)
    <3>1. Ref(b, c) \in Books /\ Ref(b, c) = [b EXCEPT !.references[c] = @ + 1]
      BY Zenon, <1>0, RefIs
    <3> DEFINE v == Ref(b, c)
    <3> HIDE DEF v
    <3>2. w = [v EXCEPT !.friends[m] = @ \cup {c}] /\ v \in Books
      BY <2>1, <3>1 DEF v
    <3>3. w \in Books
      <4> HIDE DEF w
      <4> QED
        BY Zenon, <3>2, BooksListed, BooksAre
    <3> QED
      BY <1>0, <3>1, <3>2, <3>3 DEF Touched, Books, v
  <2>3. /\ w.friends[m] = b.friends[m] \cup {c}
        /\ w.targets[m] = b.targets[m] /\ w.isIdle[m] = b.isIdle[m]
        /\ w.check[m] = b.check[m]
        /\ w.references = [b.references EXCEPT ![c] = @ + 1]
    BY <1>0, <2>1 DEF Ref, Books
  <2> HIDE DEF w
  <2>4. Recounts(b, w, m)
    <3>1. \A x \in Beings : b.references[x] \in Int
      BY <1>0, BooksAre
    <3> QED
      BY <1>0, <1>2, <2>3, <3>1, BooksAre
         DEF Recounts, In, Known, Checks
  <2> QED
    BY <2>2, <2>3, <2>4, TouchedIsGood DEF Became, w
<1> QED
  BY <1>1, <1>2

\* A target more.
LEMMA AddTargetIs ==
  ASSUME NEW b, Good(b), NEW m \in Monsters, NEW c \in Beings, Known(b, c)
  PROVE  Became(b, AddTarget(b, m, c), m, b.friends[m],
                b.targets[m] \cup {c}, b.isIdle[m], b.check[m])
<1> DEFINE w == AddTarget(b, m, c)
<1>0. b \in Books /\ m \in Beings
  BY BeingsAre DEF Good
<1>1. CASE c \in b.targets[m]
  <2>1. w = b /\ b.targets[m] = b.targets[m] \cup {c}
    BY <1>1 DEF AddTarget
  <2> QED
    BY Zenon, <2>1, BecameSame
<1>2. CASE c \notin b.targets[m]
  <2>1. w = [Ref(b, c) EXCEPT !.targets[m] = @ \cup {c}]
    BY <1>2 DEF AddTarget
  <2>2. Touched(b, w, m)
    <3>1. Ref(b, c) \in Books /\ Ref(b, c) = [b EXCEPT !.references[c] = @ + 1]
      BY Zenon, <1>0, RefIs
    <3> DEFINE v == Ref(b, c)
    <3> HIDE DEF v
    <3>2. w = [v EXCEPT !.targets[m] = @ \cup {c}] /\ v \in Books
      BY <2>1, <3>1 DEF v
    <3>3. w \in Books
      <4> HIDE DEF w
      <4> QED
        BY Zenon, <3>2, BooksListed, BooksAre
    <3> QED
      BY <1>0, <3>1, <3>2, <3>3 DEF Touched, Books, v
  <2>3. /\ w.targets[m] = b.targets[m] \cup {c}
        /\ w.friends[m] = b.friends[m] /\ w.isIdle[m] = b.isIdle[m]
        /\ w.check[m] = b.check[m]
        /\ w.references = [b.references EXCEPT ![c] = @ + 1]
    BY <1>0, <2>1 DEF Ref, Books
  <2> HIDE DEF w
  <2>4. Recounts(b, w, m)
    <3>1. \A x \in Beings : b.references[x] \in Int
      BY <1>0, BooksAre
    <3> QED
      BY <1>0, <1>2, <2>3, <3>1, BooksAre
         DEF Recounts, In, Known, Checks
  <2> QED
    BY <2>2, <2>3, <2>4, TouchedIsGood DEF Became, w
<1> QED
  BY <1>1, <1>2

\* A friend less.
LEMMA RemoveFriendIs ==
  ASSUME NEW b, Good(b), NEW m \in Monsters, NEW c \in Beings
  PROVE  Became(b, RemoveFriend(b, m, c), m, b.friends[m] \ {c},
                b.targets[m], b.isIdle[m], b.check[m])
<1> DEFINE w == RemoveFriend(b, m, c)
<1>0. b \in Books /\ m \in Beings
  BY BeingsAre DEF Good
<1>1. CASE c \notin b.friends[m]
  <2>1. w = b /\ b.friends[m] = b.friends[m] \ {c}
    BY <1>1 DEF RemoveFriend
  <2> QED
    BY Zenon, <2>1, BecameSame
<1>2. CASE c \in b.friends[m]
  <2>1. w = [Unref(b, c) EXCEPT !.friends[m] = @ \ {c}]
    BY <1>2 DEF RemoveFriend
  <2>2. Touched(b, w, m)
    <3>1. /\ Unref(b, c) \in Books
          /\ Unref(b, c) = [b EXCEPT !.references[c] = @ - 1]
      BY Zenon, <1>0, RefIs
    <3> DEFINE v == Unref(b, c)
    <3> HIDE DEF v
    <3>2. w = [v EXCEPT !.friends[m] = @ \ {c}] /\ v \in Books
      BY <2>1, <3>1 DEF v
    <3>3. w \in Books
      <4> HIDE DEF w
      <4> QED
        BY Zenon, <3>2, BooksListed, BooksAre
    <3> QED
      BY <1>0, <3>1, <3>2, <3>3 DEF Touched, Books, v
  <2>3. /\ w.friends[m] = b.friends[m] \ {c}
        /\ w.targets[m] = b.targets[m] /\ w.isIdle[m] = b.isIdle[m]
        /\ w.check[m] = b.check[m]
        /\ w.references = [b.references EXCEPT ![c] = @ - 1]
    BY <1>0, <2>1 DEF Unref, Books
  <2> HIDE DEF w
  <2>4. Recounts(b, w, m)
    <3>1. \A x \in Beings : b.references[x] \in Int
      BY <1>0, BooksAre
    <3> QED
      BY <1>0, <1>2, <2>3, <3>1, BooksAre
         DEF Recounts, In, Checks
  <2> QED
    BY <2>2, <2>3, <2>4, TouchedIsGood DEF Became, w
<1> QED
  BY <1>1, <1>2

\* A target less.
LEMMA RemoveTargetIs ==
  ASSUME NEW b, Good(b), NEW m \in Monsters, NEW c \in Beings
  PROVE  Became(b, RemoveTarget(b, m, c), m, b.friends[m],
                b.targets[m] \ {c}, b.isIdle[m], b.check[m])
<1> DEFINE w == RemoveTarget(b, m, c)
<1>0. b \in Books /\ m \in Beings
  BY BeingsAre DEF Good
<1>1. CASE c \notin b.targets[m]
  <2>1. w = b /\ b.targets[m] = b.targets[m] \ {c}
    BY <1>1 DEF RemoveTarget
  <2> QED
    BY Zenon, <2>1, BecameSame
<1>2. CASE c \in b.targets[m]
  <2>1. w = [Unref(b, c) EXCEPT !.targets[m] = @ \ {c}]
    BY <1>2 DEF RemoveTarget
  <2>2. Touched(b, w, m)
    <3>1. /\ Unref(b, c) \in Books
          /\ Unref(b, c) = [b EXCEPT !.references[c] = @ - 1]
      BY Zenon, <1>0, RefIs
    <3> DEFINE v == Unref(b, c)
    <3> HIDE DEF v
    <3>2. w = [v EXCEPT !.targets[m] = @ \ {c}] /\ v \in Books
      BY <2>1, <3>1 DEF v
    <3>3. w \in Books
      <4> HIDE DEF w
      <4> QED
        BY Zenon, <3>2, BooksListed, BooksAre
    <3> QED
      BY <1>0, <3>1, <3>2, <3>3 DEF Touched, Books, v
  <2>3. /\ w.targets[m] = b.targets[m] \ {c}
        /\ w.friends[m] = b.friends[m] /\ w.isIdle[m] = b.isIdle[m]
        /\ w.check[m] = b.check[m]
        /\ w.references = [b.references EXCEPT ![c] = @ - 1]
    BY <1>0, <2>1 DEF Unref, Books
  <2> HIDE DEF w
  <2>4. Recounts(b, w, m)
    <3>1. \A x \in Beings : b.references[x] \in Int
      BY <1>0, BooksAre
    <3>2. /\ \A x \in Beings : x # c => w.references[x] = b.references[x]
          /\ w.references[c] = b.references[c] - 1
      BY <1>0, <2>3, BooksAre
    <3>3. \A x \in Beings : w.references[x] <= b.references[x]
      BY <3>1, <3>2
    <3>4. ASSUME NEW x \in Beings
          PROVE  /\ In(x, w.friends[m]) = In(x, b.friends[m])
                 /\ In(x, w.targets[m]) = In(x, b.targets[m])
                                            - (IF x = c THEN 1 ELSE 0)
      BY <1>2, <2>3 DEF In
    <3>5. Checks(w, m) = Checks(b, m)
      BY <2>3 DEF Checks
    <3> QED
      BY <1>2, <2>3, <3>1, <3>2, <3>3, <3>4, <3>5 DEF Recounts, In, Checks
  <2> QED
    BY <2>2, <2>3, <2>4, TouchedIsGood DEF Became, w
<1> QED
  BY <1>1, <1>2

\* How often one is in the lists of m.
LEMMA ClearedReferenceIs ==
  ASSUME NEW b, NEW m, NEW c
  PROVE  ClearedReference(b, m, c) = In(c, b.friends[m]) + In(c, b.targets[m])
<1>1. ASSUME NEW S PROVE Cardinality({i \in {1} : c \in S}) = In(c, S)
  <2>1. CASE c \in S
    <3>1. {i \in {1} : c \in S} = {1}
      BY <2>1
    <3> QED
      BY Zenon, <2>1, <3>1, FS_Singleton DEF In
  <2>2. CASE c \notin S
    <3>1. {i \in {1} : c \in S} = {}
      BY <2>2
    <3> QED
      BY <2>2, <3>1, FS_EmptySet DEF In
  <2> QED
    BY <2>1, <2>2
<1> DEFINE F == b.friends[m]
           T == b.targets[m]
<1>2. ClearedReference(b, m, c) = Cardinality({i \in {1} : c \in F})
                                    + Cardinality({i \in {1} : c \in T})
  BY DEF ClearedReference
<1> HIDE DEF F, T
<1>3. Cardinality({i \in {1} : c \in F}) = In(c, F)
      /\ Cardinality({i \in {1} : c \in T}) = In(c, T)
  BY <1>1, Zenon
<1> QED
  BY <1>2, <1>3 DEF F, T

\* No lists any more.
LEMMA ClearListsIs ==
  ASSUME NEW b, Good(b), NEW m \in Monsters
  PROVE  Became(b, ClearLists(b, m), m, {}, {}, b.isIdle[m], b.check[m])
<1> DEFINE w == ClearLists(b, m)
           n == [c \in Beings |-> b.references[c] - In(c, b.friends[m])
                                                  - In(c, b.targets[m])]
<1>0. b \in Books /\ m \in Beings
  BY BeingsAre DEF Good
<1>1. n \in [Beings -> Int]
  <2>1. \A c \in Beings : b.references[c] \in Int
    BY <1>0, BooksAre
  <2> QED
    BY <2>1 DEF In
<1>2. w = [b EXCEPT !.references = n, !.friends[m] = {}, !.targets[m] = {}]
  <2> DEFINE r == [c \in Beings |->
                        b.references[c] - ClearedReference(b, m, c)]
  <2>1. r = n
    <3> SUFFICES ASSUME NEW c \in Beings
        PROVE  b.references[c] - ClearedReference(b, m, c)
                = b.references[c] - In(c, b.friends[m]) - In(c, b.targets[m])
      OBVIOUS
    <3>1. b.references[c] \in Int
      BY <1>0, BooksAre
    <3> DEFINE i == In(c, b.friends[m])
               j == In(c, b.targets[m])
    <3>2. i \in Int /\ j \in Int /\ ClearedReference(b, m, c) = i + j
      BY ClearedReferenceIs DEF In
    <3> HIDE DEF i, j
    <3>3. b.references[c] - ClearedReference(b, m, c) = b.references[c] - i - j
      BY <3>1, <3>2
    <3> QED
      BY <3>3 DEF i, j
  <2> HIDE DEF n
  <2>2. w = [b EXCEPT !.references = r, !.friends[m] = {}, !.targets[m] = {}]
    BY DEF ClearLists
  <2> QED
    BY Zenon, <2>1, <2>2
<1> HIDE DEF w, n
<1>3. Touched(b, w, m)
  BY Zenon, <1>0, <1>1, <1>2 DEF Touched, Books
<1>4. /\ w.friends[m] = {} /\ w.targets[m] = {}
      /\ w.isIdle[m] = b.isIdle[m] /\ w.check[m] = b.check[m]
      /\ w.references = n
  BY <1>0, <1>2 DEF Books
<1>5. Recounts(b, w, m)
  <2>1. \A x \in Beings : b.references[x] \in Int
    BY <1>0, BooksAre
  <2>2. \A c \in Beings : n[c] = b.references[c] - In(c, b.friends[m])
                                                 - In(c, b.targets[m])
    BY DEF n
  <2> QED
    BY <1>0, <1>4, <2>1, <2>2 DEF Recounts, In, Checks
<1> QED
  BY <1>3, <1>4, <1>5, TouchedIsGood DEF Became, w

\* One that is on the map is checked.
LEMMA AddCheckIs ==
  ASSUME NEW b, Good(b), NEW m \in Beings, Known(b, m)
  PROVE  Became(b, AddCheck(b, m), m, b.friends[m], b.targets[m],
                b.isIdle[m], "thinks")
<1> DEFINE w == AddCheck(b, m)
<1>0. b \in Books
  BY DEF Good
<1>1. /\ w \in Books /\ Touched(b, w, m)
      /\ w.friends = b.friends /\ w.targets = b.targets
      /\ w.isIdle = b.isIdle /\ w.check[m] = "thinks"
      /\ w.life = b.life /\ w.master = b.master
      /\ w.toRelease = b.toRelease
      /\ w.references = IF b.check[m] = "none"
                        THEN [b.references EXCEPT ![m] = @ + 1]
                        ELSE b.references
  <2> DEFINE r == Ref(b, m)
  <2>0. r \in Books /\ r = [b EXCEPT !.references[m] = @ + 1]
    BY <1>0, RefIs
  <2>1. w = IF b.check[m] = "none" THEN [r EXCEPT !.check[m] = "thinks"]
            ELSE [b EXCEPT !.check[m] = "thinks"]
    BY DEF AddCheck
  <2> HIDE DEF r, w
  <2>2. CASE b.check[m] = "none"
    BY Zenon, <1>0, <2>0, <2>1, <2>2 DEF Books, Touched
  <2>3. CASE b.check[m] # "none"
    BY Zenon, <1>0, <2>1, <2>3 DEF Books, Touched
  <2> QED
    BY <2>2, <2>3
<1> HIDE DEF w
<1>2. \A c \in Beings : b.references[c] \in Int /\ b.toRelease[c] \in Nat
  BY <1>0, BooksAre
<1>3. \A c \in Beings :
            /\ w.references[c] = b.references[c]
                    + (Stands(w, c) - Stands(b, c))
                    + (Checks(w, c) - Checks(b, c))
                    + (Serves(w, c) - Serves(b, c))
                    + (w.toRelease[c] - b.toRelease[c])
            /\ w.life[c] \in {"unborn", "freed"} => w.references[c] = 0
  BY <1>0, <1>1, <1>2, BooksAre
     DEF Stands, Checks, Serves, Known, Touched, Good, Counted
<1>4. Good(w)
  BY Zenon, <1>1, <1>3, CountedAnew
<1> QED
  BY <1>1, <1>4 DEF Became, w

\* One that is checked is to leave the list.
LEMMA RemoveCheckIs ==
  ASSUME NEW b, Good(b), NEW m \in Beings
  PROVE  Became(b, RemoveCheck(b, m), m, b.friends[m], b.targets[m],
                b.isIdle[m],
                IF b.check[m] = "none" THEN "none" ELSE "leaves")
<1> DEFINE w == RemoveCheck(b, m)
<1>0. b \in Books
  BY DEF Good
<1>1. /\ w \in Books /\ Touched(b, w, m)
      /\ w.friends = b.friends /\ w.targets = b.targets
      /\ w.isIdle = b.isIdle
      /\ w.check[m] = IF b.check[m] = "none" THEN "none" ELSE "leaves"
      /\ w.life = b.life /\ w.master = b.master
      /\ w.toRelease = b.toRelease
      /\ w.references = b.references
  BY Zenon, <1>0 DEF RemoveCheck, Books, Touched
<1> HIDE DEF w
<1>2. \A c \in Beings : b.references[c] \in Int /\ b.toRelease[c] \in Nat
  BY <1>0, BooksAre
<1>3. \A c \in Beings :
            /\ w.references[c] = b.references[c]
                    + (Stands(w, c) - Stands(b, c))
                    + (Checks(w, c) - Checks(b, c))
                    + (Serves(w, c) - Serves(b, c))
                    + (w.toRelease[c] - b.toRelease[c])
            /\ w.life[c] \in {"unborn", "freed"} => w.references[c] = 0
  BY <1>0, <1>1, <1>2, BooksAre
     DEF Stands, Checks, Serves, Touched, Good, Counted
<1>4. Good(w)
  BY <1>1, <1>3, CountedAnew
<1> QED
  BY <1>1, <1>4 DEF Became, w

\* It falls asleep or wakes up.
LEMMA SetIdleIs ==
  ASSUME NEW b, Good(b), NEW m \in Monsters, Known(b, m),
         NEW idle \in BOOLEAN
  PROVE  IF b.life[m] = "removed" \/ ~b.healthy[m]
         THEN SetIdle(b, m, idle) = b
         ELSE IF idle
         THEN Became(b, SetIdle(b, m, idle), m, {}, {}, TRUE,
                     IF b.check[m] = "none" THEN "none" ELSE "leaves")
         ELSE Became(b, SetIdle(b, m, idle), m, b.friends[m], b.targets[m],
                     FALSE, "thinks")
<1>0. b \in Books /\ m \in Beings
  BY BeingsAre DEF Good
<1>1. CASE b.life[m] = "removed" \/ ~b.healthy[m]
  BY Zenon, <1>1 DEF SetIdle
<1>2. CASE ~(b.life[m] = "removed" \/ ~b.healthy[m])
  <2> DEFINE s == [b EXCEPT !.isIdle[m] = idle]
  <2>1. /\ s \in Books /\ Touched(b, s, m) /\ s.life = b.life
        /\ s.friends = b.friends /\ s.targets = b.targets
        /\ s.isIdle[m] = idle /\ s.check = b.check
        /\ s.references = b.references /\ s.master = b.master
        /\ s.toRelease = b.toRelease
    BY Zenon, <1>0 DEF Books, Touched
  <2>2. SetIdle(b, m, idle) = IF idle THEN RemoveCheck(ClearLists(s, m), m)
                              ELSE AddCheck(s, m)
    BY <1>2 DEF SetIdle
  <2> HIDE DEF s
  <2>3. Good(s) /\ Known(s, m)
    <3>1. \A c \in Beings : b.references[c] \in Int /\ b.toRelease[c] \in Nat
      BY <1>0, BooksAre
    <3>2. \A c \in Beings :
            /\ s.references[c] = b.references[c]
                    + (Stands(s, c) - Stands(b, c))
                    + (Checks(s, c) - Checks(b, c))
                    + (Serves(s, c) - Serves(b, c))
                    + (s.toRelease[c] - b.toRelease[c])
            /\ s.life[c] \in {"unborn", "freed"} => s.references[c] = 0
      BY <2>1, <3>1 DEF Stands, Checks, Serves, Good, Counted
    <3> QED
      BY <2>1, <3>2, CountedAnew DEF Known
  <2>4. CASE idle
    <3> DEFINE v == ClearLists(s, m)
    <3>1. Became(s, v, m, {}, {}, s.isIdle[m], s.check[m])
      BY <2>3, ClearListsIs
    <3> HIDE DEF v
    <3>2. Became(v, RemoveCheck(v, m), m, v.friends[m], v.targets[m],
                 v.isIdle[m], IF v.check[m] = "none" THEN "none" ELSE "leaves")
      BY <1>0, <3>1, RemoveCheckIs DEF Became
    <3>3. Became(v, RemoveCheck(v, m), m, {}, {}, TRUE,
                 IF b.check[m] = "none" THEN "none" ELSE "leaves")
      BY <2>1, <2>4, <3>1, <3>2 DEF Became
    <3>4. Touched(b, v, m)
      BY <2>1, <3>1 DEF Became, Touched
    <3>5. Became(b, RemoveCheck(v, m), m, {}, {}, TRUE,
                 IF b.check[m] = "none" THEN "none" ELSE "leaves")
      BY Zenon, <3>3, <3>4, BecameOnce
    <3> QED
      BY Zenon, <1>2, <2>2, <2>4, <3>5 DEF v
  <2>5. CASE ~idle
    <3>1. Became(s, AddCheck(s, m), m, s.friends[m], s.targets[m],
                 s.isIdle[m], "thinks")
      BY <1>0, <2>3, AddCheckIs
    <3>2. Became(s, AddCheck(s, m), m, b.friends[m], b.targets[m],
                 FALSE, "thinks")
      BY <2>1, <2>5, <3>1 DEF Became
    <3>3. Became(b, AddCheck(s, m), m, b.friends[m], b.targets[m],
                 FALSE, "thinks")
      BY Zenon, <2>1, <3>2, BecameOnce
    <3> QED
      BY Zenon, <1>2, <2>2, <2>5, <3>3
  <2> QED
    BY Zenon, <2>4, <2>5
<1> QED
  BY Zenon, <1>1, <1>2

(* f goes from base from the left, as long as it stays in D. *)
GoesFromLeft(f, S, D, base, op) ==
    /\ f[{}] = base
    /\ \A s \in SUBSET S : s # {} /\ f[s \ {Latest(s)}] \in D
                => f[s] = op[<<Latest(s), f[s \ {Latest(s)}]>>]

(* v is where n steps through D lead to from base. *)
HasSteps(n, D, base, op, v) ==
    \E h \in [0 .. n -> D] : StepByStep(h, n, base, op) /\ v = h[n]

\* What a fold from the left gives, step by step.
LEMMA LeftSteps ==
  ASSUME NEW n \in Nat, NEW S, S = 1 .. n, NEW D, NEW base \in D,
         NEW op \in [S \X D -> D], NEW f, GoesFromLeft(f, S, D, base, op)
  PROVE  HasSteps(n, D, base, op, f[S])
<1> DEFINE h == [i \in 0 .. n |-> f[1 .. i]]
<1>1. /\ f[{}] = base
      /\ \A s \in SUBSET S : s # {} /\ f[s \ {Latest(s)}] \in D
                => f[s] = op[<<Latest(s), f[s \ {Latest(s)}]>>]
  BY DEF GoesFromLeft
<1>2. ASSUME NEW i \in 1 .. n, f[1 .. (i - 1)] \in D
      PROVE  f[1 .. i] = op[<<i, f[1 .. (i - 1)]>>] /\ f[1 .. i] \in D
  <2>1. Latest(1 .. i) = i /\ (1 .. i) \ {i} = 1 .. (i - 1)
    BY LatestOfFirst
  <2>2. 1 .. i \in SUBSET S /\ 1 .. i # {}
    <3>1. i \in 1 .. i /\ \A j \in 1 .. i : j \in 1 .. n
      OBVIOUS
    <3> QED
      BY <3>1
  <2>3. f[1 .. i] = op[<<i, f[1 .. (i - 1)]>>]
    BY Zenon, <1>1, <1>2, <2>1, <2>2
  <2> QED
    BY <1>2, <2>3
<1>3. ASSUME NEW k \in 0 .. n PROVE f[1 .. k] \in D
  <2>0. k \in Nat
    OBVIOUS
  <2> DEFINE E == [i \in 0 .. k |-> D]
  <2>1. f[{}] \in E[0]
    BY <1>1
  <2>2. \A i \in 1 .. k : f[1 .. (i - 1)] \in E[i - 1] => f[1 .. i] \in E[i]
    <3> TAKE i \in 1 .. k
    <3>1. i \in 1 .. n /\ E[i - 1] = D /\ E[i] = D
      OBVIOUS
    <3> QED
      BY Zenon, <1>2, <3>1
  <2>3. f[1 .. k] \in E[k]
    <3> HIDE DEF E
    <3> QED
        BY Zenon, <2>0, <2>1, <2>2, LeftFits
  <2> QED
    BY <2>3
<1>4. h \in [0 .. n -> D]
  BY <1>3
<1>5. h[0] = base
  <2>1. 1 .. 0 = {}
    OBVIOUS
  <2> QED
    BY <1>1, <2>1
<1>6. \A i \in 1 .. n : h[i] = op[<<i, h[i - 1]>>]
  <2> TAKE i \in 1 .. n
  <2>1. i \in 0 .. n /\ i - 1 \in 0 .. n
    OBVIOUS
  <2>2. f[1 .. (i - 1)] \in D
    BY <1>3, <2>1
  <2> QED
    BY <1>1, <1>2, <2>1, <2>2
<1>7. h[n] = f[S]
  OBVIOUS
<1> HIDE DEF h
<1> QED
  BY <1>4, <1>5, <1>6, <1>7 DEF StepByStep, HasSteps

\* What goes on step by step stays in the sets that the steps lead through.
LEMMA StepsFit ==
  ASSUME NEW n \in Nat, NEW E, NEW h, h[0] \in E[0],
         \A i \in 1 .. n : h[i - 1] \in E[i - 1] => h[i] \in E[i]
  PROVE  h[n] \in E[n]
<1> DEFINE Fitting == {i \in Nat : i <= n => h[i] \in E[i]}
<1>1. ASSUME NEW i \in Nat, \A m \in Nat : m < i => m \in Fitting
      PROVE  i \in Fitting
  <2> SUFFICES ASSUME i <= n PROVE h[i] \in E[i]
    OBVIOUS
  <2>1. CASE i = 0
    BY <2>1
  <2>2. CASE i # 0
    <3>1. i - 1 \in Nat /\ i - 1 < i /\ i - 1 <= n /\ i \in 1 .. n
      BY <2>2
    <3>2. i - 1 \in Fitting
      <4> HIDE DEF Fitting
      <4> QED
        BY <1>1, <3>1
    <3> QED
      BY <3>1, <3>2
  <2> QED
    BY <2>1, <2>2
<1>2. Fitting \in SUBSET Nat
  OBVIOUS
<1>3. \A i \in Nat : i \in Fitting
  <2> HIDE DEF Fitting
  <2> QED
    BY <1>1, <1>2, AllNumbers
<1> QED
  BY <1>3

-----------------------------------------------------------------------------
\* The order in which all are told.
LEMMA OrderIs ==
  /\ Len(Order) \in Nat /\ DOMAIN Order = 1 .. Len(Order)
  /\ Len(Order) = Cardinality(Beings)
  /\ \A i \in 1 .. Len(Order) : Order[i] \in Beings
  /\ \A c \in Beings : \E i \in 1 .. Len(Order) : Order[i] = c
<1> DEFINE n == Cardinality(Beings)
           S == 1 .. n
<1>1. n \in Nat /\ ExistsBijection(S, Beings)
  BY BeingsAre, FS_CardinalityType, Zenon
<1>2. \E f \in [S -> Beings] : IsInjective(f)
  BY <1>1, Zenon DEF ExistsBijection, Bijection, Injection
<1>3. Order = CHOOSE f \in [S -> Beings] : IsInjective(f)
  BY DEF Order, SetToSeq
<1>4. IsFiniteSet(S) /\ Cardinality(S) = n
  BY <1>1, FS_Interval
<1> HIDE DEF S
<1>5. Order \in [S -> Beings] /\ IsInjective(Order)
  <2> DEFINE F == [S -> Beings]
  <2> HIDE DEF F
  <2>1. \E f \in F : IsInjective(f)
    BY <1>2 DEF F
  <2>2. Order = CHOOSE f \in F : IsInjective(f)
    BY <1>3 DEF F
  <2>3. Order \in F /\ IsInjective(Order)
    BY <2>1, <2>2, Zenon
  <2> QED
    BY <2>3 DEF F
<1>6. Order \in Injection(S, Beings)
  BY <1>5, Zenon DEF Injection
<1>7. Order \in Surjection(S, Beings)
  BY <1>4, <1>6, BeingsAre, FS_Injection, Zenon
<1>8. \A c \in Beings : \E i \in S : Order[i] = c
  BY <1>7, Fun_SurjectionProperties, Zenon
<1>9. DOMAIN Order = S /\ \A i \in S : Order[i] \in Beings
  BY <1>5
<1>10. Len(Order) = n
  BY <1>1, <1>5, IsASeq, LenProperties DEF S
<1> QED
  BY <1>1, <1>8, <1>9, <1>10 DEF S

-----------------------------------------------------------------------------
(* updateTargetList, one creature at a time. *)
OneForgets(b, w, m, c) ==
    IF ~b.healthy[c] \/ ~Sees(b, m, c)
    THEN RemoveTarget(RemoveFriend(w, m, c), m, c) ELSE w

OneFinds(w, m, c) == IF c # m /\ c \in Placed(w) THEN Found(w, m, c) ELSE w

ForgetAllOnce(g, s, b, m) ==
    IF s = {} THEN b
    ELSE OneForgets(b, g[s \ {Latest(s)}], m, Order[Latest(s)])

ForgetAll(b, m) ==
    (CHOOSE g : g = [s \in SUBSET DOMAIN Order |->
                        ForgetAllOnce(g, s, b, m)])[DOMAIN Order]

ForgetAllBy(h, D, b, m) ==
    /\ h \in [0 .. Len(Order) -> D]
    /\ h[0] = b /\ ForgetAll(b, m) = h[Len(Order)]
    /\ \A i \in 1 .. Len(Order) : h[i] = OneForgets(b, h[i - 1], m, Order[i])

\* Those out of sight are forgotten, one by one.
LEMMA ForgetAllSteps ==
  ASSUME NEW b, NEW m, NEW D, b \in D,
         \A w \in D : \A c \in Beings : OneForgets(b, w, m, c) \in D
  PROVE  \E h : ForgetAllBy(h, D, b, m)
<1> DEFINE n == Len(Order)
           S == 1 .. n
           op == [a \in S \X D |-> OneForgets(b, a[2], m, Order[a[1]])]
           f == CHOOSE g : g = [s \in SUBSET S |-> ForgetAllOnce(g, s, b, m)]
<1>1. n \in Nat /\ S = DOMAIN Order /\ \A i \in S : Order[i] \in Beings
  BY OrderIs
<1>2. ForgetAll(b, m) = f[S]
  BY Zenon, <1>1 DEF ForgetAll
<1>3. op \in [S \X D -> D] /\ \A i \in S : \A w \in D :
            op[<<i, w>>] = OneForgets(b, w, m, Order[i])
  BY <1>1
<1>3a. S = 1 .. n
  OBVIOUS
<1> HIDE DEF op, n, S
<1>4. PICK k \in [SUBSET S -> D] : FoldedFromLeft(k, S, b, op)
  BY Zenon, <1>1, <1>3, <1>3a, LeftExists
<1>5. k = [s \in SUBSET S |-> ForgetAllOnce(k, s, b, m)]
  <2> SUFFICES ASSUME NEW s \in SUBSET S
               PROVE  k[s] = ForgetAllOnce(k, s, b, m)
    OBVIOUS
  <2>1. CASE s = {}
    BY Zenon, <1>4, <2>1 DEF FoldedFromLeft, FromLeft, ForgetAllOnce
  <2>2. CASE s # {}
    <3>1. Latest(s) \in S /\ s \ {Latest(s)} \in SUBSET S
      BY Zenon, <1>1, <1>3a, <2>2, LatestIs
    <3>2. k[s \ {Latest(s)}] \in D
      BY <3>1
    <3>3. k[s] = op[<<Latest(s), k[s \ {Latest(s)}]>>]
      BY <1>4, <2>2 DEF FoldedFromLeft, FromLeft
    <3> QED
      BY <1>3, <2>2, <3>1, <3>2, <3>3 DEF ForgetAllOnce
  <2> QED
    BY <2>1, <2>2
<1>6. f = [s \in SUBSET S |-> ForgetAllOnce(f, s, b, m)]
  BY <1>5
<1> HIDE DEF f
<1>7. f[{}] = b
  <2>1. f[{}] = ForgetAllOnce(f, {}, b, m)
    BY <1>6
  <2> QED
    BY <2>1 DEF ForgetAllOnce
<1>8. ASSUME NEW s \in SUBSET S, s # {}, f[s \ {Latest(s)}] \in D
      PROVE  f[s] = op[<<Latest(s), f[s \ {Latest(s)}]>>]
  <2>1. Latest(s) \in S
    BY Zenon, <1>1, <1>3a, <1>8, LatestIs
  <2>2. f[s] = ForgetAllOnce(f, s, b, m)
    BY <1>6
  <2> QED
    BY Zenon, <1>3, <1>8, <2>1, <2>2 DEF ForgetAllOnce
<1>9. PICK h \in [0 .. n -> D] : StepByStep(h, n, b, op) /\ f[S] = h[n]
  <2>1. op \in [S \X D -> D] /\ n \in Nat /\ b \in D
    BY <1>1, <1>3
  <2>2. GoesFromLeft(f, S, D, b, op)
    BY Zenon, <1>7, <1>8 DEF GoesFromLeft
  <2>3. HasSteps(n, D, b, op, f[S])
    BY Zenon, <1>3a, <2>1, <2>2, LeftSteps
  <2> QED
    BY Zenon, <2>3 DEF HasSteps
<1>10. ASSUME NEW i \in 1 .. n
       PROVE  h[i] = OneForgets(b, h[i - 1], m, Order[i])
  <2>1. i \in S /\ i - 1 \in 0 .. n
    BY <1>1, <1>3a
  <2>2. h[i - 1] \in D
    BY <2>1
  <2> QED
    BY Zenon, <1>3, <1>9, <2>1, <2>2 DEF StepByStep
<1> QED
  BY Zenon, <1>2, <1>9, <1>10 DEF StepByStep, ForgetAllBy, n

FindAllOnce(g, s, b, m) ==
    IF s = {} THEN b
    ELSE OneFinds(g[s \ {Latest(s)}], m, Order[Latest(s)])

FindAll(b, m) ==
    (CHOOSE g : g = [s \in SUBSET DOMAIN Order |->
                        FindAllOnce(g, s, b, m)])[DOMAIN Order]

FindAllBy(h, D, b, m) ==
    /\ h \in [0 .. Len(Order) -> D]
    /\ h[0] = b /\ FindAll(b, m) = h[Len(Order)]
    /\ \A i \in 1 .. Len(Order) : h[i] = OneFinds(h[i - 1], m, Order[i])

\* Those in sight are found, one by one.
LEMMA FindAllSteps ==
  ASSUME NEW b, NEW m, NEW D, b \in D,
         \A w \in D : \A c \in Beings : OneFinds(w, m, c) \in D
  PROVE  \E h : FindAllBy(h, D, b, m)
<1> DEFINE n == Len(Order)
           S == 1 .. n
           op == [a \in S \X D |-> OneFinds(a[2], m, Order[a[1]])]
           f == CHOOSE g : g = [s \in SUBSET S |-> FindAllOnce(g, s, b, m)]
<1>1. n \in Nat /\ S = DOMAIN Order /\ \A i \in S : Order[i] \in Beings
  BY OrderIs
<1>2. FindAll(b, m) = f[S]
  BY Zenon, <1>1 DEF FindAll
<1>3. op \in [S \X D -> D] /\ \A i \in S : \A w \in D :
            op[<<i, w>>] = OneFinds(w, m, Order[i])
  BY <1>1
<1>3a. S = 1 .. n
  OBVIOUS
<1> HIDE DEF op, n, S
<1>4. PICK k \in [SUBSET S -> D] : FoldedFromLeft(k, S, b, op)
  BY Zenon, <1>1, <1>3, <1>3a, LeftExists
<1>5. k = [s \in SUBSET S |-> FindAllOnce(k, s, b, m)]
  <2> SUFFICES ASSUME NEW s \in SUBSET S
               PROVE  k[s] = FindAllOnce(k, s, b, m)
    OBVIOUS
  <2>1. CASE s = {}
    BY Zenon, <1>4, <2>1 DEF FoldedFromLeft, FromLeft, FindAllOnce
  <2>2. CASE s # {}
    <3>1. Latest(s) \in S /\ s \ {Latest(s)} \in SUBSET S
      BY Zenon, <1>1, <1>3a, <2>2, LatestIs
    <3>2. k[s \ {Latest(s)}] \in D
      BY <3>1
    <3>3. k[s] = op[<<Latest(s), k[s \ {Latest(s)}]>>]
      BY <1>4, <2>2 DEF FoldedFromLeft, FromLeft
    <3> QED
      BY <1>3, <2>2, <3>1, <3>2, <3>3 DEF FindAllOnce
  <2> QED
    BY <2>1, <2>2
<1>6. f = [s \in SUBSET S |-> FindAllOnce(f, s, b, m)]
  BY <1>5
<1> HIDE DEF f
<1>7. f[{}] = b
  <2>1. f[{}] = FindAllOnce(f, {}, b, m)
    BY <1>6
  <2> QED
    BY <2>1 DEF FindAllOnce
<1>8. ASSUME NEW s \in SUBSET S, s # {}, f[s \ {Latest(s)}] \in D
      PROVE  f[s] = op[<<Latest(s), f[s \ {Latest(s)}]>>]
  <2>1. Latest(s) \in S
    BY Zenon, <1>1, <1>3a, <1>8, LatestIs
  <2>2. f[s] = FindAllOnce(f, s, b, m)
    BY <1>6
  <2> QED
    BY Zenon, <1>3, <1>8, <2>1, <2>2 DEF FindAllOnce
<1>9. PICK h \in [0 .. n -> D] : StepByStep(h, n, b, op) /\ f[S] = h[n]
  <2>1. op \in [S \X D -> D] /\ n \in Nat /\ b \in D
    BY <1>1, <1>3
  <2>2. GoesFromLeft(f, S, D, b, op)
    BY Zenon, <1>7, <1>8 DEF GoesFromLeft
  <2>3. HasSteps(n, D, b, op, f[S])
    BY Zenon, <1>3a, <2>1, <2>2, LeftSteps
  <2> QED
    BY Zenon, <2>3 DEF HasSteps
<1>10. ASSUME NEW i \in 1 .. n
       PROVE  h[i] = OneFinds(h[i - 1], m, Order[i])
  <2>1. i \in S /\ i - 1 \in 0 .. n
    BY <1>1, <1>3a
  <2>2. h[i - 1] \in D
    BY <2>1
  <2> QED
    BY Zenon, <1>3, <1>9, <2>1, <2>2 DEF StepByStep
<1> QED
  BY <1>2, <1>9, <1>10 DEF StepByStep, FindAllBy, n

\* The two loops of updateTargetList.
LEMMA UpdateTargetListUnfolds ==
  ASSUME NEW b, NEW m
  PROVE  UpdateTargetList(b, m) = FindAll(ForgetAll(b, m), m)
BY DEF UpdateTargetList, FindAll, ForgetAll, FoldLeft, MapThenFoldSet,
   ForgetAllOnce, FindAllOnce, OneForgets, OneFinds, Latest, Max

\* What a monster minds: it thinks as long as it is awake, it does not think
\* when it was removed, and then it has forgotten all, unless it was dying.
Mind(b, m) ==
    /\ b.life[m] = "placed" /\ b.healthy[m] /\ ~b.isIdle[m]
            => b.check[m] = "thinks"
    /\ b.life[m] \in {"removed", "freed"} => b.check[m] # "thinks"
    /\ (b.life[m] \in {"unborn", "freed"}
            \/ (b.life[m] = "removed" /\ b.healthy[m]))
            => b.friends[m] = {} /\ b.targets[m] = {}
    /\ b.life[m] = "unborn" => b.isIdle[m]

\* A wild monster that is well.
Wild(b, m) == b.life[m] = "placed" /\ b.healthy[m] /\ ~IsSummon(b, m)

Knows(b, m, p) == p \in b.targets[m] /\ ~b.isIdle[m]

\* w is what b becomes when m attends to c: it may forget c.
Attends(b, w, m, c) ==
    /\ Touched(b, w, m) /\ Good(w) /\ Mind(w, m)
    /\ \A p \in Beings : p # c /\ Wild(b, m) /\ Knows(b, m, p)
                            => Knows(w, m, p)

\* m looks after itself.
LEMMA UpdateIdleIs ==
  ASSUME NEW b, Good(b), NEW m \in Monsters, Known(b, m), Mind(b, m)
  PROVE  /\ Touched(b, UpdateIdle(b, m), m) /\ Good(UpdateIdle(b, m))
         /\ Mind(UpdateIdle(b, m), m)
         /\ UpdateIdle(b, m).targets[m] = b.targets[m]
         /\ Wild(b, m) /\ b.targets[m] # {} => ~UpdateIdle(b, m).isIdle[m]
<1> DEFINE idle == ~IsSummon(b, m) /\ b.targets[m] = {}
           w == SetIdle(b, m, idle)
<1>0. b \in Books /\ UpdateIdle(b, m) = w /\ idle \in BOOLEAN
  BY DEF Good, UpdateIdle
<1>1. CASE b.life[m] = "removed" \/ ~b.healthy[m]
  <2>1. w = b
    BY <1>1 DEF SetIdle
  <2> QED
    BY <1>0, <1>1, <2>1, BecameSame DEF Became, Wild
<1>2. CASE ~(b.life[m] = "removed" \/ ~b.healthy[m]) /\ idle
  <2>1. Became(b, w, m, {}, {}, TRUE,
               IF b.check[m] = "none" THEN "none" ELSE "leaves")
    <3> HIDE DEF idle
    <3> QED
      BY Zenon, <1>2, SetIdleIs
  <2>2. b.life[m] = "placed"
    BY <1>2 DEF Known
  <2>3. Mind(w, m)
    BY <2>1, <2>2 DEF Became, Touched, Mind
  <2> QED
    BY <1>0, <1>2, <2>1, <2>3 DEF Became
<1>3. CASE ~(b.life[m] = "removed" \/ ~b.healthy[m]) /\ ~idle
  <2>1. Became(b, w, m, b.friends[m], b.targets[m], FALSE, "thinks")
    <3> HIDE DEF idle
    <3> QED
      BY Zenon, <1>0, <1>3, SetIdleIs
  <2>2. b.life[m] = "placed"
    BY <1>3 DEF Known
  <2>3. Mind(w, m)
    BY <2>1, <2>2 DEF Became, Touched, Mind
  <2> QED
    BY <1>0, <2>1, <2>3 DEF Became
<1> HIDE DEF idle, w
<1> QED
  BY <1>1, <1>2, <1>3

\* What is touched by m twice.
LEMMA TouchedTwice ==
  ASSUME NEW b, NEW w, NEW v, NEW m, Touched(b, w, m), Touched(w, v, m)
  PROVE  Touched(b, v, m)
BY DEF Touched

\* What is about life stays when m attends.
LEMMA TouchedKeeps ==
  ASSUME NEW b, NEW w, NEW m, Touched(b, w, m)
  PROVE  /\ \A x : Known(w, x) <=> Known(b, x)
         /\ \A x : Wild(w, x) <=> Wild(b, x)
         /\ \A x, y : Sees(w, x, y) <=> Sees(b, x, y)
         /\ \A x : IsSummon(w, x) <=> IsSummon(b, x)
         /\ \A x, y : IsFriend(w, x, y) <=> IsFriend(b, x, y)
         /\ \A x, y : IsOpponent(w, x, y) <=> IsOpponent(b, x, y)
         /\ Placed(w) = Placed(b)
BY DEF Touched, Known, Wild, Sees, IsSummon, IsFriend, IsOpponent, Placed

\* A placed monster finds somebody.
LEMMA FoundIs ==
  ASSUME NEW b, Good(b), NEW m \in Monsters, b.life[m] = "placed",
         Mind(b, m), NEW c \in Beings, Known(b, c)
  PROVE  /\ Attends(b, Found(b, m, c), m, NoCreature)
         /\ Wild(b, m) /\ c \in Humans /\ Sees(b, m, c)
                => Knows(Found(b, m, c), m, c)
<1>0. b \in Books /\ Known(b, m)
  BY DEF Good, Known
<1>1. CASE ~Sees(b, m, c)
  <2>1. Found(b, m, c) = b
    BY <1>1 DEF Found
  <2> QED
    BY <1>1, <2>1, BecameSame DEF Became, Attends
<1>2. CASE Sees(b, m, c)
  <2> DEFINE mt == IF IsFriend(b, m, c) THEN AddFriend(b, m, c) ELSE b
             f == IF IsOpponent(b, m, c) THEN AddTarget(mt, m, c) ELSE mt
             w == UpdateIdle(f, m)
  <2>1. Found(b, m, c) = w
    BY <1>2 DEF Found
  <2>2. /\ Touched(b, mt, m) /\ Good(mt) /\ Mind(mt, m)
        /\ mt.targets[m] = b.targets[m]
    <3>1. CASE IsFriend(b, m, c)
      <4>1. Became(b, mt, m, b.friends[m] \cup {c}, b.targets[m],
                   b.isIdle[m], b.check[m])
        BY <3>1, AddFriendIs
      <4> QED
        BY <4>1 DEF Became, Touched, Mind
    <3>2. CASE ~IsFriend(b, m, c)
      BY <3>2, BecameSame DEF Became
    <3> QED
      BY <3>1, <3>2
  <2> HIDE DEF mt
  <2>2a. Known(mt, c) /\ Known(mt, m) /\ mt.life[m] = "placed"
    BY <1>0, <2>2, TouchedKeeps DEF Touched
  <2>3. /\ Touched(mt, f, m) /\ Good(f) /\ Mind(f, m)
        /\ f.targets[m] = IF IsOpponent(b, m, c) THEN b.targets[m] \cup {c}
                          ELSE b.targets[m]
    <3>1. CASE IsOpponent(b, m, c)
      <4>1. Became(mt, f, m, mt.friends[m], mt.targets[m] \cup {c},
                   mt.isIdle[m], mt.check[m])
        BY <2>2, <2>2a, <3>1, AddTargetIs
      <4> QED
        BY <2>2, <2>2a, <3>1, <4>1 DEF Became, Touched, Mind
    <3>2. CASE ~IsOpponent(b, m, c)
      BY <2>2, <3>2, BecameSame DEF Became
    <3> QED
      BY <3>1, <3>2
  <2> HIDE DEF f
  <2>4. Touched(b, f, m) /\ Known(f, m)
    BY <1>0, <2>2, <2>3, TouchedTwice, TouchedKeeps
  <2>5. /\ Touched(f, w, m) /\ Good(w) /\ Mind(w, m)
        /\ w.targets[m] = f.targets[m]
        /\ Wild(f, m) /\ f.targets[m] # {} => ~w.isIdle[m]
    BY Zenon, <2>3, <2>4, UpdateIdleIs
  <2> HIDE DEF w
  <2>6. Touched(b, w, m) /\ (Wild(b, m) => Wild(f, m))
    BY <2>4, <2>5, TouchedTwice, TouchedKeeps
  <2>7. \A p : Wild(b, m) /\ p \in f.targets[m] => Knows(w, m, p)
    BY <2>5, <2>6 DEF Knows
  <2>8. \A p : p \in b.targets[m] => p \in f.targets[m]
    BY <2>3
  <2>9. c \in Humans /\ Wild(b, m) => c \in f.targets[m]
    <3>1. Wild(b, m) => b.master[m] = NoCreature
      BY DEF Wild, IsSummon
    <3>2. NoCreature \notin Humans
      BY BeingsAre
    <3> QED
      BY <2>3, <3>1, <3>2 DEF IsOpponent
  <2> QED
    BY <2>1, <2>5, <2>6, <2>7, <2>8, <2>9 DEF Attends, Knows
<1> QED
  BY <1>1, <1>2

\* Somebody leaves its sight.
LEMMA LeftIs ==
  ASSUME NEW b, Good(b), NEW m \in Monsters, Known(b, m),
         Mind(b, m), NEW c \in Beings
  PROVE  Attends(b, Left(b, m, c), m, c)
<1> DEFINE pt == IF IsFriend(b, m, c) THEN RemoveFriend(b, m, c) ELSE b
           r == RemoveTarget(pt, m, c)
           w == UpdateIdle(r, m)
<1>1. Left(b, m, c) = IF IsOpponent(b, m, c) THEN w ELSE pt
  BY DEF Left
<1>2. /\ Touched(b, pt, m) /\ Good(pt) /\ Mind(pt, m)
      /\ pt.targets[m] = b.targets[m] /\ pt.isIdle[m] = b.isIdle[m]
  <2>1. CASE IsFriend(b, m, c)
    <3>1. Became(b, pt, m, b.friends[m] \ {c}, b.targets[m],
                 b.isIdle[m], b.check[m])
      BY <2>1, RemoveFriendIs
    <3> QED
      BY <3>1 DEF Became, Touched, Mind
  <2>2. CASE ~IsFriend(b, m, c)
    BY <2>2, BecameSame DEF Became
  <2> QED
    BY <2>1, <2>2
<1>3. CASE ~IsOpponent(b, m, c)
  BY <1>1, <1>2, <1>3 DEF Attends, Knows
<1>4. CASE IsOpponent(b, m, c)
  <2> HIDE DEF pt
  <2>1. Became(pt, r, m, pt.friends[m], pt.targets[m] \ {c}, pt.isIdle[m],
               pt.check[m])
    BY <1>2, RemoveTargetIs
  <2> HIDE DEF r
  <2>2. Touched(b, r, m) /\ Good(r) /\ Mind(r, m)
    <3>1. Touched(b, r, m) /\ Good(r)
      BY <1>2, <2>1, TouchedTwice DEF Became
    <3> QED
      BY <1>2, <2>1, <3>1 DEF Became, Touched, Mind
  <2>3. Known(r, m) /\ (Wild(b, m) => Wild(r, m))
    BY <2>2, TouchedKeeps
  <2>4. /\ Touched(r, w, m) /\ Good(w) /\ Mind(w, m)
        /\ w.targets[m] = r.targets[m]
        /\ Wild(r, m) /\ r.targets[m] # {} => ~w.isIdle[m]
    BY <2>2, <2>3, UpdateIdleIs
  <2> HIDE DEF w
  <2>5. Touched(b, w, m)
    BY <2>2, <2>4, TouchedTwice
  <2>6. r.targets[m] = b.targets[m] \ {c}
    BY <1>2, <2>1 DEF Became
  <2> QED
    BY <1>1, <1>4, <2>3, <2>4, <2>5, <2>6 DEF Attends, Knows
<1> QED
  BY <1>3, <1>4

\* A summon finds no path to what it follows.
LEMMA NoPathIs ==
  ASSUME NEW b, Good(b), NEW m \in Monsters, Known(b, m), Mind(b, m)
  PROVE  Attends(b, NoPath(b, m), m, NoCreature)
<1> DEFINE c == IF b.attacked[m] # NoCreature THEN b.attacked[m]
                ELSE b.master[m]
<1>0. b \in Books /\ m \in Beings
  BY BeingsAre DEF Good
<1>1. CASE ~IsSummon(b, m)
  <2>1. NoPath(b, m) = b
    BY <1>1 DEF NoPath
  <2> QED
    BY <2>1, BecameSame DEF Became, Attends
<1>2. CASE IsSummon(b, m)
  <2>1. c \in Beings
    BY <1>0, <1>2, BooksAre DEF IsSummon
  <2>2. NoPath(b, m) = RemoveTarget(b, m, c)
    BY <1>2 DEF NoPath
  <2> HIDE DEF c
  <2> DEFINE w == RemoveTarget(b, m, c)
  <2>3. Became(b, w, m, b.friends[m], b.targets[m] \ {c}, b.isIdle[m],
               b.check[m])
    BY <2>1, RemoveTargetIs
  <2> HIDE DEF w
  <2>4. Mind(w, m)
    BY <2>3 DEF Became, Touched, Mind
  <2> QED
    BY <1>2, <2>2, <2>3, <2>4 DEF Became, Attends, Wild, w
<1> QED
  BY <1>1, <1>2

\* Those out of sight are forgotten.
LEMMA ForgetAllIs ==
  ASSUME NEW b, Good(b), NEW m \in Monsters, Mind(b, m)
  PROVE  /\ Touched(b, ForgetAll(b, m), m) /\ Good(ForgetAll(b, m))
         /\ Mind(ForgetAll(b, m), m)
<1> DEFINE D == {w \in Books : Touched(b, w, m) /\ Good(w) /\ Mind(w, m)}
<1>1. b \in D
  BY BecameSame DEF Became, Good
<1>2. ASSUME NEW w \in D, NEW c \in Beings PROVE OneForgets(b, w, m, c) \in D
  <2> DEFINE v == RemoveFriend(w, m, c)
             u == RemoveTarget(v, m, c)
  <2>0. Touched(b, w, m) /\ Good(w) /\ Mind(w, m) /\ w \in Books
    OBVIOUS
  <2>1. Became(w, v, m, w.friends[m] \ {c}, w.targets[m], w.isIdle[m],
               w.check[m])
    BY <2>0, RemoveFriendIs
  <2> HIDE DEF v
  <2>2. Became(v, u, m, v.friends[m], v.targets[m] \ {c}, v.isIdle[m],
               v.check[m])
    BY <2>1, RemoveTargetIs DEF Became
  <2> HIDE DEF u
  <2>3. Touched(w, u, m) /\ Touched(b, u, m)
    BY <2>0, <2>1, <2>2, TouchedTwice DEF Became
  <2>4. /\ u.friends[m] \subseteq w.friends[m]
        /\ u.targets[m] \subseteq w.targets[m]
        /\ u.isIdle[m] = w.isIdle[m] /\ u.check[m] = w.check[m] /\ Good(u)
    BY <2>1, <2>2 DEF Became
  <2>5. Mind(u, m)
    BY <2>0, <2>3, <2>4 DEF Touched, Mind
  <2>6. u \in D
    BY <2>3, <2>4, <2>5 DEF Good
  <2> HIDE DEF D
  <2>7. OneForgets(b, w, m, c) \in {u, w}
    BY DEF OneForgets, u, v
  <2> QED
    BY <2>6, <2>7
<1> HIDE DEF D
<1>3. \E h : ForgetAllBy(h, D, b, m)
  <2>1. \A w \in D : \A c \in Beings : OneForgets(b, w, m, c) \in D
    BY <1>2
  <2> QED
    BY <1>1, <2>1, ForgetAllSteps
<1>4. ForgetAll(b, m) \in D
  BY <1>3, OrderIs DEF ForgetAllBy
<1> QED
  BY <1>4 DEF D

\* Those in sight are found.
LEMMA FindAllIs ==
  ASSUME NEW b, Good(b), NEW m \in Monsters, b.life[m] = "placed", Mind(b, m)
  PROVE  /\ Touched(b, FindAll(b, m), m) /\ Good(FindAll(b, m))
         /\ Mind(FindAll(b, m), m)
         /\ \A p \in Humans :
                Wild(b, m) /\ b.life[p] = "placed" /\ Sees(b, m, p)
                    => Knows(FindAll(b, m), m, p)
<1> DEFINE D == {w \in Books : Touched(b, w, m) /\ Good(w) /\ Mind(w, m)}
           Near(p) == p \in Humans /\ Wild(b, m) /\ b.life[p] = "placed"
                            /\ Sees(b, m, p)
           E == [i \in 0 .. Len(Order) |->
                    {w \in D : \A j \in 1 .. i :
                        Near(Order[j]) => Knows(w, m, Order[j])}]
<1>1. b \in D
  BY BecameSame DEF Became, Good
<1>2. ASSUME NEW w \in D, NEW c \in Beings
      PROVE  /\ OneFinds(w, m, c) \in D
             /\ \A p \in Beings : Wild(b, m) /\ Knows(w, m, p)
                        => Knows(OneFinds(w, m, c), m, p)
             /\ Near(c) => Knows(OneFinds(w, m, c), m, c)
  <2> DEFINE v == Found(w, m, c)
  <2>0. Touched(b, w, m) /\ Good(w) /\ Mind(w, m) /\ w \in Books
    OBVIOUS
  <2>0a. /\ w.life[m] = "placed" /\ Placed(w) = Placed(b)
         /\ Wild(w, m) <=> Wild(b, m)
         /\ Sees(w, m, c) <=> Sees(b, m, c)
    BY <2>0, TouchedKeeps DEF Touched
  <2>1. CASE c # m /\ c \in Placed(w)
    <3>1. Known(w, c)
      BY <2>1 DEF Placed, Known
    <3>2. /\ Attends(w, v, m, NoCreature)
          /\ Wild(w, m) /\ c \in Humans /\ Sees(w, m, c) => Knows(v, m, c)
      BY <2>0, <2>0a, <3>1, FoundIs
    <3> HIDE DEF v
    <3>3. v \in D
      BY <2>0, <3>2, TouchedTwice DEF Attends, Good
    <3>4. OneFinds(w, m, c) = v
      BY <2>1 DEF OneFinds, v
    <3>5. \A p \in Beings : Wild(b, m) /\ Knows(w, m, p) => Knows(v, m, p)
      BY <2>0a, <3>2, BeingsAre DEF Attends
    <3>6. Near(c) => Knows(v, m, c)
      BY <2>0a, <3>2
    <3> QED
      BY <3>3, <3>4, <3>5, <3>6
  <2>2. CASE ~(c # m /\ c \in Placed(w))
    <3>1. OneFinds(w, m, c) = w
      BY <2>2 DEF OneFinds
    <3>2. ~Near(c)
      BY <2>0a, <2>2, BeingsAre DEF Placed
    <3> QED
      BY <3>1, <3>2
  <2> QED
    BY <2>1, <2>2
<1> HIDE DEF D
<1>2a. PICK h : FindAllBy(h, D, b, m)
  <2>1. \A w \in D : \A c \in Beings : OneFinds(w, m, c) \in D
    BY <1>2
  <2> QED
    BY Zenon, <1>1, <2>1, FindAllSteps
<1>3. /\ h \in [0 .. Len(Order) -> D]
      /\ h[0] = b /\ FindAll(b, m) = h[Len(Order)]
      /\ \A i \in 1 .. Len(Order) : h[i] = OneFinds(h[i - 1], m, Order[i])
  BY <1>2a DEF FindAllBy
<1> HIDE DEF Near
<1>4. h[0] \in E[0]
  BY <1>1, <1>3, OrderIs
<1>5. ASSUME NEW i \in 1 .. Len(Order), h[i - 1] \in E[i - 1]
      PROVE  h[i] \in E[i]
  <2>1. /\ i \in 0 .. Len(Order) /\ i - 1 \in 0 .. Len(Order)
        /\ Order[i] \in Beings
        /\ \A j \in 1 .. i : j = i \/ j \in 1 .. (i - 1)
        /\ \A j \in 1 .. i : Order[j] \in Beings
    BY OrderIs
  <2>2. /\ h[i - 1] \in D
        /\ \A j \in 1 .. (i - 1) :
                Near(Order[j]) => Knows(h[i - 1], m, Order[j])
    BY <1>5, <2>1
  <2>3. /\ h[i] \in D
        /\ \A p \in Beings : Wild(b, m) /\ Knows(h[i - 1], m, p)
                                => Knows(h[i], m, p)
        /\ Near(Order[i]) => Knows(h[i], m, Order[i])
    BY <1>2, <1>3, <2>1, <2>2
  <2>4. \A p : Near(p) => Wild(b, m)
    BY DEF Near
  <2>5. \A j \in 1 .. i : Near(Order[j]) => Knows(h[i], m, Order[j])
    BY <2>1, <2>2, <2>3, <2>4
  <2> QED
    BY <2>1, <2>3, <2>5
<1>6. FindAll(b, m) \in E[Len(Order)]
  <2>1. h[Len(Order)] \in E[Len(Order)]
    <3> HIDE DEF E
    <3> QED
      BY <1>4, <1>5, OrderIs, StepsFit
  <2> QED
    BY <1>3, <2>1
<1>7. /\ FindAll(b, m) \in D
      /\ \A j \in 1 .. Len(Order) :
            Near(Order[j]) => Knows(FindAll(b, m), m, Order[j])
  BY <1>6, OrderIs
<1>8. \A p \in Humans : Near(p) => Knows(FindAll(b, m), m, p)
  BY <1>7, OrderIs, BeingsAre
<1> QED
  BY <1>7, <1>8 DEF D, Near

\* A monster looks around.
LEMMA LookAroundIs ==
  ASSUME NEW b, Good(b), NEW m \in Monsters, b.life[m] = "placed", Mind(b, m)
  PROVE  /\ Touched(b, LookAround(b, m), m) /\ Good(LookAround(b, m))
         /\ Mind(LookAround(b, m), m)
         /\ \A p \in Humans :
                Wild(b, m) /\ b.life[p] = "placed" /\ Sees(b, m, p)
                    => Knows(LookAround(b, m), m, p)
<1> DEFINE f == ForgetAll(b, m)
           g == FindAll(f, m)
           w == UpdateIdle(g, m)
<1>1. LookAround(b, m) = w
  BY UpdateTargetListUnfolds DEF LookAround
<1>2. Touched(b, f, m) /\ Good(f) /\ Mind(f, m)
  BY ForgetAllIs
<1> HIDE DEF f
<1>3. /\ f.life = b.life /\ (Wild(b, m) => Wild(f, m))
      /\ \A p : Sees(b, m, p) => Sees(f, m, p)
  BY <1>2, TouchedKeeps DEF Touched
<1>4. /\ Touched(f, g, m) /\ Good(g) /\ Mind(g, m)
      /\ \A p \in Humans :
                Wild(f, m) /\ f.life[p] = "placed" /\ Sees(f, m, p)
                    => Knows(g, m, p)
  BY <1>2, <1>3, FindAllIs
<1> HIDE DEF g
<1>5. /\ Known(g, m) /\ Touched(b, g, m)
      /\ Wild(b, m) => Wild(g, m)
  BY <1>2, <1>3, <1>4, TouchedTwice, TouchedKeeps DEF Known, Touched
<1>6. /\ Touched(g, w, m) /\ Good(w) /\ Mind(w, m)
      /\ w.targets[m] = g.targets[m]
      /\ Wild(g, m) /\ g.targets[m] # {} => ~w.isIdle[m]
  BY <1>4, <1>5, UpdateIdleIs
<1> HIDE DEF w
<1>7. Touched(b, w, m)
  BY <1>5, <1>6, TouchedTwice
<1>8. \A p : Wild(b, m) /\ Knows(g, m, p) => Knows(w, m, p)
  BY <1>5, <1>6 DEF Knows
<1> QED
  BY <1>1, <1>3, <1>4, <1>6, <1>7, <1>8

\* A summon is a monster, its master has none, and goes no later.
Masters(b) ==
    \A s \in Beings : b.master[s] # NoCreature =>
        /\ s \in Monsters /\ b.master[b.master[s]] = NoCreature
        /\ Known(b, s) /\ Known(b, b.master[s])
        /\ b.life[s] = "removed" => b.life[b.master[s]] = "removed"

\* No summon is on the map without its master, except those of c.
Bound(b, c) ==
    \A s \in Beings : b.life[s] = "placed" /\ b.master[s] # NoCreature
        => b.life[b.master[s]] = "placed" \/ b.master[s] = c

\* Only what was removed is to be released, and once.
Released(b) ==
    \A c \in Beings : \/ b.toRelease[c] = 0
                      \/ b.toRelease[c] = 1 /\ b.life[c] = "removed"

\* Who was never placed attacks nobody.
Blank(b) ==
    \A c \in Beings : b.life[c] = "unborn" => b.attacked[c] = NoCreature

\* Players think, but for those of V, and when removed they do not.
PlayersThink(b, V) ==
    \A p \in Humans :
        /\ b.life[p] = "placed" /\ b.healthy[p] /\ p \notin V
                => b.check[p] = "thinks"
        /\ b.life[p] \in {"removed", "freed"} => b.check[p] # "thinks"

\* AttackedInView, while those of U were not told yet that z moved.
InView(b, z, U) ==
    \A y \in Beings :
        b.life[y] = "placed" /\ b.attacked[y] # NoCreature =>
            \/ b.life[b.attacked[y]] = "placed" /\ Sees(b, y, b.attacked[y])
            \/ /\ y \in U /\ (y = z \/ b.attacked[y] = z)
               /\ \/ b.life[b.attacked[y]] = "placed"
                  \/ ~Sees(b, y, b.attacked[y])

\* Wild monsters know the players around, but for the pairs of W.
Watch(b, W) ==
    \A m \in Monsters, p \in Humans :
        Wild(b, m) /\ b.life[p] = "placed" /\ Sees(b, m, p)
            => Knows(b, m, p) \/ <<m, p>> \in W

\* What holds of the books in the midst of all that is done to them.
Calm(b, z, U, V, W) ==
    /\ Good(b) /\ Masters(b) /\ Released(b) /\ Blank(b)
    /\ \A m \in Monsters : Mind(b, m)
    /\ PlayersThink(b, V) /\ InView(b, z, U) /\ Watch(b, W)

\* A monster attends to somebody.
LEMMA TouchedIsCalm ==
  ASSUME NEW b, NEW z, NEW U, NEW V, NEW W, Calm(b, z, U, V, W),
         NEW m \in Monsters, NEW w, Touched(b, w, m), Good(w), Mind(w, m),
         \A p \in Humans :
            Wild(b, m) /\ b.life[p] = "placed" /\ Sees(b, m, p)
                /\ Knows(b, m, p)
                    => Knows(w, m, p) \/ <<m, p>> \in W
  PROVE  Calm(w, z, U, V, W)
<1>0. b \in Books /\ w \in Books /\ m \in Beings /\ m \notin Humans
  BY BeingsAre DEF Calm, Good
<1>1. Masters(w)
  BY DEF Calm, Masters, Touched, Known
<1>2. Released(w) /\ Blank(w)
  BY DEF Calm, Released, Blank, Touched
<1>3. \A x \in Monsters : Mind(w, x)
  <2> SUFFICES ASSUME NEW x \in Monsters, x # m PROVE Mind(w, x)
    OBVIOUS
  <2>1. Mind(b, x) /\ x \in Beings
    BY BeingsAre DEF Calm
  <2> QED
    BY <2>1 DEF Mind, Touched
<1>4. PlayersThink(w, V)
  BY <1>0, BeingsAre DEF Calm, PlayersThink, Touched
<1>5. InView(w, z, U)
  BY DEF Calm, InView, Touched, Sees
<1>6. Watch(w, W)
  <2> SUFFICES ASSUME NEW x \in Monsters, NEW p \in Humans,
                      Wild(w, x), w.life[p] = "placed", Sees(w, x, p)
               PROVE  Knows(w, x, p) \/ <<x, p>> \in W
    BY DEF Watch
  <2>1. Wild(b, x) /\ b.life[p] = "placed" /\ Sees(b, x, p)
    BY TouchedKeeps DEF Touched
  <2>2. Knows(b, x, p) \/ <<x, p>> \in W
    BY <2>1 DEF Calm, Watch
  <2>3. CASE x = m
    BY <2>1, <2>2, <2>3
  <2>4. CASE x # m
    BY <2>2, <2>4 DEF Knows, Touched
  <2> QED
    BY <2>3, <2>4
<1> QED
  BY <1>1, <1>2, <1>3, <1>4, <1>5, <1>6 DEF Calm

-----------------------------------------------------------------------------
\* w is b, with others that are attacked.
Turned(b, w) ==
    /\ w \in Books
    /\ w.life = b.life /\ w.room = b.room /\ w.healthy = b.healthy
    /\ w.master = b.master /\ w.toRelease = b.toRelease
    /\ w.friends = b.friends /\ w.targets = b.targets
    /\ w.isIdle = b.isIdle /\ w.check = b.check
    /\ w.references = b.references

\* What is attacked does not count.
LEMMA TurnedKeeps ==
  ASSUME NEW b, NEW w, Turned(b, w)
  PROVE  /\ Good(b) => Good(w)
         /\ Masters(b) => Masters(w)
         /\ Released(b) => Released(w)
         /\ \A m : Mind(b, m) => Mind(w, m)
         /\ \A V : PlayersThink(b, V) => PlayersThink(w, V)
         /\ \A W : Watch(b, W) => Watch(w, W)
         /\ \A c : Bound(b, c) => Bound(w, c)
         /\ \A x, y : Sees(w, x, y) <=> Sees(b, x, y)
         /\ \A x : Known(w, x) <=> Known(b, x)
<1>1. Good(b) => Good(w)
  <2>1. \A c : HeldIn(w, c) = HeldIn(b, c)
    BY DEF Turned, HeldIn, Stands, Checks, Serves
  <2> QED
    BY <2>1 DEF Good, Counted, Turned
<1>2. Masters(b) => Masters(w)
  BY DEF Turned, Masters, Known
<1>3. Released(b) => Released(w)
  BY DEF Turned, Released
<1>4. \A m : Mind(b, m) => Mind(w, m)
  BY DEF Turned, Mind
<1>5. \A V : PlayersThink(b, V) => PlayersThink(w, V)
  BY DEF Turned, PlayersThink
<1>6. \A W : Watch(b, W) => Watch(w, W)
  BY DEF Turned, Watch, Wild, Knows, Sees, IsSummon
<1>7. \A c : Bound(b, c) => Bound(w, c)
  BY DEF Turned, Bound
<1>8. /\ \A x, y : Sees(w, x, y) <=> Sees(b, x, y)
      /\ \A x : Known(w, x) <=> Known(b, x)
  BY DEF Turned, Sees, Known
<1> QED
  BY <1>1, <1>2, <1>3, <1>4, <1>5, <1>6, <1>7, <1>8

\* c attacks another one, or nobody any more, and its summons with it.
LEMMA SetAttackedIs ==
  ASSUME NEW b, NEW z, NEW U, NEW V, NEW W, Calm(b, z, U, V, W),
         NEW c \in Beings, Known(b, c), NEW t \in Beings \cup {NoCreature},
         t # NoCreature => b.life[t] = "placed"
  PROVE  /\ Calm(SetAttacked(b, c, t), z, U, V, W)
         /\ Turned(b, SetAttacked(b, c, t))
         /\ SetAttacked(b, c, t).attacked[c] \in {NoCreature, t}
         /\ \A y \in Beings : SetAttacked(b, c, t).attacked[y]
                                \in {b.attacked[y], NoCreature, t}
         /\ \A y \in Beings : SetAttacked(b, c, t).attacked[y] = t
                                /\ t # NoCreature
                => b.attacked[y] = t \/ Sees(b, y, t)
<1> DEFINE Aim(x) == IF t # NoCreature /\ Sees(b, x, t) THEN t ELSE NoCreature
           a == [x \in Beings |-> IF x = c \/ b.master[x] = c
                                  THEN Aim(x) ELSE b.attacked[x]]
           w == [b EXCEPT !.attacked = a]
<1>0. b \in Books
  BY DEF Calm, Good
<1>1. SetAttacked(b, c, t) = w
  BY DEF SetAttacked
<1>2. a \in [Beings -> Beings \cup {NoCreature}]
  BY <1>0, BooksAre
<1>3. /\ \A x \in Beings : a[x] \in {b.attacked[x], NoCreature, t}
      /\ \A x \in Beings : a[x] = b.attacked[x] \/ x = c \/ b.master[x] = c
      /\ \A x \in Beings : \/ a[x] = b.attacked[x] \/ a[x] = NoCreature
                           \/ a[x] = t /\ t # NoCreature /\ Sees(b, x, t)
      /\ a[c] \in {NoCreature, t}
  OBVIOUS
<1> HIDE DEF a
<1>4. Turned(b, w) /\ w.attacked = a
  BY Zenon, <1>0, <1>2 DEF Turned, Books
<1> HIDE DEF w
<1>5. Blank(w)
  <2> SUFFICES ASSUME NEW x \in Beings, b.life[x] = "unborn"
               PROVE  a[x] = NoCreature
    BY <1>4 DEF Blank, Turned
  <2>1. ~Known(b, x) /\ b.attacked[x] = NoCreature
    BY DEF Known, Calm, Blank
  <2>2. b.master[x] = NoCreature
    BY <2>1 DEF Calm, Masters
  <2>3. x # c /\ b.master[x] # c
    BY <2>1, <2>2, BeingsAre
  <2> QED
    BY <1>3, <2>1, <2>3
<1>6. InView(w, z, U)
  <2> SUFFICES ASSUME NEW y \in Beings, b.life[y] = "placed",
                      a[y] # NoCreature
               PROVE  \/ b.life[a[y]] = "placed" /\ Sees(b, y, a[y])
                      \/ /\ y \in U /\ (y = z \/ a[y] = z)
                         /\ b.life[a[y]] = "placed" \/ ~Sees(b, y, a[y])
    BY <1>4, TurnedKeeps DEF InView, Turned
  <2>1. CASE a[y] = b.attacked[y]
    BY <2>1 DEF Calm, InView
  <2>2. CASE a[y] = t /\ t # NoCreature /\ Sees(b, y, t)
    BY <2>2
  <2> QED
    BY <1>3, <2>1, <2>2
<1>7. Calm(w, z, U, V, W)
  BY <1>4, <1>5, <1>6, TurnedKeeps DEF Calm
<1> QED
  BY <1>1, <1>3, <1>4, <1>7

\* It attacks nobody any more.
LEMMA StopsAttacking ==
  ASSUME NEW b, NEW z, NEW U, NEW V, NEW W, Calm(b, z, U, V, W),
         NEW c \in Beings, Known(b, c)
  PROVE  /\ Calm(SetAttacked(b, c, NoCreature), z, U, V, W)
         /\ Turned(b, SetAttacked(b, c, NoCreature))
         /\ SetAttacked(b, c, NoCreature).attacked[c] = NoCreature
         /\ \A y \in Beings : SetAttacked(b, c, NoCreature).attacked[y]
                                \in {b.attacked[y], NoCreature}
BY SetAttackedIs

\* It attacks one that it hunts.
LEMMA SelectTargetIs ==
  ASSUME NEW b, NEW z, NEW U, NEW V, NEW W, Calm(b, z, U, V, W),
         NEW m \in Monsters, Known(b, m), NEW c
  PROVE  /\ Calm(SelectTarget(b, m, c), z, U, V, W)
         /\ Turned(b, SelectTarget(b, m, c))
<1>0. b \in Books /\ m \in Beings
  BY BeingsAre DEF Calm, Good
<1>1. CASE c \in b.targets[m] /\ b.life[c] = "placed" /\ Sees(b, m, c)
  <2>1. c \in Beings /\ c # NoCreature
    BY <1>0, <1>1, BooksAre, BeingsAre
  <2>2. SelectTarget(b, m, c) = SetAttacked(b, m, c)
    BY <1>1 DEF SelectTarget
  <2> QED
    BY <1>0, <1>1, <2>1, <2>2, SetAttackedIs
<1>2. CASE ~(c \in b.targets[m] /\ b.life[c] = "placed" /\ Sees(b, m, c))
  <2>1. SelectTarget(b, m, c) = b
    BY <1>2 DEF SelectTarget
  <2> QED
    BY <1>0, <2>1 DEF Turned
<1> QED
  BY <1>1, <1>2

\* w is b, where s has another master.
Bought(b, w, s) ==
    /\ w \in Books
    /\ w.life = b.life /\ w.room = b.room /\ w.healthy = b.healthy
    /\ w.attacked = b.attacked /\ w.toRelease = b.toRelease
    /\ w.friends = b.friends /\ w.targets = b.targets
    /\ w.isIdle = b.isIdle /\ w.check = b.check
    /\ \A x \in Beings \ {s} : w.master[x] = b.master[x]

\* Another master, and the references count it.
LEMMA SetMasterIs ==
  ASSUME NEW b, Good(b), NEW s \in Beings, Known(b, s),
         NEW k \in Beings \cup {NoCreature}
  PROVE  /\ Bought(b, SetMaster(b, s, k), s) /\ Good(SetMaster(b, s, k))
         /\ SetMaster(b, s, k).master[s] = k
<1> DEFINE l == IF IsSummon(b, s) THEN Unref(b, s) ELSE b
           t == IF k # NoCreature THEN Ref(l, s) ELSE l
           w == [t EXCEPT !.master[s] = k]
           n == (IF k # NoCreature THEN 1 ELSE 0) - Serves(b, s)
<1>0. /\ b \in Books /\ \A c \in Beings : b.references[c] \in Int
      /\ \A c \in Beings : b.toRelease[c] \in Nat
  BY BooksAre DEF Good
<1>1. SetMaster(b, s, k) = w
  BY DEF SetMaster
<1>2. /\ l \in Books
      /\ l = [b EXCEPT !.references[s] = @ - Serves(b, s)]
  <2>1. CASE IsSummon(b, s)
    BY Zenon, <1>0, <2>1, RefIs DEF Serves, IsSummon
  <2>2. CASE ~IsSummon(b, s)
    <3>1. b = [b EXCEPT !.references[s] = @ - 0]
      <4>1. b.references[s] - 0 = b.references[s]
        BY <1>0
      <4> QED
        BY <1>0, <4>1 DEF Books
    <3> QED
      BY <1>0, <2>2, <3>1 DEF Serves, IsSummon
  <2> QED
    BY <2>1, <2>2
<1> HIDE DEF l
<1>3. /\ t \in Books /\ t.references[s] = b.references[s] + n
      /\ \A x \in Beings \ {s} : t.references[x] = b.references[x]
      /\ t.life = b.life /\ t.room = b.room /\ t.healthy = b.healthy
      /\ t.attacked = b.attacked /\ t.toRelease = b.toRelease
      /\ t.friends = b.friends /\ t.targets = b.targets
      /\ t.isIdle = b.isIdle /\ t.check = b.check /\ t.master = b.master
  <2>0. /\ l.references[s] = b.references[s] - Serves(b, s)
        /\ \A x \in Beings \ {s} : l.references[x] = b.references[x]
        /\ l.life = b.life /\ l.room = b.room /\ l.healthy = b.healthy
        /\ l.attacked = b.attacked /\ l.toRelease = b.toRelease
        /\ l.friends = b.friends /\ l.targets = b.targets
        /\ l.isIdle = b.isIdle /\ l.check = b.check /\ l.master = b.master
    BY <1>0, <1>2 DEF Books
  <2>0a. Serves(b, s) \in Int
    BY DEF Serves
  <2>1. CASE k # NoCreature
    <3>1. t \in Books /\ t = [l EXCEPT !.references[s] = @ + 1]
      BY Zenon, <1>2, <2>1, RefIs
    <3> HIDE DEF t
    <3>2. /\ t.references[s] = l.references[s] + 1
          /\ \A x \in Beings \ {s} : t.references[x] = l.references[x]
          /\ t.life = b.life /\ t.room = b.room /\ t.healthy = b.healthy
          /\ t.attacked = b.attacked /\ t.toRelease = b.toRelease
          /\ t.friends = b.friends /\ t.targets = b.targets
          /\ t.isIdle = b.isIdle /\ t.check = b.check /\ t.master = b.master
      BY <1>2, <2>0, <3>1 DEF Books
    <3> QED
      BY <1>0, <2>0, <2>0a, <2>1, <3>1, <3>2
  <2>2. CASE k = NoCreature
    BY <1>0, <1>2, <2>0, <2>0a, <2>2
  <2> QED
    BY <2>1, <2>2
<1> HIDE DEF t
<1>4. Bought(b, w, s) /\ w.master[s] = k /\ w.references = t.references
  <2> DEFINE g == [t.master EXCEPT ![s] = k]
  <2>1. g \in [Beings -> Beings \cup {NoCreature}]
    BY <1>3, BooksAre
  <2>2. w = [t EXCEPT !.master = g]
    OBVIOUS
  <2>3. g[s] = k /\ \A x \in Beings \ {s} : g[x] = b.master[x]
    BY <1>3, BooksAre
  <2> HIDE DEF g, w
  <2>4. w \in Books
    BY Zenon, <1>3, <2>1, <2>2 DEF Books
  <2>5. /\ w.life = b.life /\ w.room = b.room /\ w.healthy = b.healthy
        /\ w.attacked = b.attacked /\ w.toRelease = b.toRelease
        /\ w.friends = b.friends /\ w.targets = b.targets
        /\ w.isIdle = b.isIdle /\ w.check = b.check
        /\ w.master = g /\ w.references = t.references
    BY <1>3, <2>2 DEF Books
  <2> QED
    BY <2>3, <2>4, <2>5 DEF Bought
<1> HIDE DEF w
<1>5. Good(w)
  <2>1. \A c \in Beings :
            /\ w.references[c] = b.references[c]
                    + (Stands(w, c) - Stands(b, c))
                    + (Checks(w, c) - Checks(b, c))
                    + (Serves(w, c) - Serves(b, c))
                    + (w.toRelease[c] - b.toRelease[c])
            /\ w.life[c] \in {"unborn", "freed"} => w.references[c] = 0
    <3> TAKE c \in Beings
    <3>1. /\ Stands(w, c) = Stands(b, c) /\ Stands(b, c) \in Int
          /\ Checks(w, c) = Checks(b, c) /\ Checks(b, c) \in Int
          /\ w.toRelease[c] = b.toRelease[c] /\ b.toRelease[c] \in Int
          /\ b.references[c] \in Int /\ Serves(w, c) \in Int
          /\ Serves(b, c) \in Int
      BY <1>0, <1>4 DEF Bought, Stands, Checks, Serves
    <3>2. CASE c = s
      <4>1. Serves(w, c) - Serves(b, c) = n
        BY <1>4, <3>2 DEF Serves
      <4>2. w.references[c] = b.references[c] + n
        BY <1>3, <1>4, <3>2
      <4>3. w.life[c] \notin {"unborn", "freed"}
        BY <1>4, <3>2 DEF Known, Bought
      <4> HIDE DEF n
      <4> QED
        BY <3>1, <4>1, <4>2, <4>3
    <3>3. CASE c # s
      <4>1. Serves(w, c) = Serves(b, c)
        BY <1>4, <3>3 DEF Serves, Bought
      <4>2. w.references[c] = b.references[c]
        BY <1>3, <1>4, <3>3
      <4>3. w.life[c] \in {"unborn", "freed"} => b.references[c] = 0
        BY <1>4 DEF Good, Counted, Bought
      <4> QED
        BY <3>1, <4>1, <4>2, <4>3
    <3> QED
      BY <3>2, <3>3
  <2> QED
    BY <1>4, <2>1, CountedAnew DEF Bought
<1> QED
  BY <1>1, <1>4, <1>5

\* It has no master any more.
LEMMA LosesMaster ==
  ASSUME NEW b, NEW z, NEW U, NEW V, NEW W, Calm(b, z, U, V, W),
         NEW s \in Beings, Known(b, s),
         b.healthy[s] => \A p \in Humans : <<s, p>> \in W
  PROVE  /\ Calm(SetMaster(b, s, NoCreature), z, U, V, W)
         /\ Bought(b, SetMaster(b, s, NoCreature), s)
         /\ SetMaster(b, s, NoCreature).master[s] = NoCreature
<1> DEFINE w == SetMaster(b, s, NoCreature)
<1>1. Good(w) /\ Bought(b, w, s) /\ w.master[s] = NoCreature
  BY SetMasterIs DEF Calm
<1> HIDE DEF w
<1>2. Masters(w)
  <2>1. \A x \in Beings : w.master[x] \in {b.master[x], NoCreature}
    BY <1>1 DEF Bought
  <2>2. \A x \in Beings : b.master[x] \in Beings \cup {NoCreature}
    BY BooksAre DEF Calm, Good
  <2> QED
    BY <1>1, <2>1, <2>2 DEF Calm, Masters, Bought, Known
<1>3. Released(w) /\ Blank(w)
  BY <1>1 DEF Calm, Released, Blank, Bought
<1>4. \A m \in Monsters : Mind(w, m)
  BY <1>1 DEF Calm, Mind, Bought
<1>5. PlayersThink(w, V) /\ InView(w, z, U)
  BY <1>1 DEF Calm, PlayersThink, InView, Bought, Sees
<1>6. Watch(w, W)
  <2> SUFFICES ASSUME NEW x \in Monsters, NEW p \in Humans,
                      Wild(w, x), w.life[p] = "placed", Sees(w, x, p)
               PROVE  Knows(w, x, p) \/ <<x, p>> \in W
    BY DEF Watch
  <2>1. CASE x = s
    BY <1>1, <2>1 DEF Wild, Bought
  <2>2. CASE x # s
    <3>1. Wild(b, x) /\ b.life[p] = "placed" /\ Sees(b, x, p)
      BY <1>1, <2>2, BeingsAre DEF Bought, Wild, IsSummon, Sees
    <3> QED
      BY <1>1, <3>1 DEF Calm, Watch, Knows, Bought
  <2> QED
    BY <2>1, <2>2
<1> QED
  BY <1>1, <1>2, <1>3, <1>4, <1>5, <1>6 DEF Calm, w

\* The pairs of a monster of R and a player that are not settled when c
\* appears or moves; those of F saw c before.
Pending(R, c, F) ==
    {q \in Monsters \X Humans :
        q[1] \in R /\ (q[1] = c \/ (q[2] = c /\ q[1] \notin F))}

\* Who is pending.
LEMMA PendingIs ==
  ASSUME NEW R, NEW c, NEW F, NEW m \in Monsters, NEW p \in Humans
  PROVE  <<m, p>> \in Pending(R, c, F)
            <=> m \in R /\ (m = c \/ (p = c /\ m \notin F))
BY DEF Pending

\* All pairs with c.
LEMMA PendingAll ==
  ASSUME NEW c, NEW W
  PROVE  /\ \A p \in Humans : c \in Monsters
                => <<c, p>> \in W \cup Pending(Monsters, c, {})
         /\ \A m \in Monsters : c \in Humans
                => <<m, c>> \in W \cup Pending(Monsters, c, {})
         /\ \A m \in Monsters, p \in Humans : m # c /\ p # c =>
                (<<m, p>> \in W \cup Pending(Monsters, c, {})
                    => <<m, p>> \in W)
<1> DEFINE P == Pending(Monsters, c, {})
<1>1. ASSUME NEW m \in Monsters, NEW p \in Humans
      PROVE  <<m, p>> \in P <=> m = c \/ p = c
  BY PendingIs
<1> HIDE DEF P
<1>2. ASSUME NEW m \in Monsters, NEW p \in Humans, m # c, p # c,
             <<m, p>> \in W \cup P
      PROVE  <<m, p>> \in W
  BY <1>1, <1>2
<1>3. /\ \A p \in Humans : c \in Monsters => <<c, p>> \in W \cup P
      /\ \A m \in Monsters : c \in Humans => <<m, c>> \in W \cup P
  BY <1>1
<1> QED
  BY <1>2, <1>3 DEF P

\* Fewer are exempt.
LEMMA CalmMore ==
  ASSUME NEW b, NEW z, NEW U, NEW V, NEW W, NEW X, Calm(b, z, U, V, W)
  PROVE  Calm(b, z, U, V, W \cup X)
BY DEF Calm, Watch

-----------------------------------------------------------------------------
\* From w to v while everybody is told that c goes.
Parting(w, v, c) ==
    /\ v.life = w.life /\ v.room = w.room /\ v.healthy = w.healthy
    /\ v.toRelease = w.toRelease
    /\ \A x \in Beings \ {c} : v.master[x] = w.master[x]
    /\ v.master[c] \in {w.master[c], NoCreature}
    /\ \A y \in Beings : v.attacked[y] \in {w.attacked[y], NoCreature}
    /\ \A p \in Humans : v.check[p] = w.check[p]
    /\ c \in Monsters => /\ v.friends[c] \subseteq w.friends[c]
                         /\ v.targets[c] \subseteq w.targets[c]

\* One after the other.
LEMMA PartingTwice ==
  ASSUME NEW b, NEW w, NEW v, NEW c, Parting(b, w, c), Parting(w, v, c)
  PROVE  Parting(b, v, c)
<1>1. \A y \in Beings : v.attacked[y] \in {b.attacked[y], NoCreature}
  BY DEF Parting
<1>2. c \in Monsters => /\ v.friends[c] \subseteq b.friends[c]
                        /\ v.targets[c] \subseteq b.targets[c]
  BY DEF Parting
<1> QED
  BY <1>1, <1>2 DEF Parting

\* x knows that c has gone.
Told(b, w, x, c) ==
    /\ w.attacked[x] # c
    /\ x = c /\ c \in Monsters /\ b.healthy[c]
            => w.friends[c] = {} /\ w.targets[c] = {}
    /\ x = c /\ b.master[c] # NoCreature
             /\ b.life[b.master[c]] # "removed" => w.master[c] = NoCreature

\* What one was told it knows until the end.
LEMMA ToldStays ==
  ASSUME NEW b, NEW w, NEW v, NEW c \in Beings, NEW x \in Beings,
         Told(b, w, x, c), Parting(w, v, c)
  PROVE  Told(b, v, x, c)
<1>1. v.attacked[x] # c
  BY BeingsAre DEF Told, Parting
<1>2. x = c /\ c \in Monsters /\ b.healthy[c]
            => v.friends[c] = {} /\ v.targets[c] = {}
  BY DEF Told, Parting
<1> QED
  BY <1>1, <1>2 DEF Told, Parting

\* A monster attends while another one goes.
LEMMA TouchedParts ==
  ASSUME NEW w, NEW v, NEW m \in Monsters, NEW c, Touched(w, v, m),
         m = c => /\ v.friends[c] \subseteq w.friends[c]
                  /\ v.targets[c] \subseteq w.targets[c]
  PROVE  Parting(w, v, c)
BY BeingsAre DEF Parting, Touched

\* x is told that c goes.
LEMMA OnRemoveIs ==
  ASSUME NEW w, NEW z, NEW U, NEW V, NEW W, Calm(w, z, U, V, W),
         NEW c \in Beings, w.life[c] = "placed",
         NEW x \in Beings, w.life[x] = "placed",
         \A p \in Humans : c \in Monsters => <<c, p>> \in W,
         \A m \in Monsters : c \in Humans => <<m, c>> \in W
  PROVE  /\ Calm(OnRemove(w, x, c), z, U, V, W)
         /\ Parting(w, OnRemove(w, x, c), c)
         /\ Told(w, OnRemove(w, x, c), x, c)
<1> DEFINE l == Disappeared(w, x, c)
           Owned == x = c /\ IsSummon(w, c) /\ w.life[w.master[c]] # "removed"
           f == IF Owned THEN SetMaster(l, c, NoCreature) ELSE l
           v == OnRemove(w, x, c)
<1>0. w \in Books /\ Known(w, c) /\ Known(w, x)
  BY DEF Calm, Good, Known
<1>1. v = IF x \in Humans THEN f
          ELSE IF x = c THEN SetIdle(f, c, TRUE) ELSE Left(f, x, c)
  BY DEF OnRemove
<1> SUFFICES Calm(v, z, U, V, W) /\ Parting(w, v, c) /\ Told(w, v, x, c)
  OBVIOUS
<1> HIDE DEF v
<1>2. Calm(l, z, U, V, W) /\ Turned(w, l) /\ l.attacked[x] # c
      /\ \A y \in Beings : l.attacked[y] \in {w.attacked[y], NoCreature}
  <2>1. CASE w.attacked[x] = c
    <3>1. l = SetAttacked(w, x, NoCreature)
      BY <2>1 DEF Disappeared
    <3> QED
      BY <1>0, <3>1, StopsAttacking, BeingsAre
  <2>2. CASE w.attacked[x] # c
    <3>1. l = w
      BY <2>2 DEF Disappeared
    <3> QED
      BY <1>0, <2>2, <3>1 DEF Turned
  <2> QED
    BY <2>1, <2>2
<1> HIDE DEF l
<1>3. Parting(w, l, c)
  BY <1>2 DEF Turned, Parting
<1>4. /\ Calm(f, z, U, V, W) /\ Parting(w, f, c) /\ f.attacked[x] # c
      /\ Owned => f.master[c] = NoCreature
  <2>1. CASE Owned
    <3> DEFINE k == SetMaster(l, c, NoCreature)
    <3>1. f = k /\ c \in Monsters
      BY <2>1 DEF Calm, Masters, IsSummon
    <3>2. Known(l, c)
      BY <1>0, <1>2, TurnedKeeps
    <3>3. Calm(k, z, U, V, W) /\ Bought(l, k, c) /\ k.master[c] = NoCreature
      BY <1>2, <3>1, <3>2, LosesMaster
    <3> HIDE DEF k, f
    <3>4. Parting(l, k, c)
      BY <3>3 DEF Parting, Bought
    <3>5. k.attacked[x] # c
      BY <1>2, <3>3 DEF Bought
    <3> QED
      BY <1>3, <3>1, <3>3, <3>4, <3>5, PartingTwice
  <2>2. CASE ~Owned
    BY <1>2, <1>3, <2>2
  <2> QED
    BY <2>1, <2>2
<1>5. Owned <=> x = c /\ w.master[c] # NoCreature
                    /\ w.life[w.master[c]] # "removed"
  BY DEF IsSummon
<1> HIDE DEF f, Owned
<1>6. CASE x \in Humans
  BY <1>1, <1>4, <1>5, <1>6, BeingsAre DEF Told
<1>7. CASE x \notin Humans
  <2>1. x \in Monsters
    BY <1>7 DEF Beings
  <2>2. Good(f) /\ Known(f, x) /\ Mind(f, x) /\ f.life = w.life
        /\ f.healthy = w.healthy
    BY <1>0, <1>4, <2>1 DEF Calm, Parting, Known
  <2>3. CASE x = c
    <3>1. v = SetIdle(f, c, TRUE)
      BY <1>1, <1>7, <2>3
    <3>2. CASE ~f.healthy[c]
      <4>1. v = f
        BY <3>1, <3>2 DEF SetIdle
      <4> QED
        BY <1>4, <1>5, <2>2, <3>2, <4>1 DEF Told
    <3>3. CASE f.healthy[c]
      <4>1. Became(f, v, c, {}, {}, TRUE,
                   IF f.check[c] = "none" THEN "none" ELSE "leaves")
        <5>1. ~(f.life[c] = "removed" \/ ~f.healthy[c])
          BY <2>2, <3>3
        <5> QED
          BY Zenon, <2>1, <2>2, <2>3, <3>1, <5>1, SetIdleIs
      <4>2. Mind(v, c)
        BY <2>2, <4>1 DEF Mind, Became, Touched
      <4>3. Calm(v, z, U, V, W)
        BY <1>4, <2>1, <2>3, <4>1, <4>2, TouchedIsCalm DEF Became
      <4>4. Parting(f, v, c)
        BY <2>1, <2>3, <4>1, TouchedParts DEF Became
      <4>5. v.attacked = f.attacked /\ v.master = f.master
        BY <4>1 DEF Became, Touched
      <4>6. Told(w, v, x, c)
        BY <1>4, <1>5, <2>3, <4>1, <4>5 DEF Told, Became
      <4> QED
        BY <1>4, <4>3, <4>4, <4>6, PartingTwice
    <3> QED
      BY <3>2, <3>3
  <2>4. CASE x # c
    <3>1. v = Left(f, x, c)
      BY <1>1, <1>7, <2>4
    <3>2. Attends(f, v, x, c)
      BY <2>1, <2>2, <3>1, LeftIs
    <3>3. \A p \in Humans : Wild(f, x) /\ Sees(f, x, p) /\ Knows(f, x, p)
                                => Knows(v, x, p) \/ <<x, p>> \in W
      BY <2>1, <3>2, BeingsAre DEF Attends
    <3>4. Calm(v, z, U, V, W)
      BY <1>4, <2>1, <3>2, <3>3, TouchedIsCalm DEF Attends
    <3>5. Parting(f, v, c)
      BY <2>1, <2>4, <3>2, TouchedParts DEF Attends
    <3>6. v.attacked = f.attacked
      BY <3>2 DEF Attends, Touched
    <3>7. Told(w, v, x, c)
      BY <1>4, <2>4, <3>6 DEF Told
    <3> QED
      BY <1>4, <3>4, <3>5, <3>7, PartingTwice
  <2> QED
    BY <2>3, <2>4
<1> QED
  BY <1>6, <1>7

-----------------------------------------------------------------------------
(* removeCreature, one spectator at a time. *)
OneTold(b, c, w, x) ==
    IF x \in {y \in Placed(b) : Sees(b, y, c)} THEN OnRemove(w, x, c) ELSE w

TellAllOnce(g, s, b, c) ==
    IF s = {} THEN b
    ELSE OneTold(b, c, g[s \ {Latest(s)}], Order[Latest(s)])

TellAll(b, c) ==
    (CHOOSE g : g = [s \in SUBSET DOMAIN Order |->
                        TellAllOnce(g, s, b, c)])[DOMAIN Order]

TellAllBy(h, D, b, c) ==
    /\ h \in [0 .. Len(Order) -> D]
    /\ h[0] = b /\ TellAll(b, c) = h[Len(Order)]
    /\ \A i \in 1 .. Len(Order) : h[i] = OneTold(b, c, h[i - 1], Order[i])

\* All who see it are told, one by one.
LEMMA TellAllSteps ==
  ASSUME NEW b, NEW c, NEW D, b \in D,
         \A w \in D : \A x \in Beings : OneTold(b, c, w, x) \in D
  PROVE  \E h : TellAllBy(h, D, b, c)
<1> DEFINE n == Len(Order)
           S == 1 .. n
           op == [a \in S \X D |-> OneTold(b, c, a[2], Order[a[1]])]
           f == CHOOSE g : g = [s \in SUBSET S |-> TellAllOnce(g, s, b, c)]
<1>1. n \in Nat /\ S = DOMAIN Order /\ \A i \in S : Order[i] \in Beings
  BY OrderIs
<1>2. TellAll(b, c) = f[S]
  BY Zenon, <1>1 DEF TellAll
<1>3. op \in [S \X D -> D] /\ \A i \in S : \A w \in D :
            op[<<i, w>>] = OneTold(b, c, w, Order[i])
  BY <1>1
<1>3a. S = 1 .. n
  OBVIOUS
<1> HIDE DEF op, n, S
<1>4. PICK k \in [SUBSET S -> D] : FoldedFromLeft(k, S, b, op)
  BY Zenon, <1>1, <1>3, <1>3a, LeftExists
<1>5. k = [s \in SUBSET S |-> TellAllOnce(k, s, b, c)]
  <2> SUFFICES ASSUME NEW s \in SUBSET S
               PROVE  k[s] = TellAllOnce(k, s, b, c)
    OBVIOUS
  <2>1. CASE s = {}
    BY Zenon, <1>4, <2>1 DEF FoldedFromLeft, FromLeft, TellAllOnce
  <2>2. CASE s # {}
    <3>1. Latest(s) \in S /\ s \ {Latest(s)} \in SUBSET S
      BY Zenon, <1>1, <1>3a, <2>2, LatestIs
    <3>2. k[s \ {Latest(s)}] \in D
      BY <3>1
    <3>3. k[s] = op[<<Latest(s), k[s \ {Latest(s)}]>>]
      BY <1>4, <2>2 DEF FoldedFromLeft, FromLeft
    <3> QED
      BY <1>3, <2>2, <3>1, <3>2, <3>3 DEF TellAllOnce
  <2> QED
    BY <2>1, <2>2
<1>6. f = [s \in SUBSET S |-> TellAllOnce(f, s, b, c)]
  BY <1>5
<1> HIDE DEF f
<1>7. f[{}] = b
  <2>1. f[{}] = TellAllOnce(f, {}, b, c)
    BY <1>6
  <2> QED
    BY <2>1 DEF TellAllOnce
<1>8. ASSUME NEW s \in SUBSET S, s # {}, f[s \ {Latest(s)}] \in D
      PROVE  f[s] = op[<<Latest(s), f[s \ {Latest(s)}]>>]
  <2>1. Latest(s) \in S
    BY Zenon, <1>1, <1>3a, <1>8, LatestIs
  <2>2. f[s] = TellAllOnce(f, s, b, c)
    BY <1>6
  <2> QED
    BY Zenon, <1>3, <1>8, <2>1, <2>2 DEF TellAllOnce
<1>9. PICK h \in [0 .. n -> D] : StepByStep(h, n, b, op) /\ f[S] = h[n]
  <2>1. op \in [S \X D -> D] /\ n \in Nat /\ b \in D
    BY <1>1, <1>3
  <2>2. GoesFromLeft(f, S, D, b, op)
    BY Zenon, <1>7, <1>8 DEF GoesFromLeft
  <2>3. HasSteps(n, D, b, op, f[S])
    BY Zenon, <1>3a, <2>1, <2>2, LeftSteps
  <2> QED
    BY Zenon, <2>3 DEF HasSteps
<1>10. ASSUME NEW i \in 1 .. n
       PROVE  h[i] = OneTold(b, c, h[i - 1], Order[i])
  <2>1. i \in S /\ i - 1 \in 0 .. n
    BY <1>1, <1>3a
  <2>2. h[i - 1] \in D
    BY <2>1
  <2> QED
    BY Zenon, <1>3, <1>9, <2>1, <2>2 DEF StepByStep
<1> QED
  BY <1>2, <1>9, <1>10 DEF StepByStep, TellAllBy, n

\* What leaves the map is to be released.
OffTheMap(b, c) ==
    [b EXCEPT !.life[c] = "removed", !.toRelease[c] = @ + 1]

\* Removal without summons, told one by one.
LEMMA RemoveOneUnfolds ==
  ASSUME NEW b, NEW c
  PROVE  RemoveOne(b, c) =
            IF c \notin Placed(b) THEN b
            ELSE RemoveCheck(OffTheMap(TellAll(b, c), c), c)
BY DEF RemoveOne, OffTheMap, TellAll, FoldLeft, MapThenFoldSet,
       TellAllOnce, OneTold, Latest, Max

\* What x knows it knows of the c that there was at first.
LEMMA ToldFromStart ==
  ASSUME NEW b, NEW w, NEW v, NEW c \in Beings, NEW x \in Beings,
         Parting(b, w, c), Parting(w, v, c), Told(w, v, x, c)
  PROVE  Told(b, v, x, c)
<1>1. x = c /\ c \in Monsters /\ b.healthy[c]
            => v.friends[c] = {} /\ v.targets[c] = {}
  BY DEF Told, Parting
<1>2. x = c /\ b.master[c] # NoCreature /\ b.life[b.master[c]] # "removed"
            => v.master[c] = NoCreature
  BY DEF Told, Parting
<1> QED
  BY <1>1, <1>2 DEF Told

\* All who see c are told that it goes.
LEMMA TellAllIs ==
  ASSUME NEW b, NEW z, NEW U, NEW V, NEW W, Calm(b, z, U, V, W),
         NEW c \in Beings, b.life[c] = "placed"
  PROVE  /\ Calm(TellAll(b, c), z, U, V,
                 W \cup Pending(Monsters, c, {}))
         /\ Parting(b, TellAll(b, c), c)
         /\ \A x \in Beings : b.life[x] = "placed" /\ Sees(b, x, c)
                => Told(b, TellAll(b, c), x, c)
<1> DEFINE X == W \cup Pending(Monsters, c, {})
           D == {w \in Books : Calm(w, z, U, V, X) /\ Parting(b, w, c)}
           Seen(x) == x \in {y \in Placed(b) : Sees(b, y, c)}
           E == [i \in 0 .. Len(Order) |->
                    {w \in D : \A j \in 1 .. i :
                        Seen(Order[j]) => Told(b, w, Order[j], c)}]
<1>0. /\ \A p \in Humans : c \in Monsters => <<c, p>> \in X
      /\ \A m \in Monsters : c \in Humans => <<m, c>> \in X
  BY PendingAll
<1>1. b \in D
  <2>1. Calm(b, z, U, V, X)
    BY CalmMore
  <2>2. Parting(b, b, c)
    BY DEF Parting
  <2> QED
    BY <2>1, <2>2 DEF Calm, Good
<1> HIDE DEF X
<1>2. ASSUME NEW w \in D, NEW x \in Beings
      PROVE  /\ OneTold(b, c, w, x) \in D
             /\ Parting(w, OneTold(b, c, w, x), c)
             /\ Seen(x) => Told(b, OneTold(b, c, w, x), x, c)
  <2> DEFINE v == OnRemove(w, x, c)
  <2>0. Calm(w, z, U, V, X) /\ Parting(b, w, c) /\ w \in Books
    OBVIOUS
  <2>1. CASE Seen(x)
    <3>1. w.life[x] = "placed" /\ w.life[c] = "placed"
      BY <2>0, <2>1 DEF Placed, Parting
    <3>2. Calm(v, z, U, V, X) /\ Parting(w, v, c) /\ Told(w, v, x, c)
      BY <1>0, <2>0, <3>1, OnRemoveIs
    <3> HIDE DEF v
    <3>3. Parting(b, v, c) /\ Told(b, v, x, c)
      BY <2>0, <3>2, PartingTwice, ToldFromStart
    <3>4. v \in D
      BY <3>2, <3>3 DEF Calm, Good
    <3>5. OneTold(b, c, w, x) = v
      BY <2>1 DEF OneTold, v
    <3> QED
      BY <3>2, <3>3, <3>4, <3>5
  <2>2. CASE ~Seen(x)
    <3>1. OneTold(b, c, w, x) = w
      BY <2>2 DEF OneTold
    <3>2. Parting(w, w, c)
      BY DEF Parting
    <3> QED
      BY <2>2, <3>1, <3>2
  <2> QED
    BY <2>1, <2>2
<1> HIDE DEF D, Seen
<1>3. PICK h : TellAllBy(h, D, b, c)
  <2>1. \A w \in D : \A x \in Beings : OneTold(b, c, w, x) \in D
    BY <1>2
  <2> QED
    BY Zenon, <1>1, <2>1, TellAllSteps
<1>4. /\ h \in [0 .. Len(Order) -> D]
      /\ h[0] = b /\ TellAll(b, c) = h[Len(Order)]
      /\ \A i \in 1 .. Len(Order) : h[i] = OneTold(b, c, h[i - 1], Order[i])
  BY <1>3 DEF TellAllBy
<1>5. h[0] \in E[0]
  BY <1>1, <1>4, OrderIs
<1>6. ASSUME NEW i \in 1 .. Len(Order), h[i - 1] \in E[i - 1]
      PROVE  h[i] \in E[i]
  <2>1. /\ i \in 0 .. Len(Order) /\ i - 1 \in 0 .. Len(Order)
        /\ Order[i] \in Beings
        /\ \A j \in 1 .. i : j = i \/ j \in 1 .. (i - 1)
        /\ \A j \in 1 .. i : Order[j] \in Beings
    BY OrderIs
  <2>2. /\ h[i - 1] \in D
        /\ \A j \in 1 .. (i - 1) :
                Seen(Order[j]) => Told(b, h[i - 1], Order[j], c)
    BY <1>6, <2>1
  <2>3. /\ h[i] \in D /\ Parting(h[i - 1], h[i], c)
        /\ Seen(Order[i]) => Told(b, h[i], Order[i], c)
    BY <1>2, <1>4, <2>1, <2>2
  <2>4. \A j \in 1 .. (i - 1) : Seen(Order[j]) => Told(b, h[i], Order[j], c)
    BY <2>1, <2>2, <2>3, ToldStays
  <2>5. \A j \in 1 .. i : Seen(Order[j]) => Told(b, h[i], Order[j], c)
    BY <2>1, <2>3, <2>4
  <2> QED
    BY <2>1, <2>3, <2>5
<1>7. TellAll(b, c) \in E[Len(Order)]
  <2>1. h[Len(Order)] \in E[Len(Order)]
    <3> HIDE DEF E
    <3> QED
      BY Zenon, <1>5, <1>6, OrderIs, StepsFit
  <2> QED
    BY <1>4, <2>1
<1>8. /\ TellAll(b, c) \in D
      /\ \A j \in 1 .. Len(Order) :
            Seen(Order[j]) => Told(b, TellAll(b, c), Order[j], c)
  BY <1>7, OrderIs
<1>9. \A x \in Beings : Seen(x) => Told(b, TellAll(b, c), x, c)
  BY <1>8, OrderIs
<1>10. \A x \in Beings : b.life[x] = "placed" /\ Sees(b, x, c) => Seen(x)
  BY DEF Seen, Placed
<1> QED
  BY <1>8, <1>9, <1>10 DEF D, X

\* w is b, when c has gone.
Gone(b, w, c) ==
    /\ w.room = b.room /\ w.healthy = b.healthy
    /\ \A x \in Beings \ {c} : /\ w.life[x] = b.life[x]
                               /\ w.master[x] = b.master[x]
    /\ w.life[c] = IF b.life[c] = "placed" THEN "removed" ELSE b.life[c]
    /\ w.master[c] \in {b.master[c], NoCreature}

\* The books when c leaves the map and is to be released.
LEMMA BooksReleased ==
  ASSUME NEW b \in Books, NEW c \in Beings, NEW w,
         w = OffTheMap(b, c)
  PROVE  /\ w \in Books /\ w.room = b.room /\ w.healthy = b.healthy
         /\ w.master = b.master /\ w.attacked = b.attacked
         /\ w.friends = b.friends /\ w.targets = b.targets
         /\ w.isIdle = b.isIdle /\ w.check = b.check
         /\ w.references = b.references
         /\ w.life[c] = "removed" /\ w.toRelease[c] = b.toRelease[c] + 1
         /\ \A x \in Beings \ {c} : /\ w.life[x] = b.life[x]
                                    /\ w.toRelease[x] = b.toRelease[x]
<1> DEFINE l == [b.life EXCEPT ![c] = "removed"]
           r == [b.toRelease EXCEPT ![c] = @ + 1]
<1>1. /\ l \in [Beings -> Lives] /\ l[c] = "removed"
      /\ \A x \in Beings \ {c} : l[x] = b.life[x]
  BY BooksAre DEF Lives
<1>2. /\ r \in [Beings -> Nat] /\ r[c] = b.toRelease[c] + 1
      /\ \A x \in Beings \ {c} : r[x] = b.toRelease[x]
  BY BooksAre
<1>3. w = [b EXCEPT !.life = l, !.toRelease = r]
  BY DEF OffTheMap
<1> HIDE DEF l, r
<1>4. w \in Books /\ w.life = l /\ w.toRelease = r
  BY Zenon, <1>1, <1>2, <1>3 DEF Books
<1>5. /\ w.room = b.room /\ w.healthy = b.healthy
      /\ w.master = b.master /\ w.attacked = b.attacked
      /\ w.friends = b.friends /\ w.targets = b.targets
      /\ w.isIdle = b.isIdle /\ w.check = b.check
      /\ w.references = b.references
  BY <1>3 DEF Books
<1> QED
  BY <1>1, <1>2, <1>4, <1>5

\* One creature is removed.
LEMMA RemoveOneIs ==
  ASSUME NEW b, NEW z, NEW U, NEW V, NEW W, Calm(b, z, U, V, W),
         NEW c \in Beings
  PROVE  Calm(RemoveOne(b, c), z, U, V, W) /\ Gone(b, RemoveOne(b, c), c)
<1> DEFINE t == TellAll(b, c)
           q == OffTheMap(t, c)
           r == RemoveCheck(q, c)
           X == W \cup Pending(Monsters, c, {})
<1>0. b \in Books
  BY DEF Calm, Good
<1>1. CASE b.life[c] # "placed"
  <2>1. RemoveOne(b, c) = b
    BY <1>1, RemoveOneUnfolds DEF Placed
  <2> QED
    BY <1>1, <2>1 DEF Gone
<1>2. CASE b.life[c] = "placed"
  <2>1. RemoveOne(b, c) = r
    BY <1>2, RemoveOneUnfolds DEF Placed
  <2> SUFFICES Calm(r, z, U, V, W) /\ Gone(b, r, c)
    BY <2>1
  <2>2. /\ Calm(t, z, U, V, X) /\ Parting(b, t, c)
        /\ \A x \in Beings : b.life[x] = "placed" /\ Sees(b, x, c)
                => Told(b, t, x, c)
    BY <1>2, TellAllIs
  <2>3. \A m \in Monsters, p \in Humans : m # c /\ p # c =>
            (<<m, p>> \in X => <<m, p>> \in W)
    BY PendingAll
  <2> HIDE DEF t, X
  <2>4. t \in Books /\ t.life = b.life /\ t.life[c] = "placed"
        /\ t.toRelease[c] = 0
    BY <1>2, <2>2 DEF Calm, Good, Parting, Released
  <2>5. /\ q \in Books /\ q.room = t.room /\ q.healthy = t.healthy
        /\ q.master = t.master /\ q.attacked = t.attacked
        /\ q.friends = t.friends /\ q.targets = t.targets
        /\ q.isIdle = t.isIdle /\ q.check = t.check
        /\ q.references = t.references
        /\ q.life[c] = "removed" /\ q.toRelease[c] = 1
        /\ \A x \in Beings \ {c} : /\ q.life[x] = t.life[x]
                                   /\ q.toRelease[x] = t.toRelease[x]
    <3>1. q = OffTheMap(t, c)
      OBVIOUS
    <3> HIDE DEF q
    <3>2. q.toRelease[c] = t.toRelease[c] + 1
      BY <2>4, <3>1, BooksReleased
    <3>3. q.toRelease[c] = 1
      BY <2>4, <3>2
    <3> QED
      BY <2>4, <3>1, <3>3, BooksReleased
  <2> HIDE DEF q
  <2>6. Good(q)
    <3>1. ASSUME NEW x \in Beings
          PROVE  /\ q.references[x] = t.references[x]
                    + (Stands(q, x) - Stands(t, x))
                    + (Checks(q, x) - Checks(t, x))
                    + (Serves(q, x) - Serves(t, x))
                    + (q.toRelease[x] - t.toRelease[x])
                 /\ q.life[x] \in {"unborn", "freed"} => q.references[x] = 0
      <4>1. t.references[x] \in Int /\ t.toRelease[x] \in Nat
        BY <2>4, BooksAre
      <4>2. /\ Checks(q, x) = Checks(t, x) /\ Checks(t, x) \in Int
            /\ Serves(q, x) = Serves(t, x) /\ Serves(t, x) \in Int
        BY <2>5 DEF Checks, Serves
      <4>3. t.life[x] \in {"unborn", "freed"} => t.references[x] = 0
        BY <2>2 DEF Calm, Good, Counted
      <4> QED
        BY <2>4, <2>5, <4>1, <4>2, <4>3 DEF Stands
    <3> QED
      BY <2>2, <2>5, <3>1, CountedAnew DEF Calm
  <2>7. Became(q, r, c, q.friends[c], q.targets[c], q.isIdle[c],
               IF q.check[c] = "none" THEN "none" ELSE "leaves")
    BY <2>6, RemoveCheckIs
  <2> HIDE DEF r
  <2>8. /\ Good(r) /\ r.room = t.room /\ r.healthy = t.healthy
        /\ r.master = t.master /\ r.attacked = t.attacked
        /\ \A m \in Monsters : /\ r.friends[m] = t.friends[m]
                               /\ r.targets[m] = t.targets[m]
                               /\ r.isIdle[m] = t.isIdle[m]
        /\ r.life[c] = "removed" /\ r.toRelease[c] = 1
        /\ \A x \in Beings \ {c} : /\ r.life[x] = t.life[x]
                                   /\ r.toRelease[x] = t.toRelease[x]
                                   /\ r.check[x] = t.check[x]
        /\ r.check[c] # "thinks"
    BY <2>5, <2>7 DEF Became, Touched
  <2>9. Gone(b, r, c)
    BY <1>2, <2>2, <2>8 DEF Gone, Parting
  <2>10. Told(b, t, c, c)
    BY <1>2, <2>2 DEF Sees
  <2>11. Masters(r)
    <3> SUFFICES ASSUME NEW s \in Beings, t.master[s] # NoCreature
        PROVE  /\ s \in Monsters /\ t.master[t.master[s]] = NoCreature
               /\ Known(r, s) /\ Known(r, t.master[s])
               /\ r.life[s] = "removed" => r.life[t.master[s]] = "removed"
      BY <2>8 DEF Masters
    <3>1. /\ s \in Monsters /\ t.master[t.master[s]] = NoCreature
          /\ Known(t, s) /\ Known(t, t.master[s])
          /\ t.life[s] = "removed" => t.life[t.master[s]] = "removed"
      BY <2>2 DEF Calm, Masters
    <3>2. t.master[s] \in Beings
      BY <2>4, BooksAre
    <3>3. Known(r, s) /\ Known(r, t.master[s])
      BY <2>8, <3>1, <3>2 DEF Known
    <3>4. CASE s = c
      <4>1. b.master[c] = t.master[c]
        BY <2>2, <3>4 DEF Parting
      <4>2. b.life[b.master[c]] = "removed"
        BY <2>10, <3>4, <4>1 DEF Told
      <4> QED
        BY <2>4, <2>8, <3>1, <3>2, <3>3, <3>4, <4>1, <4>2
    <3>5. CASE s # c
      BY <2>8, <3>1, <3>2, <3>3, <3>5
    <3> QED
      BY <3>4, <3>5
  <2>12. Released(r)
    BY <2>2, <2>8 DEF Calm, Released
  <2>13. Blank(r)
    BY <2>2, <2>8 DEF Calm, Blank
  <2>14. ASSUME NEW m \in Monsters PROVE Mind(r, m)
    <3>1. Mind(t, m) /\ m \in Beings
      BY <2>2, BeingsAre DEF Calm
    <3>2. CASE m # c
      BY <2>8, <3>1, <3>2 DEF Mind
    <3>3. CASE m = c
      <4>1. b.healthy[c] => t.friends[c] = {} /\ t.targets[c] = {}
        BY <2>10, <3>3 DEF Told
      <4>2. r.healthy[c] = b.healthy[c]
        BY <2>2, <2>8 DEF Parting
      <4> QED
        BY <2>8, <3>3, <4>1, <4>2 DEF Mind
    <3> QED
      BY <3>2, <3>3
  <2>15. PlayersThink(r, V)
    BY <2>2, <2>8, BeingsAre DEF Calm, PlayersThink
  <2>16. InView(r, z, U)
    <3> SUFFICES ASSUME NEW y \in Beings, r.life[y] = "placed",
                        t.attacked[y] # NoCreature
        PROVE  \/ r.life[t.attacked[y]] = "placed"
                    /\ Sees(t, y, t.attacked[y])
               \/ /\ y \in U /\ (y = z \/ t.attacked[y] = z)
                  /\ \/ r.life[t.attacked[y]] = "placed"
                     \/ ~Sees(t, y, t.attacked[y])
      BY <2>8 DEF InView, Sees
    <3>1. y # c /\ t.life[y] = "placed"
      BY <2>8
    <3>2. \/ t.life[t.attacked[y]] = "placed" /\ Sees(t, y, t.attacked[y])
          \/ /\ y \in U /\ (y = z \/ t.attacked[y] = z)
             /\ \/ t.life[t.attacked[y]] = "placed"
                \/ ~Sees(t, y, t.attacked[y])
      BY <2>2, <3>1 DEF Calm, InView
    <3>3. t.attacked[y] \in Beings
      BY <2>4, BooksAre
    <3>4. CASE t.attacked[y] # c
      BY <2>8, <3>2, <3>3, <3>4
    <3>5. CASE t.attacked[y] = c
      <4>1. ~Sees(b, y, c)
        BY <2>2, <2>4, <3>1, <3>5 DEF Told
      <4>2. ~Sees(t, y, c)
        BY <2>2, <4>1 DEF Parting, Sees
      <4> QED
        BY <3>2, <3>5, <4>2
    <3> QED
      BY <3>4, <3>5
  <2>17. Watch(r, W)
    <3> SUFFICES ASSUME NEW m \in Monsters, NEW p \in Humans, Wild(r, m),
                        r.life[p] = "placed", Sees(r, m, p)
        PROVE  Knows(r, m, p) \/ <<m, p>> \in W
      BY DEF Watch
    <3>1. m # c /\ p # c /\ m \in Beings /\ p \in Beings
      BY <2>8, BeingsAre DEF Wild
    <3>2. Wild(t, m) /\ t.life[p] = "placed" /\ Sees(t, m, p)
      BY <2>8, <3>1 DEF Wild, IsSummon, Sees
    <3>3. Knows(t, m, p) \/ <<m, p>> \in X
      BY <2>2, <3>2 DEF Calm, Watch
    <3>4. Knows(r, m, p) <=> Knows(t, m, p)
      BY <2>8 DEF Knows
    <3> QED
      BY <2>3, <3>1, <3>3, <3>4
  <2> QED
    BY <2>8, <2>9, <2>11, <2>12, <2>13, <2>14, <2>15, <2>16, <2>17 DEF Calm
<1> QED
  BY <1>1, <1>2

\* w is b, where some were removed, and some have no master any more.
Fewer(b, w) ==
    /\ w.room = b.room /\ w.healthy = b.healthy
    /\ \A x \in Beings :
        /\ w.life[x] = b.life[x]
            \/ (b.life[x] = "placed" /\ w.life[x] = "removed")
        /\ w.master[x] \in {b.master[x], NoCreature}

\* Fewer and fewer.
LEMMA FewerTwice ==
  ASSUME NEW b, NEW w, NEW v, Fewer(b, w), Fewer(w, v)
  PROVE  Fewer(b, v)
<1>1. \A x \in Beings :
        /\ v.life[x] = b.life[x]
            \/ (b.life[x] = "placed" /\ v.life[x] = "removed")
        /\ v.master[x] \in {b.master[x], NoCreature}
  BY DEF Fewer
<1> QED
  BY <1>1 DEF Fewer

\* One is gone.
LEMMA GoneIsFewer ==
  ASSUME NEW b, NEW w, NEW c \in Beings, Gone(b, w, c)
  PROVE  Fewer(b, w)
BY DEF Gone, Fewer

\* With a creature goes what bound its summons to it.
LEMMA GoneBinds ==
  ASSUME NEW b, b \in Books, NEW w, NEW c \in Beings, Gone(b, w, c), NEW k,
         Bound(b, k)
  PROVE  /\ (\A y \in Beings : b.master[y] # c) => Bound(w, k)
         /\ k = NoCreature => Bound(w, c)
<1>1. \A y \in Beings : b.master[y] \in Beings \cup {NoCreature}
  BY BooksAre
<1>2. ASSUME NEW s \in Beings, w.life[s] = "placed",
             w.master[s] # NoCreature
      PROVE  /\ w.master[s] = b.master[s] /\ w.master[s] \in Beings
             /\ b.life[w.master[s]] = "placed" \/ w.master[s] = k
             /\ w.life[w.master[s]] = "placed"
                    \/ w.master[s] = k \/ w.master[s] = c
  <2>1. w.master[s] = b.master[s] /\ w.master[s] \in Beings
    BY <1>1, <1>2 DEF Gone
  <2>2. b.life[s] = "placed"
    BY <1>2 DEF Gone
  <2>3. b.life[w.master[s]] = "placed" \/ w.master[s] = k
    BY <1>2, <2>1, <2>2 DEF Bound
  <2>4. w.master[s] # c => w.life[w.master[s]] = b.life[w.master[s]]
    BY <2>1 DEF Gone
  <2> QED
    BY <2>1, <2>3, <2>4
<1>3. (\A y \in Beings : b.master[y] # c) => Bound(w, k)
  BY <1>2 DEF Bound
<1>4. k = NoCreature => Bound(w, c)
  BY <1>2, BeingsAre DEF Bound
<1> QED
  BY <1>3, <1>4

-----------------------------------------------------------------------------
(* The summons of one that was removed, one at a time. *)
OneFollows(e, c, w, s) ==
    IF e.master[s] = c THEN RemoveOne(w, s) ELSE w

FollowAllOnce(g, s, e, c) ==
    IF s = {} THEN e
    ELSE OneFollows(e, c, g[s \ {Latest(s)}], Order[Latest(s)])

FollowAll(e, c) ==
    (CHOOSE g : g = [s \in SUBSET DOMAIN Order |->
                        FollowAllOnce(g, s, e, c)])[DOMAIN Order]

FollowAllBy(h, D, e, c) ==
    /\ h \in [0 .. Len(Order) -> D]
    /\ h[0] = e /\ FollowAll(e, c) = h[Len(Order)]
    /\ \A i \in 1 .. Len(Order) : h[i] = OneFollows(e, c, h[i - 1], Order[i])

\* Its summons go with it, one by one.
LEMMA FollowAllSteps ==
  ASSUME NEW e, NEW c, NEW D, e \in D,
         \A w \in D : \A y \in Beings : OneFollows(e, c, w, y) \in D
  PROVE  \E h : FollowAllBy(h, D, e, c)
<1> DEFINE n == Len(Order)
           S == 1 .. n
           op == [a \in S \X D |-> OneFollows(e, c, a[2], Order[a[1]])]
           f == CHOOSE g : g = [s \in SUBSET S |-> FollowAllOnce(g, s, e, c)]
<1>1. n \in Nat /\ S = DOMAIN Order /\ \A i \in S : Order[i] \in Beings
  BY OrderIs
<1>2. FollowAll(e, c) = f[S]
  BY Zenon, <1>1 DEF FollowAll
<1>3. op \in [S \X D -> D] /\ \A i \in S : \A w \in D :
            op[<<i, w>>] = OneFollows(e, c, w, Order[i])
  BY <1>1
<1>3a. S = 1 .. n
  OBVIOUS
<1> HIDE DEF op, n, S
<1>4. PICK k \in [SUBSET S -> D] : FoldedFromLeft(k, S, e, op)
  BY Zenon, <1>1, <1>3, <1>3a, LeftExists
<1>5. k = [s \in SUBSET S |-> FollowAllOnce(k, s, e, c)]
  <2> SUFFICES ASSUME NEW s \in SUBSET S
               PROVE  k[s] = FollowAllOnce(k, s, e, c)
    OBVIOUS
  <2>1. CASE s = {}
    BY Zenon, <1>4, <2>1 DEF FoldedFromLeft, FromLeft, FollowAllOnce
  <2>2. CASE s # {}
    <3>1. Latest(s) \in S /\ s \ {Latest(s)} \in SUBSET S
      BY Zenon, <1>1, <1>3a, <2>2, LatestIs
    <3>2. k[s \ {Latest(s)}] \in D
      BY <3>1
    <3>3. k[s] = op[<<Latest(s), k[s \ {Latest(s)}]>>]
      BY <1>4, <2>2 DEF FoldedFromLeft, FromLeft
    <3> QED
      BY <1>3, <2>2, <3>1, <3>2, <3>3 DEF FollowAllOnce
  <2> QED
    BY <2>1, <2>2
<1>6. f = [s \in SUBSET S |-> FollowAllOnce(f, s, e, c)]
  BY <1>5
<1> HIDE DEF f
<1>7. f[{}] = e
  <2>1. f[{}] = FollowAllOnce(f, {}, e, c)
    BY <1>6
  <2> QED
    BY <2>1 DEF FollowAllOnce
<1>8. ASSUME NEW s \in SUBSET S, s # {}, f[s \ {Latest(s)}] \in D
      PROVE  f[s] = op[<<Latest(s), f[s \ {Latest(s)}]>>]
  <2>1. Latest(s) \in S
    BY Zenon, <1>1, <1>3a, <1>8, LatestIs
  <2>2. f[s] = FollowAllOnce(f, s, e, c)
    BY <1>6
  <2> QED
    BY Zenon, <1>3, <1>8, <2>1, <2>2 DEF FollowAllOnce
<1>9. PICK h \in [0 .. n -> D] : StepByStep(h, n, e, op) /\ f[S] = h[n]
  <2>1. op \in [S \X D -> D] /\ n \in Nat /\ e \in D
    BY <1>1, <1>3
  <2>2. GoesFromLeft(f, S, D, e, op)
    BY Zenon, <1>7, <1>8 DEF GoesFromLeft
  <2>3. HasSteps(n, D, e, op, f[S])
    BY Zenon, <1>3a, <2>1, <2>2, LeftSteps
  <2> QED
    BY Zenon, <2>3 DEF HasSteps
<1>10. ASSUME NEW i \in 1 .. n
       PROVE  h[i] = OneFollows(e, c, h[i - 1], Order[i])
  <2>1. i \in S /\ i - 1 \in 0 .. n
    BY <1>1, <1>3a
  <2>2. h[i - 1] \in D
    BY <2>1
  <2> QED
    BY Zenon, <1>3, <1>9, <2>1, <2>2 DEF StepByStep
<1> QED
  BY <1>2, <1>9, <1>10 DEF StepByStep, FollowAllBy, n

\* Removal, with the summons one by one.
LEMMA RemoveCreatureUnfolds ==
  ASSUME NEW b, NEW c
  PROVE  RemoveCreature(b, c) =
            IF c \in Placed(b) THEN FollowAll(RemoveOne(b, c), c) ELSE b
BY DEF RemoveCreature, FollowAll, FoldLeft, MapThenFoldSet, FollowAllOnce,
       OneFollows, Latest, Max

\* The summons of one that was removed go.
LEMMA FollowAllIs ==
  ASSUME NEW f, NEW z, NEW U, NEW V, NEW W, Calm(f, z, U, V, W),
         NEW c \in Beings, Bound(f, c), f.life[c] # "placed"
  PROVE  /\ Calm(FollowAll(f, c), z, U, V, W)
         /\ Bound(FollowAll(f, c), NoCreature) /\ Fewer(f, FollowAll(f, c))
<1> DEFINE D == {w \in Books : Calm(w, z, U, V, W) /\ Fewer(f, w)
                                /\ Bound(w, c)}
           E == [i \in 0 .. Len(Order) |->
                    {w \in D : \A j \in 1 .. i :
                        f.master[Order[j]] = c
                            => w.life[Order[j]] # "placed"}]
<1>0. f \in Books /\ Masters(f)
  BY DEF Calm, Good
<1>1. f \in D
  BY <1>0 DEF Fewer
<1>2. ASSUME NEW w \in D, NEW s \in Beings
      PROVE  /\ OneFollows(f, c, w, s) \in D
             /\ Fewer(w, OneFollows(f, c, w, s))
             /\ f.master[s] = c => OneFollows(f, c, w, s).life[s] # "placed"
  <2> DEFINE v == RemoveOne(w, s)
  <2>0. Calm(w, z, U, V, W) /\ Fewer(f, w) /\ Bound(w, c) /\ w \in Books
    OBVIOUS
  <2>1. CASE f.master[s] = c
    <3>1. Calm(v, z, U, V, W) /\ Gone(w, v, s)
      BY <2>0, RemoveOneIs
    <3> HIDE DEF v
    <3>2. \A y \in Beings : w.master[y] # s
      <4> SUFFICES ASSUME NEW y \in Beings, w.master[y] = s PROVE FALSE
        OBVIOUS
      <4>1. f.master[y] = s
        BY <2>0, BeingsAre DEF Fewer
      <4>2. f.master[s] = NoCreature
        BY <1>0, <4>1, BeingsAre DEF Masters
      <4> QED
        BY <2>1, <4>2, BeingsAre
    <3>3. Bound(v, c)
      BY <2>0, <3>1, <3>2, GoneBinds
    <3>4. Fewer(w, v) /\ Fewer(f, v)
      BY <2>0, <3>1, GoneIsFewer, FewerTwice
    <3>5. v \in D
      BY <3>1, <3>3, <3>4 DEF Calm, Good
    <3>6. v.life[s] # "placed"
      BY <3>1 DEF Gone
    <3>7. OneFollows(f, c, w, s) = v
      BY <2>1 DEF OneFollows, v
    <3> QED
      BY <3>4, <3>5, <3>6, <3>7
  <2>2. CASE f.master[s] # c
    <3>1. OneFollows(f, c, w, s) = w
      BY <2>2 DEF OneFollows
    <3>2. Fewer(w, w)
      BY DEF Fewer
    <3> QED
      BY <2>2, <3>1, <3>2
  <2> QED
    BY <2>1, <2>2
<1> HIDE DEF D
<1>3. PICK h : FollowAllBy(h, D, f, c)
  <2>1. \A w \in D : \A s \in Beings : OneFollows(f, c, w, s) \in D
    BY <1>2
  <2> QED
    BY Zenon, <1>1, <2>1, FollowAllSteps
<1>4. /\ h \in [0 .. Len(Order) -> D]
      /\ h[0] = f /\ FollowAll(f, c) = h[Len(Order)]
      /\ \A i \in 1 .. Len(Order) :
            h[i] = OneFollows(f, c, h[i - 1], Order[i])
  BY <1>3 DEF FollowAllBy
<1>5. h[0] \in E[0]
  BY <1>1, <1>4, OrderIs
<1>6. ASSUME NEW i \in 1 .. Len(Order), h[i - 1] \in E[i - 1]
      PROVE  h[i] \in E[i]
  <2>1. /\ i \in 0 .. Len(Order) /\ i - 1 \in 0 .. Len(Order)
        /\ Order[i] \in Beings
        /\ \A j \in 1 .. i : j = i \/ j \in 1 .. (i - 1)
        /\ \A j \in 1 .. i : Order[j] \in Beings
    BY OrderIs
  <2>2. /\ h[i - 1] \in D
        /\ \A j \in 1 .. (i - 1) :
            f.master[Order[j]] = c => h[i - 1].life[Order[j]] # "placed"
    BY <1>6, <2>1
  <2>3. /\ h[i] \in D /\ Fewer(h[i - 1], h[i])
        /\ f.master[Order[i]] = c => h[i].life[Order[i]] # "placed"
    BY <1>2, <1>4, <2>1, <2>2
  <2>4. \A j \in 1 .. i :
            f.master[Order[j]] = c => h[i].life[Order[j]] # "placed"
    BY <2>1, <2>2, <2>3 DEF Fewer
  <2> QED
    BY <2>1, <2>3, <2>4
<1>7. FollowAll(f, c) \in E[Len(Order)]
  <2>1. h[Len(Order)] \in E[Len(Order)]
    <3> HIDE DEF E
    <3> QED
      BY <1>5, <1>6, OrderIs, StepsFit
  <2> QED
    BY Zenon, <1>4, <2>1
<1> DEFINE r == FollowAll(f, c)
<1>8. /\ r \in D
      /\ \A j \in 1 .. Len(Order) :
            f.master[Order[j]] = c => r.life[Order[j]] # "placed"
  BY <1>7, OrderIs
<1> HIDE DEF r
<1>9. \A s \in Beings : f.master[s] = c => r.life[s] # "placed"
  BY <1>8, OrderIs
<1>10. Calm(r, z, U, V, W) /\ Fewer(f, r) /\ Bound(r, c)
  BY <1>8 DEF D
<1>11. Bound(r, NoCreature)
  BY <1>9, <1>10, BeingsAre DEF Bound, Fewer
<1> QED
  BY <1>10, <1>11 DEF r

\* A creature is removed, and its summons.
LEMMA RemoveCreatureIs ==
  ASSUME NEW b, NEW z, NEW U, NEW V, NEW W, Calm(b, z, U, V, W),
         NEW c \in Beings, Bound(b, NoCreature)
  PROVE  /\ Calm(RemoveCreature(b, c), z, U, V, W)
         /\ Bound(RemoveCreature(b, c), NoCreature)
         /\ Fewer(b, RemoveCreature(b, c))
<1>1. CASE c \notin Placed(b)
  <2>1. RemoveCreature(b, c) = b
    BY <1>1, RemoveCreatureUnfolds
  <2> QED
    BY <2>1 DEF Fewer
<1>2. CASE c \in Placed(b)
  <2> DEFINE f == RemoveOne(b, c)
             r == FollowAll(f, c)
  <2>1. RemoveCreature(b, c) = r
    BY <1>2, RemoveCreatureUnfolds
  <2>2. Calm(f, z, U, V, W) /\ Gone(b, f, c)
    BY RemoveOneIs
  <2> HIDE DEF f
  <2>3. Bound(f, c) /\ Fewer(b, f)
    BY <2>2, GoneBinds, GoneIsFewer DEF Calm, Good
  <2>4. f.life[c] # "placed"
    BY <2>2 DEF Gone
  <2>5. Calm(r, z, U, V, W) /\ Bound(r, NoCreature) /\ Fewer(f, r)
    BY <2>2, <2>3, <2>4, FollowAllIs
  <2> HIDE DEF r
  <2>6. Fewer(b, r)
    BY <2>3, <2>5, FewerTwice
  <2> QED
    BY <2>1, <2>5, <2>6
<1> QED
  BY <1>1, <1>2

\* Who waits less is exempt less.
LEMMA CalmPending ==
  ASSUME NEW b, NEW z, NEW U, NEW V, NEW R, NEW S, NEW c, NEW F,
         Calm(b, z, U, V, Pending(R, c, F)), R \subseteq S
  PROVE  Calm(b, z, U, V, Pending(S, c, F))
<1>1. Watch(b, Pending(S, c, F))
  <2> SUFFICES ASSUME NEW m \in Monsters, NEW p \in Humans,
                      Wild(b, m), b.life[p] = "placed", Sees(b, m, p)
               PROVE  Knows(b, m, p) \/ <<m, p>> \in Pending(S, c, F)
    BY DEF Watch
  <2>1. Knows(b, m, p) \/ <<m, p>> \in Pending(R, c, F)
    BY DEF Calm, Watch
  <2> QED
    BY <2>1, PendingIs
<1> QED
  BY <1>1 DEF Calm

\* x waits no longer.
LEMMA WatchLess ==
  ASSUME NEW v, NEW R, NEW c, NEW F, Watch(v, Pending(R, c, F)), NEW x,
         \A p \in Humans :
            x \in Monsters /\ (x = c \/ (p = c /\ x \notin F))
                /\ Wild(v, x) /\ v.life[p] = "placed" /\ Sees(v, x, p)
                    => Knows(v, x, p)
  PROVE  Watch(v, Pending(R \ {x}, c, F))
<1> SUFFICES ASSUME NEW m \in Monsters, NEW p \in Humans,
                    Wild(v, m), v.life[p] = "placed", Sees(v, m, p)
             PROVE  Knows(v, m, p) \/ <<m, p>> \in Pending(R \ {x}, c, F)
  BY DEF Watch
<1>1. Knows(v, m, p) \/ <<m, p>> \in Pending(R, c, F)
  BY DEF Watch
<1>2. <<m, p>> \in Pending(R, c, F)
        => m \in R /\ (m = c \/ (p = c /\ m \notin F))
  BY PendingIs
<1>3. m \in R \ {x} /\ (m = c \/ (p = c /\ m \notin F))
        => <<m, p>> \in Pending(R \ {x}, c, F)
  BY PendingIs
<1>4. CASE m = x
  BY <1>1, <1>2, <1>4
<1>5. CASE m # x
  BY <1>1, <1>2, <1>3, <1>5
<1> QED
  BY <1>4, <1>5

\* All stays but the lists, the sleep and the checks.
Alike(b, w) ==
    /\ w.life = b.life /\ w.room = b.room /\ w.healthy = b.healthy
    /\ w.master = b.master /\ w.attacked = b.attacked
    /\ w.toRelease = b.toRelease

\* What one attends to is alike.
LEMMA TouchedIsAlike ==
  ASSUME NEW b, NEW w, NEW m, Touched(b, w, m)
  PROVE  Alike(b, w)
BY DEF Touched, Alike

\* One after the other.
LEMMA AlikeTwice ==
  ASSUME NEW b, NEW w, NEW v, Alike(b, w), Alike(w, v)
  PROVE  Alike(b, v)
BY DEF Alike

\* What is alike lives, sees and is bound alike.
LEMMA AlikeKeeps ==
  ASSUME NEW b, NEW w, Alike(b, w)
  PROVE  /\ \A x : Known(w, x) <=> Known(b, x)
         /\ \A x : Wild(w, x) <=> Wild(b, x)
         /\ \A x, y : Sees(w, x, y) <=> Sees(b, x, y)
         /\ \A k : Bound(b, k) => Bound(w, k)
         /\ Placed(w) = Placed(b)
BY DEF Alike, Known, Wild, Sees, Bound, Placed, IsSummon

-----------------------------------------------------------------------------
(* Everybody is told of one that appears, one at a time. *)
OneAppears(c, w, x) ==
    IF x \in Humans \/ x \notin Placed(w) THEN w
    ELSE IF x = c THEN LookAround(w, c)
    ELSE IF Sees(w, x, c) THEN Found(w, x, c) ELSE w

Appeared(b, c, r) == [Ref(b, c) EXCEPT !.life[c] = "placed", !.room[c] = r]

AppearAllOnce(g, s, b, c) ==
    IF s = {} THEN b
    ELSE OneAppears(c, g[s \ {Latest(s)}], Order[Latest(s)])

AppearAll(b, c) ==
    (CHOOSE g : g = [s \in SUBSET DOMAIN Order |->
                        AppearAllOnce(g, s, b, c)])[DOMAIN Order]

AppearAllBy(h, D, b, c) ==
    /\ h \in [0 .. Len(Order) -> D]
    /\ h[0] = b /\ AppearAll(b, c) = h[Len(Order)]
    /\ \A i \in 1 .. Len(Order) : h[i] = OneAppears(c, h[i - 1], Order[i])

\* All who see it find it, one by one.
LEMMA AppearAllSteps ==
  ASSUME NEW b, NEW c, NEW D, b \in D,
         \A w \in D : \A x \in Beings : OneAppears(c, w, x) \in D
  PROVE  \E h : AppearAllBy(h, D, b, c)
<1> DEFINE n == Len(Order)
           S == 1 .. n
           op == [a \in S \X D |-> OneAppears(c, a[2], Order[a[1]])]
           f == CHOOSE g : g = [s \in SUBSET S |-> AppearAllOnce(g, s, b, c)]
<1>1. n \in Nat /\ S = DOMAIN Order /\ \A i \in S : Order[i] \in Beings
  BY OrderIs
<1>2. AppearAll(b, c) = f[S]
  BY Zenon, <1>1 DEF AppearAll
<1>3. op \in [S \X D -> D] /\ \A i \in S : \A w \in D :
            op[<<i, w>>] = OneAppears(c, w, Order[i])
  BY <1>1
<1>3a. S = 1 .. n
  OBVIOUS
<1> HIDE DEF op, n, S
<1>4. PICK k \in [SUBSET S -> D] : FoldedFromLeft(k, S, b, op)
  BY Zenon, <1>1, <1>3, <1>3a, LeftExists
<1>5. k = [s \in SUBSET S |-> AppearAllOnce(k, s, b, c)]
  <2> SUFFICES ASSUME NEW s \in SUBSET S
               PROVE  k[s] = AppearAllOnce(k, s, b, c)
    OBVIOUS
  <2>1. CASE s = {}
    BY Zenon, <1>4, <2>1 DEF FoldedFromLeft, FromLeft, AppearAllOnce
  <2>2. CASE s # {}
    <3>1. Latest(s) \in S /\ s \ {Latest(s)} \in SUBSET S
      BY Zenon, <1>1, <1>3a, <2>2, LatestIs
    <3>2. k[s \ {Latest(s)}] \in D
      BY <3>1
    <3>3. k[s] = op[<<Latest(s), k[s \ {Latest(s)}]>>]
      BY <1>4, <2>2 DEF FoldedFromLeft, FromLeft
    <3> QED
      BY <1>3, <2>2, <3>1, <3>2, <3>3 DEF AppearAllOnce
  <2> QED
    BY <2>1, <2>2
<1>6. f = [s \in SUBSET S |-> AppearAllOnce(f, s, b, c)]
  BY <1>5
<1> HIDE DEF f
<1>7. f[{}] = b
  <2>1. f[{}] = AppearAllOnce(f, {}, b, c)
    BY <1>6
  <2> QED
    BY <2>1 DEF AppearAllOnce
<1>8. ASSUME NEW s \in SUBSET S, s # {}, f[s \ {Latest(s)}] \in D
      PROVE  f[s] = op[<<Latest(s), f[s \ {Latest(s)}]>>]
  <2>1. Latest(s) \in S
    BY Zenon, <1>1, <1>3a, <1>8, LatestIs
  <2>2. f[s] = AppearAllOnce(f, s, b, c)
    BY <1>6
  <2> QED
    BY Zenon, <1>3, <1>8, <2>1, <2>2 DEF AppearAllOnce
<1>9. PICK h \in [0 .. n -> D] : StepByStep(h, n, b, op) /\ f[S] = h[n]
  <2>1. op \in [S \X D -> D] /\ n \in Nat /\ b \in D
    BY <1>1, <1>3
  <2>2. GoesFromLeft(f, S, D, b, op)
    BY Zenon, <1>7, <1>8 DEF GoesFromLeft
  <2>3. HasSteps(n, D, b, op, f[S])
    BY Zenon, <1>3a, <2>1, <2>2, LeftSteps
  <2> QED
    BY Zenon, <2>3 DEF HasSteps
<1>10. ASSUME NEW i \in 1 .. n
       PROVE  h[i] = OneAppears(c, h[i - 1], Order[i])
  <2>1. i \in S /\ i - 1 \in 0 .. n
    BY <1>1, <1>3a
  <2>2. h[i - 1] \in D
    BY <2>1
  <2> QED
    BY Zenon, <1>3, <1>9, <2>1, <2>2 DEF StepByStep
<1> QED
  BY <1>2, <1>9, <1>10 DEF StepByStep, AppearAllBy, n

\* A creature is placed, and then found one by one.
LEMMA PlaceCreatureUnfolds ==
  ASSUME NEW b, NEW c, NEW r
  PROVE  PlaceCreature(b, c, r) = AddCheck(AppearAll(Appeared(b, c, r), c), c)
BY DEF PlaceCreature, Appeared, AppearAll, FoldLeft, MapThenFoldSet,
       AppearAllOnce, OneAppears, Latest, Max

\* x finds the one that appears.
LEMMA OneAppearsIs ==
  ASSUME NEW w, NEW z, NEW U, NEW V, NEW R, NEW c \in Beings,
         Calm(w, z, U, V, Pending(R, c, {})), w.life[c] = "placed",
         NEW x \in Beings
  PROVE  /\ Calm(OneAppears(c, w, x), z, U, V, Pending(R \ {x}, c, {}))
         /\ Alike(w, OneAppears(c, w, x))
<1> DEFINE v == OneAppears(c, w, x)
           W == Pending(R, c, {})
<1> SUFFICES Calm(v, z, U, V, Pending(R \ {x}, c, {})) /\ Alike(w, v)
  OBVIOUS
<1>0. Calm(w, z, U, V, W) /\ Good(w) /\ Known(w, c) /\ w \in Books
  BY DEF Calm, Known, Good
<1>1. /\ Calm(v, z, U, V, W) /\ Alike(w, v)
      /\ \A p \in Humans :
            x \in Monsters /\ (x = c \/ p = c) /\ Wild(v, x)
                /\ v.life[p] = "placed" /\ Sees(v, x, p)
                    => Knows(v, x, p)
  <2> HIDE DEF W
  <2>1. CASE x \in Humans \/ x \notin Placed(w)
    <3>1. v = w
      BY <2>1 DEF OneAppears
    <3>2. x \in Monsters => w.life[x] # "placed"
      BY <2>1, BeingsAre DEF Placed
    <3> HIDE DEF v
    <3> QED
      BY <1>0, <3>1, <3>2 DEF Alike, Wild
  <2>2. CASE ~(x \in Humans \/ x \notin Placed(w))
    <3>0. x \in Monsters /\ w.life[x] = "placed" /\ Mind(w, x)
      BY <1>0, <2>2 DEF Placed, Beings, Calm
    <3>1. CASE x = c
      <4>1. v = LookAround(w, x)
        BY <2>2, <3>1 DEF OneAppears
      <4> HIDE DEF v
      <4>2. /\ Touched(w, v, x) /\ Good(v) /\ Mind(v, x)
            /\ \A p \in Humans :
                Wild(w, x) /\ w.life[p] = "placed" /\ Sees(w, x, p)
                    => Knows(v, x, p)
        BY <1>0, <3>0, <4>1, LookAroundIs
      <4>3. Calm(v, z, U, V, W)
        BY <1>0, <3>0, <4>2, TouchedIsCalm
      <4>4. Alike(w, v) /\ v.life = w.life
        BY <4>2, TouchedIsAlike DEF Alike
      <4> QED
        BY <4>2, <4>3, <4>4, AlikeKeeps
    <3>2. CASE x # c /\ Sees(w, x, c)
      <4>1. v = Found(w, x, c)
        BY <2>2, <3>2 DEF OneAppears
      <4> HIDE DEF v
      <4>2. /\ Attends(w, v, x, NoCreature)
            /\ Wild(w, x) /\ c \in Humans /\ Sees(w, x, c)
                    => Knows(v, x, c)
        BY <1>0, <3>0, <4>1, FoundIs
      <4>3. \A p \in Humans : Wild(w, x) /\ Knows(w, x, p)
                                    => Knows(v, x, p)
        BY <4>2, BeingsAre DEF Attends
      <4>3a. Touched(w, v, x) /\ Good(v) /\ Mind(v, x)
        BY <4>2 DEF Attends
      <4>4. Calm(v, z, U, V, W)
        BY <1>0, <3>0, <4>3, <4>3a, TouchedIsCalm
      <4>5. Alike(w, v)
        BY <4>3a, TouchedIsAlike
      <4> QED
        BY <3>2, <4>2, <4>4, <4>5, AlikeKeeps
    <3>3. CASE x # c /\ ~Sees(w, x, c)
      <4>1. v = w
        BY <2>2, <3>3 DEF OneAppears
      <4> HIDE DEF v
      <4> QED
        BY <1>0, <3>3, <4>1 DEF Alike
    <3> QED
      BY <3>1, <3>2, <3>3
  <2> QED
    BY <2>1, <2>2
<1> HIDE DEF v
<1>2. Watch(v, Pending(R, c, {}))
  BY <1>1 DEF Calm
<1> HIDE DEF W
<1>3. Watch(v, Pending(R \ {x}, c, {}))
  BY <1>1, <1>2, WatchLess
<1> QED
  BY <1>1, <1>3 DEF Calm

\* All find it.
LEMMA AppearAllIs ==
  ASSUME NEW b, NEW z, NEW U, NEW V, NEW c \in Beings,
         Calm(b, z, U, V, Pending(Monsters, c, {})), b.life[c] = "placed"
  PROVE  Calm(AppearAll(b, c), z, U, V, {}) /\ Alike(b, AppearAll(b, c))
<1> DEFINE D == {w \in Books : /\ Calm(w, z, U, V, Pending(Monsters, c, {}))
                               /\ Alike(b, w)}
           R(i) == {m \in Monsters : \A j \in 1 .. i : Order[j] # m}
           E == [i \in 0 .. Len(Order) |->
                    {w \in D : Calm(w, z, U, V, Pending(R(i), c, {}))}]
<1>1. b \in D
  BY DEF Alike, Calm, Good
<1>2. ASSUME NEW w \in D, NEW x \in Beings, NEW Q \in SUBSET Monsters,
             Calm(w, z, U, V, Pending(Q, c, {}))
      PROVE  /\ OneAppears(c, w, x) \in D
             /\ Calm(OneAppears(c, w, x), z, U, V, Pending(Q \ {x}, c, {}))
  <2> DEFINE v == OneAppears(c, w, x)
  <2>0. Alike(b, w) /\ w.life[c] = "placed"
    BY DEF Alike
  <2>1. Calm(v, z, U, V, Pending(Q \ {x}, c, {})) /\ Alike(w, v)
    BY <1>2, <2>0, OneAppearsIs
  <2> HIDE DEF v
  <2>2. Calm(v, z, U, V, Pending(Monsters, c, {}))
    BY <2>1, CalmPending
  <2>3. Alike(b, v) /\ v \in Books
    BY <2>0, <2>1, AlikeTwice DEF Calm, Good
  <2>4. v \in D
    BY <2>2, <2>3
  <2> HIDE DEF D
  <2> QED
    BY <2>1, <2>4 DEF v
<1>2a. \A w \in D : Calm(w, z, U, V, Pending(Monsters, c, {}))
  OBVIOUS
<1>2b. \A w \in D : Alike(b, w)
  OBVIOUS
<1> HIDE DEF D
<1>3. PICK h : AppearAllBy(h, D, b, c)
  <2>1. \A w \in D : \A x \in Beings : OneAppears(c, w, x) \in D
    BY Zenon, <1>2, <1>2a
  <2> QED
    BY Zenon, <1>1, <2>1, AppearAllSteps
<1>4. /\ h \in [0 .. Len(Order) -> D]
      /\ h[0] = b /\ AppearAll(b, c) = h[Len(Order)]
      /\ \A i \in 1 .. Len(Order) : h[i] = OneAppears(c, h[i - 1], Order[i])
  BY <1>3 DEF AppearAllBy
<1>5. h[0] \in E[0]
  <2>1. R(0) = Monsters
    OBVIOUS
  <2>2. Calm(b, z, U, V, Pending(R(0), c, {}))
    BY Zenon, <2>1
  <2> HIDE DEF R
  <2> QED
    BY <1>1, <1>4, <2>2, OrderIs
<1>6. ASSUME NEW i \in 1 .. Len(Order), h[i - 1] \in E[i - 1]
      PROVE  h[i] \in E[i]
  <2>1. /\ i \in 0 .. Len(Order) /\ i - 1 \in 0 .. Len(Order)
        /\ Order[i] \in Beings
        /\ \A j \in 1 .. i : j = i \/ j \in 1 .. (i - 1)
        /\ \A j \in 1 .. (i - 1) : j \in 1 .. i
        /\ i \in 1 .. i
    BY OrderIs
  <2>2. R(i) = R(i - 1) \ {Order[i]} /\ R(i - 1) \in SUBSET Monsters
    BY <2>1
  <2> HIDE DEF R
  <2>3. /\ h[i - 1] \in D
        /\ Calm(h[i - 1], z, U, V, Pending(R(i - 1), c, {}))
    BY <1>6, <2>1
  <2>4. /\ h[i] \in D
        /\ Calm(h[i], z, U, V, Pending(R(i - 1) \ {Order[i]}, c, {}))
    <3> DEFINE x == Order[i]
               w == h[i - 1]
               Q == R(i - 1)
    <3>1. w \in D /\ x \in Beings /\ Q \in SUBSET Monsters
      BY <2>1, <2>2, <2>3
    <3>2. Calm(w, z, U, V, Pending(Q, c, {}))
      BY <2>3
    <3>3. h[i] = OneAppears(c, w, x)
      BY <1>4
    <3> HIDE DEF x, w, Q
    <3>4. h[i] \in D /\ Calm(h[i], z, U, V, Pending(Q \ {x}, c, {}))
      BY Zenon, <1>2, <3>1, <3>2, <3>3
    <3> QED
      BY <3>4 DEF x, Q
  <2>5. Calm(h[i], z, U, V, Pending(R(i), c, {}))
    BY <2>2, <2>4
  <2> QED
    BY <2>1, <2>4, <2>5
<1>7. AppearAll(b, c) \in E[Len(Order)]
  <2>1. h[Len(Order)] \in E[Len(Order)]
    <3> HIDE DEF E
    <3> QED
      BY <1>5, <1>6, OrderIs, StepsFit
  <2> QED
    BY <1>4, <2>1
<1> DEFINE r == AppearAll(b, c)
<1>8. r \in D /\ Calm(r, z, U, V, Pending(R(Len(Order)), c, {}))
  <2> HIDE DEF R
  <2> QED
    BY <1>7, OrderIs
<1> HIDE DEF r
<1>9. R(Len(Order)) = {}
  BY OrderIs, BeingsAre
<1> HIDE DEF R
<1>10. Calm(r, z, U, V, Pending({}, c, {}))
  BY <1>8, <1>9
<1>11. Watch(r, {})
  <2> SUFFICES ASSUME NEW m \in Monsters, NEW p \in Humans,
                      Wild(r, m), r.life[p] = "placed", Sees(r, m, p)
               PROVE  Knows(r, m, p)
    BY DEF Watch
  <2>1. Knows(r, m, p) \/ <<m, p>> \in Pending({}, c, {})
    BY <1>10 DEF Calm, Watch
  <2> QED
    BY <2>1, PendingIs
<1> QED
  BY <1>2b, <1>8, <1>10, <1>11 DEF Calm, r

\* The books when c comes on the map.
LEMMA BooksPut ==
  ASSUME NEW b \in Books, NEW c \in Beings, NEW r \in Rooms \cup {NoCreature}
  PROVE  /\ Appeared(b, c, r) \in Books
         /\ Appeared(b, c, r).life[c] = "placed"
         /\ Appeared(b, c, r).references[c] = b.references[c] + 1
         /\ \A x \in Beings \ {c} :
                /\ Appeared(b, c, r).life[x] = b.life[x]
                /\ Appeared(b, c, r).room[x] = b.room[x]
                /\ Appeared(b, c, r).references[x] = b.references[x]
         /\ Appeared(b, c, r).healthy = b.healthy
         /\ Appeared(b, c, r).master = b.master
         /\ Appeared(b, c, r).attacked = b.attacked
         /\ Appeared(b, c, r).friends = b.friends
         /\ Appeared(b, c, r).targets = b.targets
         /\ Appeared(b, c, r).isIdle = b.isIdle
         /\ Appeared(b, c, r).check = b.check
         /\ Appeared(b, c, r).toRelease = b.toRelease
<1> DEFINE v == Ref(b, c)
           l == [v.life EXCEPT ![c] = "placed"]
           o == [v.room EXCEPT ![c] = r]
           w == Appeared(b, c, r)
<1>1. v \in Books /\ v = [b EXCEPT !.references[c] = @ + 1]
  BY RefIs
<1> HIDE DEF v
<1>2. /\ v.life = b.life /\ v.room = b.room /\ v.healthy = b.healthy
      /\ v.master = b.master /\ v.attacked = b.attacked
      /\ v.friends = b.friends /\ v.targets = b.targets
      /\ v.isIdle = b.isIdle /\ v.check = b.check
      /\ v.toRelease = b.toRelease
      /\ v.references[c] = b.references[c] + 1
      /\ \A x \in Beings \ {c} : v.references[x] = b.references[x]
  BY <1>1, BooksAre DEF Books
<1>3. /\ l \in [Beings -> Lives] /\ l[c] = "placed"
      /\ \A x \in Beings \ {c} : l[x] = b.life[x]
  BY <1>1, <1>2, BooksAre DEF Lives
<1>4. /\ o \in [Beings -> Rooms \cup {NoCreature}]
      /\ \A x \in Beings \ {c} : o[x] = b.room[x]
  BY <1>1, <1>2, BooksAre
<1>5. w = [v EXCEPT !.life = l, !.room = o]
  BY DEF Appeared, v
<1> HIDE DEF l, o, w
<1>6. /\ w \in Books /\ w.life = l /\ w.room = o
      /\ w.healthy = v.healthy
      /\ w.master = v.master /\ w.attacked = v.attacked
      /\ w.friends = v.friends /\ w.targets = v.targets
      /\ w.isIdle = v.isIdle /\ w.check = v.check
      /\ w.toRelease = v.toRelease /\ w.references = v.references
  BY Zenon, <1>1, <1>3, <1>4, <1>5 DEF Books
<1> QED
  BY <1>2, <1>3, <1>4, <1>6 DEF w

\* One that is unborn is nobody's.
LEMMA UnbornIs ==
  ASSUME NEW b, NEW z, NEW U, NEW V, NEW W, Calm(b, z, U, V, W),
         NEW c \in Beings, b.life[c] = "unborn"
  PROVE  /\ b.references[c] = 0 /\ b.check[c] = "none"
         /\ b.master[c] = NoCreature /\ b.toRelease[c] = 0
         /\ b.attacked[c] = NoCreature
         /\ \A s \in Beings : b.master[s] # c
<1>1. b \in Books /\ b.references[c] = 0 /\ HeldIn(b, c) = 0
  BY DEF Calm, Good, Counted
<1>2. /\ b.check[c] = "none" /\ b.master[c] = NoCreature
      /\ b.toRelease[c] = 0
  BY <1>1, HeldIs
<1>3. b.attacked[c] = NoCreature
  BY DEF Calm, Blank
<1>4. ASSUME NEW s \in Beings, b.master[s] = c PROVE FALSE
  <2>1. Known(b, c)
    BY <1>4, BeingsAre DEF Calm, Masters
  <2> QED
    BY <2>1 DEF Known
<1> QED
  BY <1>1, <1>2, <1>3, <1>4

\* A creature comes on the map, and nobody knows it yet.
LEMMA AppearedIs ==
  ASSUME NEW b, Calm(b, NoCreature, {}, {}, {}), Bound(b, NoCreature),
         NEW c \in Beings, b.life[c] = "unborn",
         NEW r \in Rooms \cup {NoCreature}
  PROVE  /\ Calm(Appeared(b, c, r), NoCreature, {}, {c},
                 Pending(Monsters, c, {}))
         /\ Bound(Appeared(b, c, r), NoCreature)
         /\ Appeared(b, c, r).life[c] = "placed"
         /\ \A x \in Beings \ {c} : Appeared(b, c, r).life[x] = b.life[x]
         /\ Appeared(b, c, r).master = b.master
         /\ Appeared(b, c, r).healthy = b.healthy
<1> DEFINE w == Appeared(b, c, r)
           W == Pending(Monsters, c, {})
<1>0. b \in Books /\ Good(b)
  BY DEF Calm, Good
<1>1. /\ w \in Books /\ w.life[c] = "placed"
      /\ w.references[c] = b.references[c] + 1
      /\ \A x \in Beings \ {c} : /\ w.life[x] = b.life[x]
                                 /\ w.room[x] = b.room[x]
                                 /\ w.references[x] = b.references[x]
      /\ w.healthy = b.healthy /\ w.master = b.master
      /\ w.attacked = b.attacked
      /\ w.friends = b.friends /\ w.targets = b.targets
      /\ w.isIdle = b.isIdle /\ w.check = b.check
      /\ w.toRelease = b.toRelease
  BY <1>0, BooksPut
<1>2. /\ b.references[c] = 0 /\ b.check[c] = "none"
      /\ b.master[c] = NoCreature /\ b.toRelease[c] = 0
      /\ b.attacked[c] = NoCreature
      /\ \A s \in Beings : b.master[s] # c
  BY UnbornIs
<1>3. ASSUME NEW m \in Monsters, NEW p \in Humans
      PROVE  <<m, p>> \in W <=> m = c \/ p = c
  BY PendingIs
<1> HIDE DEF w, W
<1>4. Good(w)
  <2>1. ASSUME NEW x \in Beings
        PROVE  /\ w.references[x] = b.references[x]
                    + (Stands(w, x) - Stands(b, x))
                    + (Checks(w, x) - Checks(b, x))
                    + (Serves(w, x) - Serves(b, x))
                    + (w.toRelease[x] - b.toRelease[x])
               /\ w.life[x] \in {"unborn", "freed"} => w.references[x] = 0
    <3>1. b.references[x] \in Int /\ b.toRelease[x] \in Nat
      BY <1>0, BooksAre
    <3>2. /\ Checks(w, x) = Checks(b, x) /\ Checks(b, x) \in Int
          /\ Serves(w, x) = Serves(b, x) /\ Serves(b, x) \in Int
      BY <1>1 DEF Checks, Serves
    <3>3. b.life[x] \in {"unborn", "freed"} => b.references[x] = 0
      BY <1>0 DEF Good, Counted
    <3> QED
      BY <1>1, <3>1, <3>2, <3>3 DEF Stands
  <2> QED
    BY <1>0, <1>1, <2>1, CountedAnew
<1>5. Masters(w)
  <2> SUFFICES ASSUME NEW s \in Beings, b.master[s] # NoCreature
      PROVE  /\ s \in Monsters /\ b.master[b.master[s]] = NoCreature
             /\ Known(w, s) /\ Known(w, b.master[s])
             /\ w.life[s] = "removed" => w.life[b.master[s]] = "removed"
    BY <1>1 DEF Masters
  <2>1. /\ s \in Monsters /\ b.master[b.master[s]] = NoCreature
        /\ Known(b, s) /\ Known(b, b.master[s])
        /\ b.life[s] = "removed" => b.life[b.master[s]] = "removed"
    BY DEF Calm, Masters
  <2>2. s # c /\ b.master[s] # c /\ b.master[s] \in Beings
    BY <1>0, <1>2, BooksAre
  <2> QED
    BY <1>1, <2>1, <2>2 DEF Known
<1>6. Released(w)
  BY <1>1, <1>2 DEF Calm, Released
<1>7. Blank(w)
  BY <1>1 DEF Calm, Blank
<1>8. ASSUME NEW m \in Monsters PROVE Mind(w, m)
  <2>1. Mind(b, m) /\ m \in Beings
    BY BeingsAre DEF Calm
  <2>2. CASE m # c
    BY <1>1, <2>1, <2>2 DEF Mind
  <2>3. CASE m = c
    BY <1>1, <2>1, <2>3 DEF Mind
  <2> QED
    BY <2>2, <2>3
<1>9. PlayersThink(w, {c})
  BY <1>1, BeingsAre DEF Calm, PlayersThink
<1>10. InView(w, NoCreature, {})
  <2> SUFFICES ASSUME NEW y \in Beings, w.life[y] = "placed",
                      b.attacked[y] # NoCreature
      PROVE  w.life[b.attacked[y]] = "placed" /\ Sees(w, y, b.attacked[y])
    BY <1>1 DEF InView
  <2>1. y # c /\ b.life[y] = "placed"
    BY <1>1, <1>2
  <2>2. b.life[b.attacked[y]] = "placed" /\ Sees(b, y, b.attacked[y])
    BY <2>1 DEF Calm, InView
  <2>3. b.attacked[y] # c /\ b.attacked[y] \in Beings
    BY <1>0, <2>2, BooksAre
  <2> QED
    BY <1>1, <2>1, <2>2, <2>3 DEF Sees
<1>11. Watch(w, W)
  <2> SUFFICES ASSUME NEW m \in Monsters, NEW p \in Humans, Wild(w, m),
                      w.life[p] = "placed", Sees(w, m, p),
                      m # c, p # c
      PROVE  Knows(w, m, p)
    BY <1>3 DEF Watch
  <2>1. Wild(b, m) /\ b.life[p] = "placed" /\ Sees(b, m, p)
    BY <1>1, BeingsAre DEF Wild, IsSummon, Sees
  <2>2. Knows(b, m, p)
    BY <2>1 DEF Calm, Watch
  <2> QED
    BY <1>1, <2>2 DEF Knows
<1>12. Bound(w, NoCreature)
  <2> SUFFICES ASSUME NEW s \in Beings, w.life[s] = "placed",
                      b.master[s] # NoCreature
      PROVE  w.life[b.master[s]] = "placed"
    BY <1>1 DEF Bound
  <2>1. s # c /\ b.master[s] # c /\ b.master[s] \in Beings
    BY <1>0, <1>2, BooksAre
  <2>2. b.life[b.master[s]] = "placed"
    BY <1>1, <2>1 DEF Bound
  <2> QED
    BY <1>1, <2>1, <2>2
<1> QED
  BY <1>1, <1>4, <1>5, <1>6, <1>7, <1>8, <1>9, <1>10, <1>11, <1>12
     DEF Calm, w, W

\* One that is on the map thinks.
LEMMA AddCheckIsCalm ==
  ASSUME NEW b, NEW z, NEW U, NEW W, NEW c \in Beings,
         Calm(b, z, U, {c}, W), b.life[c] = "placed"
  PROVE  /\ Calm(AddCheck(b, c), z, U, {}, W)
         /\ Alike(b, AddCheck(b, c))
<1> DEFINE w == AddCheck(b, c)
<1>1. Became(b, w, c, b.friends[c], b.targets[c], b.isIdle[c], "thinks")
  BY AddCheckIs DEF Calm, Known
<1> HIDE DEF w
<1>2. Alike(b, w) /\ Good(w) /\ w.check[c] = "thinks"
  BY <1>1, TouchedIsAlike DEF Became
<1>3. /\ \A m \in Monsters : /\ w.friends[m] = b.friends[m]
                             /\ w.targets[m] = b.targets[m]
                             /\ w.isIdle[m] = b.isIdle[m]
      /\ \A x \in Beings \ {c} : w.check[x] = b.check[x]
  BY <1>1 DEF Became, Touched
<1>4. Masters(w) /\ Released(w) /\ Blank(w) /\ InView(w, z, U)
  BY <1>2 DEF Calm, Alike, Masters, Released, Blank, InView, Known, Sees
<1>5. \A m \in Monsters : Mind(w, m)
  <2> SUFFICES ASSUME NEW m \in Monsters PROVE Mind(w, m)
    OBVIOUS
  <2>1. Mind(b, m) /\ m \in Beings
    BY BeingsAre DEF Calm
  <2>2. CASE m = c
    BY <1>2, <1>3, <2>1, <2>2 DEF Mind, Alike
  <2>3. CASE m # c
    BY <1>2, <1>3, <2>1, <2>3 DEF Mind, Alike
  <2> QED
    BY <2>2, <2>3
<1>6. PlayersThink(w, {})
  BY <1>2, <1>3, BeingsAre DEF Calm, PlayersThink, Alike
<1>7. Watch(w, W)
  <2> SUFFICES ASSUME NEW m \in Monsters, NEW p \in Humans, Wild(w, m),
                      w.life[p] = "placed", Sees(w, m, p)
      PROVE  Knows(w, m, p) \/ <<m, p>> \in W
    BY DEF Watch
  <2>1. Wild(b, m) /\ b.life[p] = "placed" /\ Sees(b, m, p)
    BY <1>2, AlikeKeeps DEF Alike
  <2>2. Knows(b, m, p) \/ <<m, p>> \in W
    BY <2>1 DEF Calm, Watch
  <2> QED
    BY <1>3, <2>2 DEF Knows
<1> QED
  BY <1>2, <1>4, <1>5, <1>6, <1>7 DEF Calm, w

\* A creature is placed.
LEMMA PlaceCreatureIs ==
  ASSUME NEW b, Calm(b, NoCreature, {}, {}, {}), Bound(b, NoCreature),
         NEW c \in Beings, b.life[c] = "unborn",
         NEW r \in Rooms \cup {NoCreature}
  PROVE  /\ Calm(PlaceCreature(b, c, r), NoCreature, {}, {}, {})
         /\ Bound(PlaceCreature(b, c, r), NoCreature)
         /\ PlaceCreature(b, c, r).life[c] = "placed"
         /\ \A x \in Beings \ {c} : PlaceCreature(b, c, r).life[x] = b.life[x]
         /\ PlaceCreature(b, c, r).master = b.master
<1> DEFINE p == Appeared(b, c, r)
           a == AppearAll(p, c)
           w == AddCheck(a, c)
<1>1. PlaceCreature(b, c, r) = w
  BY PlaceCreatureUnfolds
<1>2. /\ Calm(p, NoCreature, {}, {c}, Pending(Monsters, c, {}))
      /\ Bound(p, NoCreature) /\ p.life[c] = "placed"
      /\ \A x \in Beings \ {c} : p.life[x] = b.life[x]
      /\ p.master = b.master
  BY Zenon, AppearedIs
<1> HIDE DEF p
<1>3. Calm(a, NoCreature, {}, {c}, {}) /\ Alike(p, a)
  BY <1>2, AppearAllIs
<1> HIDE DEF a
<1>4. Calm(w, NoCreature, {}, {}, {}) /\ Alike(a, w)
  BY <1>2, <1>3, AddCheckIsCalm DEF Alike
<1> HIDE DEF w
<1>5. Alike(p, w) /\ Bound(w, NoCreature)
  BY <1>2, <1>3, <1>4, AlikeTwice, AlikeKeeps
<1> QED
  BY <1>1, <1>2, <1>4, <1>5 DEF Alike

\* A monster looks after itself, and all else stays as it was.
LEMMA UpdateIdleIsCalm ==
  ASSUME NEW b, NEW z, NEW U, NEW V, NEW W, Calm(b, z, U, V, W),
         NEW m \in Monsters, Known(b, m)
  PROVE  /\ Calm(UpdateIdle(b, m), z, U, V, W)
         /\ Alike(b, UpdateIdle(b, m))
         /\ \A p : Wild(b, m) /\ Knows(b, m, p)
                        => Knows(UpdateIdle(b, m), m, p)
<1> DEFINE w == UpdateIdle(b, m)
<1>1. /\ Touched(b, w, m) /\ Good(w) /\ Mind(w, m)
      /\ w.targets[m] = b.targets[m]
      /\ Wild(b, m) /\ b.targets[m] # {} => ~w.isIdle[m]
  BY UpdateIdleIs DEF Calm
<1> HIDE DEF w
<1>2. \A p : Wild(b, m) /\ Knows(b, m, p) => Knows(w, m, p)
  BY <1>1 DEF Knows
<1>3. Calm(w, z, U, V, W)
  BY <1>1, <1>2, TouchedIsCalm
<1> QED
  BY <1>1, <1>2, <1>3, TouchedIsAlike DEF w

\* Who lives, where and with whom stays.
Still(b, w) ==
    /\ w.life = b.life /\ w.room = b.room /\ w.healthy = b.healthy
    /\ w.master = b.master

\* One after the other.
LEMMA StillTwice ==
  ASSUME NEW b, NEW w, NEW v, Still(b, w), Still(w, v)
  PROVE  Still(b, v)
BY DEF Still

\* What is still lives, sees and is bound the same.
LEMMA StillKeeps ==
  ASSUME NEW b, NEW w, Still(b, w)
  PROVE  /\ \A x : Known(w, x) <=> Known(b, x)
         /\ \A x : Wild(w, x) <=> Wild(b, x)
         /\ \A x, y : Sees(w, x, y) <=> Sees(b, x, y)
         /\ \A k : Bound(b, k) => Bound(w, k)
         /\ \A e : Fewer(e, b) => Fewer(e, w)
BY DEF Still, Known, Wild, Sees, Bound, IsSummon, Fewer

\* What is alike, or only turned, is still.
LEMMA AlikeIsStill ==
  ASSUME NEW b, NEW w
  PROVE  (Alike(b, w) => Still(b, w)) /\ (Turned(b, w) => Still(b, w))
BY DEF Alike, Turned, Still

\* A monster that does not move meets c, or loses sight of it.
Meets(w, x, c, from) ==
    IF Sees(w, x, c) /\ w.room[x] # from THEN Found(w, x, c)
    ELSE IF ~Sees(w, x, c) THEN Left(w, x, c) ELSE w

\* A monster meets one that moves, or loses sight of it.
LEMMA MeetsIs ==
  ASSUME NEW w, NEW z, NEW U, NEW V, NEW W, Calm(w, z, U, V, W),
         NEW c \in Beings, w.life[c] = "placed", NEW x \in Monsters,
         Known(w, x), w.life[x] = "removed" => ~Sees(w, x, c), NEW from
  PROVE  /\ Calm(Meets(w, x, c, from), z, U, V, W)
         /\ Alike(w, Meets(w, x, c, from))
         /\ c \in Humans /\ Wild(w, x) /\ Sees(w, x, c) /\ w.room[x] # from
                => Knows(Meets(w, x, c, from), x, c)
<1> DEFINE v == Meets(w, x, c, from)
<1>0. Good(w) /\ Mind(w, x) /\ Known(w, c)
  BY DEF Calm, Known
<1> SUFFICES /\ Calm(v, z, U, V, W) /\ Alike(w, v)
             /\ c \in Humans /\ Wild(w, x) /\ Sees(w, x, c)
                    /\ w.room[x] # from => Knows(v, x, c)
  OBVIOUS
<1>1. CASE Sees(w, x, c) /\ w.room[x] # from
  <2>1. v = Found(w, x, c)
    BY <1>1 DEF Meets
  <2> HIDE DEF v
  <2>2. w.life[x] = "placed"
    BY <1>1 DEF Known
  <2>3. /\ Attends(w, v, x, NoCreature)
        /\ Wild(w, x) /\ c \in Humans /\ Sees(w, x, c) => Knows(v, x, c)
    BY <1>0, <2>1, <2>2, FoundIs
  <2>4. \A p \in Humans : Wild(w, x) /\ Knows(w, x, p) => Knows(v, x, p)
    BY <2>3, BeingsAre DEF Attends
  <2>5. Touched(w, v, x) /\ Good(v) /\ Mind(v, x)
    BY <2>3 DEF Attends
  <2>6. Calm(v, z, U, V, W)
    BY <2>4, <2>5, TouchedIsCalm
  <2> QED
    BY <2>3, <2>5, <2>6, TouchedIsAlike
<1>2. CASE ~Sees(w, x, c)
  <2>1. v = Left(w, x, c)
    BY <1>2 DEF Meets
  <2> HIDE DEF v
  <2>2. Attends(w, v, x, c)
    BY <1>0, <2>1, LeftIs
  <2>3. \A p \in Humans : Wild(w, x) /\ Sees(w, x, p) /\ Knows(w, x, p)
                            => Knows(v, x, p)
    BY <1>2, <2>2, BeingsAre DEF Attends
  <2>4. Touched(w, v, x) /\ Good(v) /\ Mind(v, x)
    BY <2>2 DEF Attends
  <2>5. Calm(v, z, U, V, W)
    BY <2>3, <2>4, TouchedIsCalm
  <2> QED
    BY <1>2, <2>4, <2>5, TouchedIsAlike
<1>3. CASE Sees(w, x, c) /\ w.room[x] = from
  <2>1. v = w
    BY <1>3 DEF Meets
  <2> HIDE DEF v
  <2> QED
    BY <1>3, <2>1 DEF Alike
<1> QED
  BY <1>1, <1>2, <1>3

\* Whoever has lost sight of the one it attacks stops.
Loses(w, x, c) ==
    IF w.attacked[x] # NoCreature /\ (x = c \/ w.attacked[x] = c)
        /\ ~Sees(w, x, w.attacked[x])
    THEN SetAttacked(w, x, NoCreature) ELSE w

\* Who stops attacking was told.
LEMMA LosesIs ==
  ASSUME NEW w, NEW U, NEW V, NEW W, NEW c, Calm(w, c, U, V, W),
         NEW x \in Beings, Known(w, x)
  PROVE  Calm(Loses(w, x, c), c, U \ {x}, V, W) /\ Turned(w, Loses(w, x, c))
<1> DEFINE v == Loses(w, x, c)
           Lost == /\ w.attacked[x] # NoCreature
                   /\ x = c \/ w.attacked[x] = c
                   /\ ~Sees(w, x, w.attacked[x])
<1>1. /\ Calm(v, c, U, V, W) /\ Turned(w, v)
      /\ \/ v.attacked[x] = NoCreature
         \/ ~(x = c \/ v.attacked[x] = c)
         \/ Sees(v, x, v.attacked[x])
  <2>1. CASE Lost
    <3>1. v = SetAttacked(w, x, NoCreature)
      BY <2>1 DEF Loses
    <3> HIDE DEF v
    <3> QED
      BY <3>1, StopsAttacking
  <2>2. CASE ~Lost
    <3>1. v = w
      BY <2>2 DEF Loses
    <3> HIDE DEF v
    <3> QED
      BY <2>2, <3>1 DEF Turned, Calm, Good
  <2> QED
    BY <2>1, <2>2
<1> HIDE DEF v
<1>2. InView(v, c, U \ {x})
  <2> SUFFICES ASSUME NEW y \in Beings, v.life[y] = "placed",
                      v.attacked[y] # NoCreature
      PROVE  \/ v.life[v.attacked[y]] = "placed" /\ Sees(v, y, v.attacked[y])
             \/ /\ y \in U \ {x} /\ (y = c \/ v.attacked[y] = c)
                /\ \/ v.life[v.attacked[y]] = "placed"
                   \/ ~Sees(v, y, v.attacked[y])
    BY DEF InView
  <2>1. \/ v.life[v.attacked[y]] = "placed" /\ Sees(v, y, v.attacked[y])
        \/ /\ y \in U /\ (y = c \/ v.attacked[y] = c)
           /\ \/ v.life[v.attacked[y]] = "placed"
              \/ ~Sees(v, y, v.attacked[y])
    BY <1>1 DEF Calm, InView
  <2>2. CASE y = x
    BY <1>1, <2>1, <2>2
  <2>3. CASE y # x
    BY <2>1, <2>3
  <2> QED
    BY <2>2, <2>3
<1> QED
  BY <1>1, <1>2 DEF Calm, v

\* x is told that c moved.
LEMMA OnMoveUnfolds ==
  ASSUME NEW b, NEW x, NEW c, NEW from, NEW seen, seen = Loses(b, x, c),
         seen.room = b.room, NEW awake,
         awake = UpdateIdle(Meets(seen, x, c, from), x)
  PROVE  OnMove(b, x, c, from) =
            IF x \in Humans THEN seen
            ELSE IF x = c THEN LookAround(seen, c)
            ELSE IF ~IsSummon(awake, x) /\ awake.attacked[x] = NoCreature
                        /\ IsOpponent(awake, x, c)
            THEN SelectTarget(awake, x, c) ELSE awake
<1> DEFINE s == IF b.attacked[x] # NoCreature /\ (x = c \/ b.attacked[x] = c)
                        /\ ~Sees(b, x, b.attacked[x])
                THEN SetAttacked(b, x, NoCreature) ELSE b
           t == IF Sees(s, x, c) /\ b.room[x] # from THEN Found(s, x, c)
                ELSE IF ~Sees(s, x, c) THEN Left(s, x, c) ELSE s
           a == UpdateIdle(t, x)
<1>1. OnMove(b, x, c, from) =
            IF x \in Humans THEN s
            ELSE IF x = c THEN LookAround(s, c)
            ELSE IF ~IsSummon(a, x) /\ a.attacked[x] = NoCreature
                        /\ IsOpponent(a, x, c)
            THEN SelectTarget(a, x, c) ELSE a
  BY DEF OnMove
<1>2. s = seen
  BY DEF Loses
<1> HIDE DEF s
<1>3. t = Meets(seen, x, c, from)
  BY <1>2 DEF Meets
<1> HIDE DEF t
<1>4. a = awake
  BY <1>3
<1> HIDE DEF a
<1> QED
  BY <1>1, <1>2, <1>4

\* x is told that c moved.
LEMMA OnMoveIs ==
  ASSUME NEW w, NEW U, NEW V, NEW R, NEW F, NEW c \in Beings,
         Calm(w, c, U, V, Pending(R, c, F)), w.life[c] = "placed",
         NEW x \in Beings, Known(w, x),
         w.life[x] = "removed" => ~Sees(w, x, c), NEW from,
         x # c /\ x \in Monsters /\ w.room[x] = from => x \in F
  PROVE  /\ Calm(OnMove(w, x, c, from), c, U \ {x}, V,
                 Pending(R \ {x}, c, F))
         /\ Still(w, OnMove(w, x, c, from))
<1> DEFINE seen == Loses(w, x, c)
           faced == Meets(seen, x, c, from)
           awake == UpdateIdle(faced, x)
           v == OnMove(w, x, c, from)
           W == Pending(R, c, F)
<1> SUFFICES Calm(v, c, U \ {x}, V, Pending(R \ {x}, c, F)) /\ Still(w, v)
  OBVIOUS
<1> HIDE DEF W
<1>1. Calm(seen, c, U \ {x}, V, W) /\ Turned(w, seen)
  BY LosesIs DEF W
<1>2. Still(w, seen) /\ seen.room = w.room /\ seen.life = w.life
  BY <1>1, AlikeIsStill DEF Still
<1>3. v = IF x \in Humans THEN seen
          ELSE IF x = c THEN LookAround(seen, c)
          ELSE IF ~IsSummon(awake, x) /\ awake.attacked[x] = NoCreature
                    /\ IsOpponent(awake, x, c)
          THEN SelectTarget(awake, x, c) ELSE awake
  <2>1. seen = Loses(w, x, c) /\ awake = UpdateIdle(Meets(seen, x, c, from), x)
    OBVIOUS
  <2> HIDE DEF seen, awake, faced
  <2> QED
    BY <1>2, <2>1, OnMoveUnfolds
<1> HIDE DEF seen, v
<1>4. /\ Calm(v, c, U \ {x}, V, W) /\ Still(w, v)
      /\ \A p \in Humans :
            x \in Monsters /\ (x = c \/ (p = c /\ x \notin F))
                /\ Wild(v, x) /\ v.life[p] = "placed" /\ Sees(v, x, p)
                    => Knows(v, x, p)
  <2>1. CASE x \in Humans
    BY <1>1, <1>2, <1>3, <2>1, BeingsAre
  <2>2. CASE x \notin Humans /\ x = c
    <3>0. x \in Monsters
      BY <2>2 DEF Beings
    <3>1. v = LookAround(seen, x)
      BY <1>3, <2>2
    <3>2. /\ Touched(seen, v, x) /\ Good(v) /\ Mind(v, x)
          /\ \A p \in Humans :
                Wild(seen, x) /\ seen.life[p] = "placed" /\ Sees(seen, x, p)
                    => Knows(v, x, p)
      BY <1>1, <1>2, <2>2, <3>0, <3>1, LookAroundIs DEF Calm
    <3>3. Calm(v, c, U \ {x}, V, W)
      BY <1>1, <3>0, <3>2, TouchedIsCalm
    <3>4. Still(seen, v) /\ Still(w, v)
      BY <1>2, <3>2, TouchedIsAlike, AlikeIsStill, StillTwice
    <3> QED
      BY Zenon, <3>2, <3>3, <3>4, StillKeeps DEF Still
  <2>3. CASE x \notin Humans /\ x # c
    <3>0. x \in Monsters /\ Known(seen, x)
      BY <1>2, <2>3, StillKeeps DEF Beings
    <3>1. /\ Calm(faced, c, U \ {x}, V, W) /\ Alike(seen, faced)
          /\ c \in Humans /\ Wild(seen, x) /\ Sees(seen, x, c)
                /\ seen.room[x] # from => Knows(faced, x, c)
      BY <1>1, <1>2, <3>0, StillKeeps, MeetsIs
    <3> HIDE DEF faced
    <3>2. Known(faced, x)
      BY <3>0, <3>1, AlikeKeeps
    <3>3. /\ Calm(awake, c, U \ {x}, V, W) /\ Alike(faced, awake)
          /\ \A p : Wild(faced, x) /\ Knows(faced, x, p) => Knows(awake, x, p)
      BY <3>0, <3>1, <3>2, UpdateIdleIsCalm
    <3> HIDE DEF awake
    <3>4. Known(awake, x)
      BY <3>2, <3>3, AlikeKeeps
    <3>5. Calm(v, c, U \ {x}, V, W) /\ Turned(awake, v)
      <4>1. v = SelectTarget(awake, x, c) \/ v = awake
        BY <1>3, <2>3
      <4>2. v = awake => Turned(awake, v)
        BY <3>3 DEF Turned, Calm, Good
      <4> QED
        BY <3>0, <3>3, <3>4, <4>1, <4>2, SelectTargetIs
    <3>6. Still(seen, faced) /\ Still(faced, awake) /\ Still(awake, v)
      BY <3>1, <3>3, <3>5, AlikeIsStill
    <3>7. Still(seen, v) /\ Still(w, v)
      BY <1>2, <3>6, StillTwice
    <3>8. ASSUME NEW p \in Humans, p = c, x \notin F, Wild(v, x),
                 Sees(v, x, p)
          PROVE  Knows(v, x, p)
      <4>1. Wild(seen, x) /\ Sees(seen, x, c) /\ Wild(faced, x)
        BY <3>6, <3>7, <3>8, StillKeeps
      <4>2. seen.room[x] # from
        BY <1>2, <2>3, <3>0, <3>8
      <4>3. Knows(awake, x, c)
        BY <3>1, <3>3, <3>8, <4>1, <4>2
      <4> QED
        BY <3>5, <3>8, <4>3 DEF Knows, Turned
    <3> QED
      BY <2>3, <3>5, <3>7, <3>8
  <2> QED
    BY <2>1, <2>2, <2>3
<1>5. Watch(v, Pending(R \ {x}, c, F))
  <2>1. Watch(v, Pending(R, c, F))
    BY <1>4 DEF Calm, W
  <2> QED
    BY <1>4, <2>1, WatchLess
<1> QED
  BY <1>4, <1>5 DEF Calm

(* A move, told one at a time. *)
Shifted(b, c, r) == [b EXCEPT !.room[c] = r]

Around(e, c, r, from) ==
    {y \in Placed(e) : y = c \/ e.room[y] \in {from, r}}

OneLeaves(e, far, c, w, s) ==
    IF e.master[s] = c /\ ~Sees(w, s, c) /\ far THEN RemoveOne(w, s) ELSE w

LeaveAllOnce(g, s, b, e, far, c) ==
    IF s = {} THEN b
    ELSE OneLeaves(e, far, c, g[s \ {Latest(s)}], Order[Latest(s)])

LeaveAll(b, e, far, c) ==
    (CHOOSE g : g = [s \in SUBSET DOMAIN Order |->
                        LeaveAllOnce(g, s, b, e, far, c)])[DOMAIN Order]

LeaveAllBy(h, D, b, e, far, c) ==
    /\ h \in [0 .. Len(Order) -> D]
    /\ h[0] = b /\ LeaveAll(b, e, far, c) = h[Len(Order)]
    /\ \A i \in 1 .. Len(Order) :
        h[i] = OneLeaves(e, far, c, h[i - 1], Order[i])

\* Those that its master left behind leave, one by one.
LEMMA LeaveAllSteps ==
  ASSUME NEW b, NEW e, NEW far, NEW c, NEW D, b \in D,
         \A w \in D : \A y \in Beings : OneLeaves(e, far, c, w, y) \in D
  PROVE  \E h : LeaveAllBy(h, D, b, e, far, c)
<1> DEFINE n == Len(Order)
           S == 1 .. n
           op == [a \in S \X D |-> OneLeaves(e, far, c, a[2], Order[a[1]])]
           f == CHOOSE g :
                    g = [s \in SUBSET S |-> LeaveAllOnce(g, s, b, e, far, c)]
<1>1. n \in Nat /\ S = DOMAIN Order /\ \A i \in S : Order[i] \in Beings
  BY OrderIs
<1>2. LeaveAll(b, e, far, c) = f[S]
  BY Zenon, <1>1 DEF LeaveAll
<1>3. op \in [S \X D -> D] /\ \A i \in S : \A w \in D :
            op[<<i, w>>] = OneLeaves(e, far, c, w, Order[i])
  BY <1>1
<1>3a. S = 1 .. n
  OBVIOUS
<1> HIDE DEF op, n, S
<1>4. PICK k \in [SUBSET S -> D] : FoldedFromLeft(k, S, b, op)
  BY Zenon, <1>1, <1>3, <1>3a, LeftExists
<1>5. k = [s \in SUBSET S |-> LeaveAllOnce(k, s, b, e, far, c)]
  <2> SUFFICES ASSUME NEW s \in SUBSET S
               PROVE  k[s] = LeaveAllOnce(k, s, b, e, far, c)
    OBVIOUS
  <2>1. CASE s = {}
    BY Zenon, <1>4, <2>1 DEF FoldedFromLeft, FromLeft, LeaveAllOnce
  <2>2. CASE s # {}
    <3>1. Latest(s) \in S /\ s \ {Latest(s)} \in SUBSET S
      BY Zenon, <1>1, <1>3a, <2>2, LatestIs
    <3>2. k[s \ {Latest(s)}] \in D
      BY <3>1
    <3>3. k[s] = op[<<Latest(s), k[s \ {Latest(s)}]>>]
      BY <1>4, <2>2 DEF FoldedFromLeft, FromLeft
    <3> QED
      BY <1>3, <2>2, <3>1, <3>2, <3>3 DEF LeaveAllOnce
  <2> QED
    BY <2>1, <2>2
<1>6. f = [s \in SUBSET S |-> LeaveAllOnce(f, s, b, e, far, c)]
  BY <1>5
<1> HIDE DEF f
<1>7. f[{}] = b
  <2>1. f[{}] = LeaveAllOnce(f, {}, b, e, far, c)
    BY <1>6
  <2> QED
    BY <2>1 DEF LeaveAllOnce
<1>8. ASSUME NEW s \in SUBSET S, s # {}, f[s \ {Latest(s)}] \in D
      PROVE  f[s] = op[<<Latest(s), f[s \ {Latest(s)}]>>]
  <2>1. Latest(s) \in S
    BY <1>1, <1>3a, <1>8, LatestIs
  <2>2. f[s] = LeaveAllOnce(f, s, b, e, far, c)
    BY <1>6
  <2> QED
    BY Zenon, <1>3, <1>8, <2>1, <2>2 DEF LeaveAllOnce
<1>9. PICK h \in [0 .. n -> D] : StepByStep(h, n, b, op) /\ f[S] = h[n]
  <2>1. op \in [S \X D -> D] /\ n \in Nat /\ b \in D
    BY <1>1, <1>3
  <2>2. GoesFromLeft(f, S, D, b, op)
    BY Zenon, <1>7, <1>8 DEF GoesFromLeft
  <2>3. HasSteps(n, D, b, op, f[S])
    BY Zenon, <1>3a, <2>1, <2>2, LeftSteps
  <2> QED
    BY Zenon, <2>3 DEF HasSteps
<1>10. ASSUME NEW i \in 1 .. n
       PROVE  h[i] = OneLeaves(e, far, c, h[i - 1], Order[i])
  <2>1. i \in S /\ i - 1 \in 0 .. n
    BY <1>1, <1>3a
  <2>2. h[i - 1] \in D
    BY <2>1
  <2> QED
    BY Zenon, <1>3, <1>9, <2>1, <2>2 DEF StepByStep
<1> QED
  BY Zenon, <1>2, <1>9, <1>10 DEF StepByStep, LeaveAllBy, n

OneMoves(e, r, from, far, c, w, x) ==
    IF x \notin Around(e, c, r, from) THEN w
    ELSE OnMove(IF x = c THEN LeaveAll(w, e, far, c) ELSE w, x, c, from)

\* What is as it was stays so while c moves.
Moving(e, w, c) ==
    /\ Fewer(e, w) /\ w.life[c] = "placed" /\ Bound(w, NoCreature)
    /\ \A x \in Beings :
        e.life[x] = "placed" /\ w.life[x] = "removed" => ~Sees(e, x, c)

\* What is still while c moves.
LEMMA MovingKeeps ==
  ASSUME NEW e, NEW w, NEW v, NEW c, Moving(e, w, c), Still(w, v)
  PROVE  Moving(e, v, c)
<1>1. Fewer(e, v) /\ Bound(v, NoCreature)
  BY StillKeeps DEF Moving
<1> QED
  BY <1>1 DEF Moving, Still

\* A summon that does not see c any more may leave.
LEMMA OneLeavesIs ==
  ASSUME NEW e, e \in Books, Masters(e), NEW w, NEW z, NEW U, NEW V, NEW W,
         Calm(w, z, U, V, W), NEW c \in Beings, Moving(e, w, c),
         NEW far \in BOOLEAN, NEW s \in Beings
  PROVE  /\ Calm(OneLeaves(e, far, c, w, s), z, U, V, W)
         /\ Moving(e, OneLeaves(e, far, c, w, s), c)
<1> DEFINE v == RemoveOne(w, s)
<1>1. CASE e.master[s] = c /\ ~Sees(w, s, c) /\ far
  <2>1. Calm(v, z, U, V, W) /\ Gone(w, v, s)
    BY RemoveOneIs
  <2>2. OneLeaves(e, far, c, w, s) = v
    BY <1>1 DEF OneLeaves
  <2> HIDE DEF v
  <2>3. \A y \in Beings : w.master[y] # s
    <3> SUFFICES ASSUME NEW y \in Beings, w.master[y] = s PROVE FALSE
      OBVIOUS
    <3>1. e.master[y] = s
      BY BeingsAre DEF Moving, Fewer
    <3>2. e.master[s] = NoCreature
      BY <3>1, BeingsAre DEF Masters
    <3> QED
      BY <1>1, <3>2, BeingsAre
  <2>4. Bound(v, NoCreature)
    BY <2>1, <2>3, GoneBinds DEF Moving, Calm, Good
  <2>5. Fewer(e, v)
    BY <2>1, GoneIsFewer, FewerTwice DEF Moving
  <2>6. s # c
    BY <1>1 DEF Sees
  <2>7. v.life[c] = "placed"
    BY <2>1, <2>6 DEF Gone, Moving
  <2>8. ASSUME NEW x \in Beings, e.life[x] = "placed", v.life[x] = "removed"
        PROVE  ~Sees(e, x, c)
    <3>1. CASE x = s
      BY <1>1, <3>1 DEF Moving, Fewer, Sees
    <3>2. CASE x # s
      BY <2>1, <2>8, <3>2 DEF Moving, Gone
    <3> QED
      BY <3>1, <3>2
  <2> QED
    BY <2>1, <2>2, <2>4, <2>5, <2>7, <2>8 DEF Moving
<1>2. CASE ~(e.master[s] = c /\ ~Sees(w, s, c) /\ far)
  <2>1. OneLeaves(e, far, c, w, s) = w
    BY <1>2 DEF OneLeaves
  <2> QED
    BY <2>1
<1> QED
  BY <1>1, <1>2

\* The summons left behind.
LEMMA LeaveAllIs ==
  ASSUME NEW e, e \in Books, Masters(e), NEW b, NEW z, NEW U, NEW V, NEW W,
         Calm(b, z, U, V, W), NEW c \in Beings, Moving(e, b, c),
         NEW far \in BOOLEAN
  PROVE  /\ Calm(LeaveAll(b, e, far, c), z, U, V, W)
         /\ Moving(e, LeaveAll(b, e, far, c), c)
<1> DEFINE D == {w \in Books : Calm(w, z, U, V, W) /\ Moving(e, w, c)}
<1>1. b \in D
  BY DEF Calm, Good
<1>2. \A w \in D : \A s \in Beings : OneLeaves(e, far, c, w, s) \in D
  <2> SUFFICES ASSUME NEW w \in D, NEW s \in Beings
               PROVE  OneLeaves(e, far, c, w, s) \in D
    OBVIOUS
  <2>1. /\ Calm(OneLeaves(e, far, c, w, s), z, U, V, W)
        /\ Moving(e, OneLeaves(e, far, c, w, s), c)
    BY OneLeavesIs
  <2> QED
    BY <2>1 DEF Calm, Good
<1> HIDE DEF D
<1>3. PICK h : LeaveAllBy(h, D, b, e, far, c)
  BY Zenon, <1>1, <1>2, LeaveAllSteps
<1>4. LeaveAll(b, e, far, c) \in D
  BY <1>3, OrderIs DEF LeaveAllBy
<1> QED
  BY <1>4 DEF D

\* A room.
LEMMA BooksShifted ==
  ASSUME NEW b \in Books, NEW c \in Beings, NEW r \in Rooms \cup {NoCreature}
  PROVE  /\ Shifted(b, c, r) \in Books /\ Shifted(b, c, r).room[c] = r
         /\ \A x \in Beings \ {c} : Shifted(b, c, r).room[x] = b.room[x]
         /\ Shifted(b, c, r).life = b.life
         /\ Shifted(b, c, r).healthy = b.healthy
         /\ Shifted(b, c, r).master = b.master
         /\ Shifted(b, c, r).attacked = b.attacked
         /\ Shifted(b, c, r).friends = b.friends
         /\ Shifted(b, c, r).targets = b.targets
         /\ Shifted(b, c, r).isIdle = b.isIdle
         /\ Shifted(b, c, r).check = b.check
         /\ Shifted(b, c, r).references = b.references
         /\ Shifted(b, c, r).toRelease = b.toRelease
<1> DEFINE o == [b.room EXCEPT ![c] = r]
           w == Shifted(b, c, r)
<1>1. /\ o \in [Beings -> Rooms \cup {NoCreature}] /\ o[c] = r
      /\ \A x \in Beings \ {c} : o[x] = b.room[x]
  BY BooksAre
<1>2. w = [b EXCEPT !.room = o]
  BY DEF Shifted
<1> HIDE DEF o, w
<1>3. /\ w \in Books /\ w.room = o /\ w.life = b.life
      /\ w.healthy = b.healthy
      /\ w.master = b.master /\ w.attacked = b.attacked
      /\ w.friends = b.friends /\ w.targets = b.targets
      /\ w.isIdle = b.isIdle /\ w.check = b.check
      /\ w.references = b.references /\ w.toRelease = b.toRelease
  BY Zenon, <1>1, <1>2 DEF Books
<1> QED
  BY <1>1, <1>3 DEF w

\* c is in another room, and nobody was told.
LEMMA ShiftedIs ==
  ASSUME NEW b, Calm(b, NoCreature, {}, {}, {}), Bound(b, NoCreature),
         NEW c \in Beings, b.life[c] = "placed",
         NEW r \in Rooms \cup {NoCreature},
         NEW F, F = {m \in Monsters : b.room[m] = b.room[c]},
         NEW S, S = Around(Shifted(b, c, r), c, r, b.room[c])
  PROVE  /\ Calm(Shifted(b, c, r), c, S, {}, Pending(Monsters, c, F))
         /\ Moving(Shifted(b, c, r), Shifted(b, c, r), c)
<1> DEFINE w == Shifted(b, c, r)
           W == Pending(Monsters, c, F)
<1>0. b \in Books /\ Good(b)
  BY DEF Calm, Good
<1>1. /\ w \in Books /\ w.room[c] = r
      /\ \A x \in Beings \ {c} : w.room[x] = b.room[x]
      /\ w.life = b.life /\ w.healthy = b.healthy
      /\ w.master = b.master /\ w.attacked = b.attacked
      /\ w.friends = b.friends /\ w.targets = b.targets
      /\ w.isIdle = b.isIdle /\ w.check = b.check
      /\ w.references = b.references /\ w.toRelease = b.toRelease
  BY <1>0, BooksShifted
<1>2. \A y \in Beings : b.life[y] = "placed"
            /\ (y = c \/ b.room[y] = b.room[c]) => y \in S
  BY <1>1 DEF Around, Placed
<1>3. ASSUME NEW m \in Monsters, NEW p \in Humans
      PROVE  <<m, p>> \in W <=> m = c \/ (p = c /\ b.room[m] # b.room[c])
  BY PendingIs
<1> HIDE DEF w, W
<1>4. Good(w)
  <2>1. \A x : HeldIn(w, x) = HeldIn(b, x)
    BY <1>1 DEF HeldIn, Stands, Checks, Serves
  <2> QED
    BY <1>0, <1>1, <2>1 DEF Good, Counted
<1>5. Masters(w) /\ Released(w) /\ Blank(w) /\ PlayersThink(w, {})
      /\ Bound(w, NoCreature)
  BY <1>1 DEF Calm, Masters, Released, Blank, PlayersThink, Known, Bound
<1>6. \A m \in Monsters : Mind(w, m)
  BY <1>1 DEF Calm, Mind
<1>7. InView(w, c, S)
  <2> SUFFICES ASSUME NEW y \in Beings, b.life[y] = "placed",
                      b.attacked[y] # NoCreature
      PROVE  \/ b.life[b.attacked[y]] = "placed" /\ Sees(w, y, b.attacked[y])
             \/ /\ y \in S /\ (y = c \/ b.attacked[y] = c)
                /\ \/ b.life[b.attacked[y]] = "placed"
                   \/ ~Sees(w, y, b.attacked[y])
    BY <1>1 DEF InView
  <2>1. /\ b.life[b.attacked[y]] = "placed" /\ Sees(b, y, b.attacked[y])
        /\ b.attacked[y] \in Beings
    BY <1>0, BooksAre DEF Calm, InView
  <2>2. CASE y = c \/ b.attacked[y] = c
    <3>1. y \in S
      BY <1>2, <2>1, <2>2 DEF Sees
    <3> QED
      BY <2>1, <2>2, <3>1
  <2>3. CASE ~(y = c \/ b.attacked[y] = c)
    BY <1>1, <2>1, <2>3 DEF Sees
  <2> QED
    BY <2>2, <2>3
<1>8. Watch(w, W)
  <2> SUFFICES ASSUME NEW m \in Monsters, NEW p \in Humans, Wild(w, m),
                      w.life[p] = "placed", Sees(w, m, p)
      PROVE  Knows(w, m, p) \/ <<m, p>> \in W
    BY DEF Watch
  <2>0. m \in Beings /\ p \in Beings
    BY BeingsAre
  <2>1. CASE m = c
    BY <1>3, <2>1
  <2>2. CASE m # c /\ p = c /\ b.room[m] # b.room[c]
    BY <1>3, <2>2
  <2>3. CASE m # c /\ (p = c => b.room[m] = b.room[c])
    <3>1. Sees(b, m, p)
      BY <1>1, <2>0, <2>3 DEF Sees
    <3>2. Wild(b, m) /\ b.life[p] = "placed"
      BY <1>1 DEF Wild, IsSummon
    <3>3. Knows(b, m, p)
      BY <3>1, <3>2 DEF Calm, Watch
    <3> QED
      BY <1>1, <3>3 DEF Knows
  <2> QED
    BY <2>1, <2>2, <2>3
<1>9. Calm(w, c, S, {}, W)
  BY <1>4, <1>5, <1>6, <1>7, <1>8 DEF Calm
<1>10. Moving(w, w, c)
  BY <1>1, <1>5 DEF Moving, Fewer
<1> QED
  BY <1>9, <1>10 DEF w, W

\* x is told, if it is around.
LEMMA OneMovesIs ==
  ASSUME NEW e, e \in Books, Masters(e), NEW c \in Beings,
         e.life[c] = "placed", NEW r, e.room[c] = r, NEW from, NEW F,
         \A m \in Monsters : m # c /\ e.room[m] = from => m \in F,
         NEW U, U \subseteq Around(e, c, r, from), NEW R, NEW w,
         Calm(w, c, U, {}, Pending(R, c, F)), Moving(e, w, c),
         NEW far \in BOOLEAN, NEW x \in Beings
  PROVE  /\ Calm(OneMoves(e, r, from, far, c, w, x), c, U \ {x}, {},
                 Pending(R \ {x}, c, F))
         /\ Moving(e, OneMoves(e, r, from, far, c, w, x), c)
<1> DEFINE v == OneMoves(e, r, from, far, c, w, x)
           S == Around(e, c, r, from)
<1> SUFFICES /\ Calm(v, c, U \ {x}, {}, Pending(R \ {x}, c, F))
             /\ Moving(e, v, c)
  OBVIOUS
<1>0. /\ w.room = e.room /\ w.life[c] = "placed"
      /\ \A y \in Beings : w.life[y] = e.life[y]
            \/ (e.life[y] = "placed" /\ w.life[y] = "removed")
      /\ c \in S
  BY DEF Moving, Fewer, Around, Placed
<1>1. CASE x \notin S
  <2>1. v = w
    BY <1>1 DEF OneMoves
  <2>2. U \ {x} = U
    BY <1>1
  <2>3. \A p \in Humans :
            x \in Monsters /\ (x = c \/ (p = c /\ x \notin F))
                /\ Wild(w, x) /\ w.life[p] = "placed" /\ Sees(w, x, p)
                    => Knows(w, x, p)
    <3> SUFFICES ASSUME Wild(w, x), Sees(w, x, c) PROVE FALSE
      BY <1>0, <1>1
    <3>1. e.life[x] = "placed" /\ e.room[x] = r
      BY <1>0 DEF Wild, Sees
    <3> QED
      BY <1>1, <3>1 DEF Around, Placed
  <2>4. Watch(w, Pending(R \ {x}, c, F))
    <3>1. Watch(w, Pending(R, c, F))
      BY DEF Calm
    <3> QED
      BY <2>3, <3>1, WatchLess
  <2> HIDE DEF v
  <2> QED
    BY Zenon, <2>1, <2>2, <2>4 DEF Calm
<1>2. CASE x \in S
  <2> DEFINE u == IF x = c THEN LeaveAll(w, e, far, c) ELSE w
  <2>1. v = OnMove(u, x, c, from)
    BY <1>2 DEF OneMoves
  <2>2. Calm(u, c, U, {}, Pending(R, c, F)) /\ Moving(e, u, c)
    BY LeaveAllIs
  <2> HIDE DEF u, v, S
  <2>3. /\ u.room = e.room /\ u.life[c] = "placed"
        /\ \A y \in Beings : u.life[y] = e.life[y]
            \/ (e.life[y] = "placed" /\ u.life[y] = "removed")
        /\ \A y \in Beings :
            e.life[y] = "placed" /\ u.life[y] = "removed" => ~Sees(u, y, c)
    BY <2>2 DEF Moving, Fewer, Sees
  <2>4. e.life[x] = "placed"
    BY <1>2 DEF S, Around, Placed
  <2>5. Known(u, x) /\ (u.life[x] = "removed" => ~Sees(u, x, c))
    BY <2>3, <2>4 DEF Known
  <2>6. x # c /\ x \in Monsters /\ u.room[x] = from => x \in F
    BY <2>3
  <2>7. /\ Calm(v, c, U \ {x}, {}, Pending(R \ {x}, c, F))
        /\ Still(u, v)
    BY Zenon, <2>1, <2>2, <2>3, <2>5, <2>6, OnMoveIs
  <2> QED
    BY <2>2, <2>7, MovingKeeps
<1> QED
  BY <1>1, <1>2

(* moveCreature, one spectator at a time. *)
OneTells(b, r, far, c, w, x) ==
    IF x \notin {y \in Placed(b) : b.room[y] \in {b.room[c], r}} THEN w
    ELSE OnMove(IF x = c THEN LeaveAll(w, Shifted(b, c, r), far, c) ELSE w,
                x, c, b.room[c])

MoveAllOnce(g, s, b, c, r, far) ==
    IF s = {} THEN Shifted(b, c, r)
    ELSE OneTells(b, r, far, c, g[s \ {Latest(s)}], Order[Latest(s)])

MoveAll(b, c, r, far) ==
    (CHOOSE g : g = [s \in SUBSET DOMAIN Order |->
                        MoveAllOnce(g, s, b, c, r, far)])[DOMAIN Order]

MoveAllBy(h, D, b, c, r, far) ==
    /\ h \in [0 .. Len(Order) -> D]
    /\ h[0] = Shifted(b, c, r) /\ MoveAll(b, c, r, far) = h[Len(Order)]
    /\ \A i \in 1 .. Len(Order) :
        h[i] = OneTells(b, r, far, c, h[i - 1], Order[i])

\* All who see it before or after are told, one by one.
LEMMA MoveAllSteps ==
  ASSUME NEW b, NEW c, NEW r, NEW far, NEW D, Shifted(b, c, r) \in D,
         \A w \in D : \A y \in Beings : OneTells(b, r, far, c, w, y) \in D
  PROVE  \E h : MoveAllBy(h, D, b, c, r, far)
<1> DEFINE n == Len(Order)
           S == 1 .. n
           op == [a \in S \X D |-> OneTells(b, r, far, c, a[2], Order[a[1]])]
           f == CHOOSE g :
                    g = [s \in SUBSET S |-> MoveAllOnce(g, s, b, c, r, far)]
<1>1. n \in Nat /\ S = DOMAIN Order /\ \A i \in S : Order[i] \in Beings
  BY OrderIs
<1>2. MoveAll(b, c, r, far) = f[S]
  BY Zenon, <1>1 DEF MoveAll
<1>3. op \in [S \X D -> D] /\ \A i \in S : \A w \in D :
            op[<<i, w>>] = OneTells(b, r, far, c, w, Order[i])
  BY <1>1
<1>3a. S = 1 .. n
  OBVIOUS
<1> HIDE DEF op, n, S
<1>4. PICK k \in [SUBSET S -> D] : FoldedFromLeft(k, S, Shifted(b, c, r), op)
  BY Zenon, <1>1, <1>3, <1>3a, LeftExists
<1>5. k = [s \in SUBSET S |-> MoveAllOnce(k, s, b, c, r, far)]
  <2> SUFFICES ASSUME NEW s \in SUBSET S
               PROVE  k[s] = MoveAllOnce(k, s, b, c, r, far)
    OBVIOUS
  <2>1. CASE s = {}
    BY Zenon, <1>4, <2>1 DEF FoldedFromLeft, FromLeft, MoveAllOnce
  <2>2. CASE s # {}
    <3>1. Latest(s) \in S /\ s \ {Latest(s)} \in SUBSET S
      BY Zenon, <1>1, <1>3a, <2>2, LatestIs
    <3>2. k[s \ {Latest(s)}] \in D
      BY <3>1
    <3>3. k[s] = op[<<Latest(s), k[s \ {Latest(s)}]>>]
      BY <1>4, <2>2 DEF FoldedFromLeft, FromLeft
    <3> QED
      BY <1>3, <2>2, <3>1, <3>2, <3>3 DEF MoveAllOnce
  <2> QED
    BY <2>1, <2>2
<1>6. f = [s \in SUBSET S |-> MoveAllOnce(f, s, b, c, r, far)]
  BY <1>5
<1> HIDE DEF f
<1>7. f[{}] = Shifted(b, c, r)
  <2>1. f[{}] = MoveAllOnce(f, {}, b, c, r, far)
    BY <1>6
  <2> QED
    BY <2>1 DEF MoveAllOnce
<1>8. ASSUME NEW s \in SUBSET S, s # {}, f[s \ {Latest(s)}] \in D
      PROVE  f[s] = op[<<Latest(s), f[s \ {Latest(s)}]>>]
  <2>1. Latest(s) \in S
    BY Zenon, <1>1, <1>3a, <1>8, LatestIs
  <2>2. f[s] = MoveAllOnce(f, s, b, c, r, far)
    BY <1>6
  <2> QED
    BY Zenon, <1>3, <1>8, <2>1, <2>2 DEF MoveAllOnce
<1>9. PICK h \in [0 .. n -> D] :
        StepByStep(h, n, Shifted(b, c, r), op) /\ f[S] = h[n]
  <2>1. op \in [S \X D -> D] /\ n \in Nat /\ Shifted(b, c, r) \in D
    BY <1>1, <1>3
  <2>2. GoesFromLeft(f, S, D, Shifted(b, c, r), op)
    BY Zenon, <1>7, <1>8 DEF GoesFromLeft
  <2>3. HasSteps(n, D, Shifted(b, c, r), op, f[S])
    BY Zenon, <1>3a, <2>1, <2>2, LeftSteps
  <2> QED
    BY Zenon, <2>3 DEF HasSteps
<1>10. ASSUME NEW i \in 1 .. n
       PROVE  h[i] = OneTells(b, r, far, c, h[i - 1], Order[i])
  <2>1. i \in S /\ i - 1 \in 0 .. n
    BY <1>1, <1>3a
  <2>2. h[i - 1] \in D
    BY <2>1
  <2> QED
    BY Zenon, <1>3, <1>9, <2>1, <2>2 DEF StepByStep
<1> QED
  BY <1>2, <1>9, <1>10 DEF StepByStep, MoveAllBy, n

\* A move, told one by one.
LEMMA MoveCreatureUnfolds ==
  ASSUME NEW b, NEW c, NEW r, NEW far
  PROVE  MoveCreature(b, c, r, far) = MoveAll(b, c, r, far)
BY DEF MoveCreature, MoveAll, FoldLeft, MapThenFoldSet, MoveAllOnce, OneTells,
       LeaveAll, LeaveAllOnce, OneLeaves, Shifted, Latest, Max

\* It is the same whether those around are asked before or after.
LEMMA OneTellsIs ==
  ASSUME NEW b \in Books, NEW c \in Beings, b.life[c] = "placed",
         NEW r \in Rooms \cup {NoCreature}, NEW far, NEW w, NEW x
  PROVE  OneTells(b, r, far, c, w, x)
            = OneMoves(Shifted(b, c, r), r, b.room[c], far, c, w, x)
<1> DEFINE e == Shifted(b, c, r)
           A == {y \in Placed(b) : b.room[y] \in {b.room[c], r}}
<1>1. /\ e.life = b.life
      /\ \A y \in Beings \ {c} : e.room[y] = b.room[y]
  BY BooksShifted
<1> HIDE DEF e
<1>2. Placed(e) = Placed(b)
  BY <1>1 DEF Placed
<1>3. \A y \in Placed(b) : y \in Beings
  BY DEF Placed
<1>4. A = Around(e, c, r, b.room[c])
  BY <1>1, <1>2, <1>3 DEF Around
<1> QED
  BY <1>4 DEF OneTells, OneMoves, e

\* A creature moves.
LEMMA MoveCreatureIs ==
  ASSUME NEW b, Calm(b, NoCreature, {}, {}, {}), Bound(b, NoCreature),
         NEW c \in Beings, b.life[c] = "placed",
         NEW r \in Rooms \cup {NoCreature}, NEW far \in BOOLEAN
  PROVE  /\ Calm(MoveCreature(b, c, r, far), NoCreature, {}, {}, {})
         /\ Bound(MoveCreature(b, c, r, far), NoCreature)
<1> DEFINE e == Shifted(b, c, r)
           from == b.room[c]
           F == {m \in Monsters : b.room[m] = from}
           S == Around(e, c, r, from)
           T(i) == {x \in Beings : \A j \in 1 .. i : Order[j] # x}
           D == {w \in Books : /\ Calm(w, c, S, {}, Pending(Beings, c, F))
                               /\ Moving(e, w, c)}
           E == [i \in 0 .. Len(Order) |->
                    {w \in D : Calm(w, c, S \cap T(i), {},
                                    Pending(T(i), c, F))}]
<1>0. b \in Books
  BY DEF Calm, Good
<1>1. /\ Calm(e, c, S, {}, Pending(Monsters, c, F)) /\ Moving(e, e, c)
      /\ e \in Books /\ Masters(e)
  BY ShiftedIs DEF Calm, Good
<1>2. /\ e.life[c] = "placed" /\ e.room[c] = r
      /\ \A m \in Monsters : m # c /\ e.room[m] = from => m \in F
  BY <1>0, BooksShifted, BeingsAre
<1>3. \A w, x : OneTells(b, r, far, c, w, x)
                        = OneMoves(e, r, from, far, c, w, x)
  BY <1>0, OneTellsIs
<1> HIDE DEF e, from, F
<1>4. Calm(e, c, S, {}, Pending(Beings, c, F))
  BY <1>1, BeingsAre, CalmPending
<1>5. e \in D
  BY <1>1, <1>4
<1>6. ASSUME NEW w \in D, NEW x \in Beings, NEW Q \in SUBSET Beings,
             Calm(w, c, S \cap Q, {}, Pending(Q, c, F))
      PROVE  /\ OneTells(b, r, far, c, w, x) \in D
             /\ Calm(OneTells(b, r, far, c, w, x), c, S \cap (Q \ {x}), {},
                     Pending(Q \ {x}, c, F))
  <2> DEFINE v == OneTells(b, r, far, c, w, x)
  <2>0. Calm(w, c, S, {}, Pending(Beings, c, F)) /\ Moving(e, w, c)
    OBVIOUS
  <2>1. v = OneMoves(e, r, from, far, c, w, x)
    BY <1>3
  <2> HIDE DEF v, D
  <2>2. /\ Calm(v, c, S \ {x}, {}, Pending(Beings \ {x}, c, F))
        /\ Moving(e, v, c)
    BY Zenon, <1>1, <1>2, <2>0, <2>1, OneMovesIs
  <2>3. Calm(v, c, (S \cap Q) \ {x}, {}, Pending(Q \ {x}, c, F))
    <3>1. S \cap Q \subseteq Around(e, c, r, from)
      OBVIOUS
    <3> DEFINE U == S \cap Q
    <3> HIDE DEF U, S
    <3>2. U \subseteq Around(e, c, r, from)
      BY <3>1 DEF U
    <3>3. Calm(w, c, U, {}, Pending(Q, c, F))
      BY <1>6 DEF U
    <3>4. Calm(v, c, U \ {x}, {}, Pending(Q \ {x}, c, F))
      BY Zenon, <1>1, <1>2, <2>0, <2>1, <3>2, <3>3, OneMovesIs
    <3> QED
      BY <3>4 DEF U
  <2>4. (S \cap Q) \ {x} = S \cap (Q \ {x})
    OBVIOUS
  <2>5. Calm(v, c, S, {}, Pending(Beings, c, F))
    <3>1. Calm(v, c, S \ {x}, {}, Pending(Beings, c, F))
      BY <2>2, CalmPending
    <3>2. InView(v, c, S)
      <4>1. InView(v, c, S \ {x})
        BY <3>1 DEF Calm
      <4>2. \A y : y \in S \ {x} => y \in S
        OBVIOUS
      <4> HIDE DEF S
      <4> QED
        BY <4>1, <4>2 DEF InView
    <3> QED
      BY <3>1, <3>2 DEF Calm
  <2>6. v \in D
    BY <2>2, <2>5 DEF D, Calm, Good
  <2> QED
    BY <2>3, <2>4, <2>6 DEF v
<1>7. \A w \in D : /\ Calm(w, c, S, {}, Pending(Beings, c, F))
                   /\ Moving(e, w, c)
  OBVIOUS
<1> HIDE DEF D, S
<1>8. PICK h : MoveAllBy(h, D, b, c, r, far)
  <2>1. \A w \in D : \A x \in Beings : OneTells(b, r, far, c, w, x) \in D
    <3> SUFFICES ASSUME NEW w \in D, NEW x \in Beings
                 PROVE  OneTells(b, r, far, c, w, x) \in D
      OBVIOUS
    <3>1. Calm(w, c, S, {}, Pending(Beings, c, F))
      BY <1>7
    <3>2. S = S \cap Beings
      BY DEF S, Around, Placed
    <3>3. Calm(w, c, S \cap Beings, {}, Pending(Beings, c, F))
      BY <3>1, <3>2
    <3> QED
      BY Zenon, <1>6, <3>3
  <2>2. Shifted(b, c, r) \in D
    BY <1>5 DEF e
  <2> QED
    BY <2>1, <2>2, MoveAllSteps
<1>9. /\ h \in [0 .. Len(Order) -> D]
      /\ h[0] = e /\ MoveAll(b, c, r, far) = h[Len(Order)]
      /\ \A i \in 1 .. Len(Order) :
        h[i] = OneTells(b, r, far, c, h[i - 1], Order[i])
  BY <1>8 DEF MoveAllBy, e
<1>10. h[0] \in E[0]
  <2>1. T(0) = Beings
    OBVIOUS
  <2>2. S = S \cap Beings
    BY DEF S, Around, Placed
  <2>3. Calm(e, c, S \cap T(0), {}, Pending(T(0), c, F))
    BY <1>4, <2>1, <2>2
  <2> HIDE DEF T
  <2> QED
    BY <1>5, <1>9, <2>3, OrderIs
<1>11. ASSUME NEW i \in 1 .. Len(Order), h[i - 1] \in E[i - 1]
       PROVE  h[i] \in E[i]
  <2>1. /\ i \in 0 .. Len(Order) /\ i - 1 \in 0 .. Len(Order)
        /\ Order[i] \in Beings
        /\ \A j \in 1 .. i : j = i \/ j \in 1 .. (i - 1)
        /\ \A j \in 1 .. (i - 1) : j \in 1 .. i
        /\ i \in 1 .. i
    BY OrderIs
  <2>2. T(i) = T(i - 1) \ {Order[i]} /\ T(i - 1) \in SUBSET Beings
    BY <2>1
  <2> HIDE DEF T
  <2>3. /\ h[i - 1] \in D
        /\ Calm(h[i - 1], c, S \cap T(i - 1), {}, Pending(T(i - 1), c, F))
    BY <1>11, <2>1
  <2> DEFINE x == Order[i]
             w == h[i - 1]
             Q == T(i - 1)
  <2>4. w \in D /\ x \in Beings /\ Q \in SUBSET Beings
    BY <2>1, <2>2, <2>3
  <2>5. Calm(w, c, S \cap Q, {}, Pending(Q, c, F))
    BY <2>3
  <2>6. h[i] = OneTells(b, r, far, c, w, x)
    BY <1>9
  <2> HIDE DEF x, w, Q
  <2>7. /\ h[i] \in D
        /\ Calm(h[i], c, S \cap (Q \ {x}), {}, Pending(Q \ {x}, c, F))
    BY <1>6, <2>4, <2>5, <2>6
  <2>8. Calm(h[i], c, S \cap T(i), {}, Pending(T(i), c, F))
    BY <2>2, <2>7 DEF x, Q
  <2> QED
    BY <2>1, <2>7, <2>8
<1> DEFINE v == MoveAll(b, c, r, far)
<1>12. v \in E[Len(Order)]
  <2>1. h[Len(Order)] \in E[Len(Order)]
    <3> HIDE DEF E
    <3> QED
      BY <1>10, <1>11, OrderIs, StepsFit
  <2> QED
    BY <1>9, <2>1
<1> HIDE DEF v
<1>13. /\ v \in D
       /\ Calm(v, c, S \cap T(Len(Order)), {}, Pending(T(Len(Order)), c, F))
  <2> HIDE DEF T
  <2> QED
    BY <1>12, OrderIs
<1>14. T(Len(Order)) = {} /\ S \cap {} = {}
  BY OrderIs
<1> HIDE DEF T
<1>15. Calm(v, c, {}, {}, Pending({}, c, F))
  BY <1>13, <1>14
<1>16. Watch(v, {})
  <2> SUFFICES ASSUME NEW m \in Monsters, NEW p \in Humans,
                      Wild(v, m), v.life[p] = "placed", Sees(v, m, p)
               PROVE  Knows(v, m, p)
    BY DEF Watch
  <2>1. Knows(v, m, p) \/ <<m, p>> \in Pending({}, c, F)
    BY <1>15 DEF Calm, Watch
  <2>2. ~(<<m, p>> \in Pending({}, c, F))
    BY PendingIs
  <2> QED
    BY <2>1, <2>2
<1>17. InView(v, NoCreature, {})
  BY <1>15 DEF Calm, InView
<1>18. Bound(v, NoCreature)
  BY <1>7, <1>13 DEF Moving
<1>19. MoveCreature(b, c, r, far) = v
  BY MoveCreatureUnfolds DEF v
<1> QED
  BY <1>15, <1>16, <1>17, <1>18, <1>19 DEF Calm

\* w is b, where nobody has c as a master any more.
Deserted(b, w, c) ==
    /\ \A x \in Beings :
        /\ w.master[x] = IF b.master[x] = c THEN NoCreature ELSE b.master[x]
        /\ w.references[x] = IF b.master[x] = c THEN b.references[x] - 1
                             ELSE b.references[x]

\* What the summons of c are when c lets them go.
Forsaken(b, c) ==
    [b EXCEPT !.master = [x \in Beings |-> IF b.master[x] = c THEN NoCreature
                                           ELSE @[x]],
              !.references = [x \in Beings |-> IF b.master[x] = c
                                               THEN @[x] - 1 ELSE @[x]]]

\* The summons of c are counted when c lets them go.
LEMMA ForsakenIs ==
  ASSUME NEW b, Good(b), Masters(b), NEW c \in Beings
  PROVE  LET w == Forsaken(b, c)
         IN  /\ Good(w) /\ Deserted(b, w, c)
             /\ w.life = b.life /\ w.room = b.room /\ w.healthy = b.healthy
             /\ w.attacked = b.attacked /\ w.friends = b.friends
             /\ w.targets = b.targets /\ w.isIdle = b.isIdle
             /\ w.check = b.check /\ w.toRelease = b.toRelease
<1> DEFINE w == Forsaken(b, c)
           n == [x \in Beings |-> IF b.master[x] = c THEN NoCreature
                                  ELSE b.master[x]]
           r == [x \in Beings |-> IF b.master[x] = c THEN b.references[x] - 1
                                  ELSE b.references[x]]
<1>0. /\ b \in Books
      /\ \A x \in Beings : b.references[x] \in Int /\ b.toRelease[x] \in Nat
  BY BooksAre DEF Good
<1>1. n \in [Beings -> Beings \cup {NoCreature}]
  BY <1>0, BooksAre
<1>2. r \in [Beings -> Int]
  BY <1>0
<1>3. w = [b EXCEPT !.master = n, !.references = r]
  BY <1>0 DEF Forsaken
<1>4. \A x \in Beings :
        /\ n[x] = IF b.master[x] = c THEN NoCreature ELSE b.master[x]
        /\ r[x] = IF b.master[x] = c THEN b.references[x] - 1
                  ELSE b.references[x]
  OBVIOUS
<1> HIDE DEF n, r, w
<1>5. /\ w \in Books /\ w.master = n /\ w.references = r
      /\ w.life = b.life /\ w.room = b.room /\ w.healthy = b.healthy
      /\ w.attacked = b.attacked /\ w.friends = b.friends
      /\ w.targets = b.targets /\ w.isIdle = b.isIdle
      /\ w.check = b.check /\ w.toRelease = b.toRelease
  BY Zenon, <1>0, <1>1, <1>2, <1>3 DEF Books
<1>6. Deserted(b, w, c)
  BY <1>4, <1>5 DEF Deserted
<1>7. Good(w)
  <2>1. ASSUME NEW x \in Beings
        PROVE  /\ w.references[x] = b.references[x]
                    + (Stands(w, x) - Stands(b, x))
                    + (Checks(w, x) - Checks(b, x))
                    + (Serves(w, x) - Serves(b, x))
                    + (w.toRelease[x] - b.toRelease[x])
               /\ w.life[x] \in {"unborn", "freed"} => w.references[x] = 0
    <3>1. /\ Checks(w, x) = Checks(b, x) /\ Checks(b, x) \in Int
          /\ Stands(w, x) = Stands(b, x) /\ Stands(b, x) \in Int
      BY <1>5 DEF Checks, Stands
    <3>2. b.life[x] \in {"unborn", "freed"} => b.references[x] = 0
      BY DEF Good, Counted
    <3>3. b.master[x] = c => Known(b, x)
      BY BeingsAre DEF Masters
    <3>4. CASE b.master[x] = c
      <4>1. Serves(b, x) = 1 /\ Serves(w, x) = 0
        BY <1>6, <3>4, BeingsAre DEF Serves, Deserted
      <4>2. w.references[x] = b.references[x] - 1
        BY <1>6, <3>4 DEF Deserted
      <4> QED
        BY <1>0, <1>5, <3>1, <3>3, <3>4, <4>1, <4>2 DEF Known
    <3>5. CASE b.master[x] # c
      <4>1. Serves(b, x) = Serves(w, x) /\ Serves(b, x) \in Int
        BY <1>6, <3>5 DEF Serves, Deserted
      <4>2. w.references[x] = b.references[x]
        BY <1>6, <3>5 DEF Deserted
      <4> QED
        BY <1>0, <1>5, <3>1, <3>2, <4>1, <4>2
    <3> QED
      BY <3>4, <3>5
  <2> QED
    BY <1>5, <2>1, CountedAnew
<1> QED
  BY <1>5, <1>6, <1>7 DEF w

\* A monster dies, and its summons with it.
Stricken(b, c) ==
    [b EXCEPT !.healthy = [x \in Beings |-> @[x] /\ ~(b.master[x] = c)]]

\* The summons of a monster that dies are not well.
LEMMA StrickenIs ==
  ASSUME NEW b, Good(b), NEW c
  PROVE  LET w == Stricken(b, c)
         IN  /\ Good(w)
             /\ \A x \in Beings :
                    /\ w.healthy[x] => b.healthy[x]
                    /\ b.healthy[x] /\ b.master[x] # c => w.healthy[x]
                    /\ b.master[x] = c => ~w.healthy[x]
             /\ w.life = b.life /\ w.room = b.room /\ w.master = b.master
             /\ w.attacked = b.attacked /\ w.friends = b.friends
             /\ w.targets = b.targets /\ w.isIdle = b.isIdle
             /\ w.check = b.check /\ w.toRelease = b.toRelease
             /\ w.references = b.references
<1> DEFINE w == Stricken(b, c)
           h == [x \in Beings |-> b.healthy[x] /\ ~(b.master[x] = c)]
<1>0. b \in Books
  BY DEF Good
<1>1. h \in [Beings -> BOOLEAN]
  OBVIOUS
<1>2. w = [b EXCEPT !.healthy = h]
  BY DEF Stricken
<1>3. \A x \in Beings : h[x] <=> (b.healthy[x] /\ b.master[x] # c)
  BY Zenon
<1> HIDE DEF h, w
<1>4. /\ w \in Books /\ w.healthy = h
      /\ w.life = b.life /\ w.room = b.room /\ w.master = b.master
      /\ w.attacked = b.attacked /\ w.friends = b.friends
      /\ w.targets = b.targets /\ w.isIdle = b.isIdle
      /\ w.check = b.check /\ w.toRelease = b.toRelease
      /\ w.references = b.references
  BY Zenon, <1>0, <1>1, <1>2 DEF Books
<1>5. Good(w)
  <2>1. \A x : HeldIn(w, x) = HeldIn(b, x)
    BY <1>4 DEF HeldIn, Stands, Checks, Serves
  <2> QED
    BY <1>4, <2>1 DEF Good, Counted
<1> QED
  BY <1>3, <1>4, <1>5 DEF w

\* The death of a monster, in the order of the code.
LEMMA DiedUnfolds ==
  ASSUME NEW b, Good(b), NEW c
  PROVE  Died(b, c) = ClearLists(
            Forsaken(Stricken(SetAttacked(b, c, NoCreature), c), c), c)
<1> DEFINE a == SetAttacked(b, c, NoCreature)
           t == Stricken(a, c)
<1>1. a.master = b.master /\ t.master = b.master
  BY DEF Stricken, SetAttacked
<1>2. Died(b, c) = ClearLists([a EXCEPT
            !.healthy = [x \in Beings |-> @[x] /\ ~(b.master[x] = c)],
            !.master = [x \in Beings |-> IF b.master[x] = c THEN NoCreature
                                         ELSE @[x]],
            !.references = [x \in Beings |-> IF b.master[x] = c THEN @[x] - 1
                                             ELSE @[x]]], c)
  BY DEF Died
<1> QED
  BY Zenon, <1>1, <1>2 DEF Forsaken, Stricken

\* A monster whose summons are struck lets them go.
LEMMA ForsakenIsCalm ==
  ASSUME NEW a, Calm(a, NoCreature, {}, {}, {}), Bound(a, NoCreature),
         NEW c \in Beings, NEW t, t = Stricken(a, c),
         NEW w, w = Forsaken(t, c)
  PROVE  /\ Calm(w, NoCreature, {}, {}, {}) /\ Bound(w, NoCreature)
         /\ w.life = a.life /\ \A x \in Beings : w.healthy[x] => a.healthy[x]
<1>1. Good(a) /\ Masters(a)
  BY DEF Calm
<1>2. /\ Good(t)
      /\ \A x \in Beings : /\ t.healthy[x] => a.healthy[x]
                           /\ a.master[x] = c => ~t.healthy[x]
      /\ t.life = a.life /\ t.room = a.room /\ t.master = a.master
      /\ t.attacked = a.attacked /\ t.friends = a.friends
      /\ t.targets = a.targets /\ t.isIdle = a.isIdle
      /\ t.check = a.check /\ t.toRelease = a.toRelease
  BY <1>1, StrickenIs
<1>3. Masters(t)
  BY <1>1, <1>2 DEF Masters, Known
<1>4. /\ Good(w) /\ Deserted(t, w, c)
      /\ w.life = t.life /\ w.room = t.room /\ w.healthy = t.healthy
      /\ w.attacked = t.attacked /\ w.friends = t.friends
      /\ w.targets = t.targets /\ w.isIdle = t.isIdle
      /\ w.check = t.check /\ w.toRelease = t.toRelease
  BY <1>2, <1>3, ForsakenIs
<1>5. /\ w.life = a.life /\ w.room = a.room /\ w.attacked = a.attacked
      /\ w.friends = a.friends /\ w.targets = a.targets
      /\ w.isIdle = a.isIdle /\ w.check = a.check
      /\ w.toRelease = a.toRelease
      /\ \A x \in Beings :
            /\ w.healthy[x] => a.healthy[x]
            /\ a.master[x] = c => ~w.healthy[x]
            /\ w.master[x] = IF a.master[x] = c THEN NoCreature
                             ELSE a.master[x]
  BY <1>2, <1>4 DEF Deserted
<1>6. Masters(w)
  <2> SUFFICES ASSUME NEW s \in Beings, w.master[s] # NoCreature
      PROVE  /\ s \in Monsters /\ w.master[w.master[s]] = NoCreature
             /\ Known(w, s) /\ Known(w, w.master[s])
             /\ w.life[s] = "removed" => w.life[w.master[s]] = "removed"
    BY DEF Masters
  <2>1. w.master[s] = a.master[s] /\ a.master[s] # NoCreature
    BY <1>5
  <2>2. a.master[s] \in Beings
    BY <1>1, <2>1, BooksAre DEF Good
  <2>3. /\ s \in Monsters /\ a.master[a.master[s]] = NoCreature
        /\ Known(a, s) /\ Known(a, a.master[s])
        /\ a.life[s] = "removed" => a.life[a.master[s]] = "removed"
    BY <1>1, <2>1 DEF Masters
  <2> QED
    BY <1>5, <2>1, <2>2, <2>3 DEF Known
<1>7. Released(w) /\ Blank(w) /\ InView(w, NoCreature, {})
  BY <1>5 DEF Calm, Released, Blank, InView, Sees
<1>8. \A m \in Monsters : Mind(w, m)
  BY <1>5, BeingsAre DEF Calm, Mind
<1>9. PlayersThink(w, {})
  BY <1>5, BeingsAre DEF Calm, PlayersThink
<1>10. Watch(w, {})
  <2> SUFFICES ASSUME NEW m \in Monsters, NEW p \in Humans, Wild(w, m),
                      w.life[p] = "placed", Sees(w, m, p)
      PROVE  Knows(w, m, p)
    BY DEF Watch
  <2>1. m \in Beings
    BY BeingsAre
  <2>2. a.master[m] # c /\ a.healthy[m] /\ a.master[m] = NoCreature
    BY <1>5, <2>1 DEF Wild, IsSummon
  <2>3. Wild(a, m) /\ a.life[p] = "placed" /\ Sees(a, m, p)
    BY <1>5, <2>2 DEF Wild, IsSummon, Sees
  <2>4. Knows(a, m, p)
    BY <2>3 DEF Calm, Watch
  <2> QED
    BY <1>5, <2>4 DEF Knows
<1>11. Bound(w, NoCreature)
  BY <1>5 DEF Bound
<1> QED
  BY <1>4, <1>5, <1>6, <1>7, <1>8, <1>9, <1>10, <1>11 DEF Calm

\* A monster on the map dies.
LEMMA DiedIs ==
  ASSUME NEW b, Calm(b, NoCreature, {}, {}, {}), Bound(b, NoCreature),
         NEW c \in Monsters, b.life[c] = "placed", ~b.healthy[c]
  PROVE  /\ Calm(Died(b, c), NoCreature, {}, {}, {})
         /\ Bound(Died(b, c), NoCreature)
         /\ Died(b, c).life = b.life /\ ~Died(b, c).healthy[c]
<1> DEFINE a == SetAttacked(b, c, NoCreature)
           t == Stricken(a, c)
           f == Forsaken(t, c)
           w == ClearLists(f, c)
<1>0. c \in Beings /\ Good(b) /\ Known(b, c)
  BY BeingsAre DEF Calm, Known
<1>1. Died(b, c) = w
  BY <1>0, DiedUnfolds
<1>2. Calm(a, NoCreature, {}, {}, {}) /\ Turned(b, a)
  BY <1>0, StopsAttacking
<1>3. Bound(a, NoCreature) /\ a.life = b.life /\ a.healthy = b.healthy
  BY <1>2, TurnedKeeps DEF Turned
<1> HIDE DEF a
<1>4. /\ Calm(f, NoCreature, {}, {}, {}) /\ Bound(f, NoCreature)
      /\ f.life = a.life /\ \A x \in Beings : f.healthy[x] => a.healthy[x]
  BY <1>0, <1>2, <1>3, ForsakenIsCalm
<1> HIDE DEF t, f
<1>5. Good(f) /\ Mind(f, c) /\ ~f.healthy[c] /\ f.life[c] = "placed"
  BY <1>0, <1>3, <1>4 DEF Calm
<1>6. Became(f, w, c, {}, {}, f.isIdle[c], f.check[c])
  BY <1>5, ClearListsIs
<1> HIDE DEF w
<1>7. Touched(f, w, c) /\ Good(w) /\ Alike(f, w)
  BY <1>6, TouchedIsAlike DEF Became
<1>8. w.life[c] = "placed" /\ ~w.healthy[c]
  BY <1>5, <1>7 DEF Alike
<1>9. Mind(w, c)
  BY <1>8 DEF Mind
<1>10. ~Wild(f, c)
  BY <1>5 DEF Wild
<1>11. Calm(w, NoCreature, {}, {}, {})
  BY <1>4, <1>7, <1>9, <1>10, TouchedIsCalm
<1>12. Bound(w, NoCreature)
  BY <1>4, <1>7, AlikeKeeps
<1> QED
  BY <1>1, <1>3, <1>4, <1>7, <1>8, <1>11, <1>12 DEF Alike

\* What dies is removed, without a master.
LEMMA DeathIs ==
  ASSUME NEW b, Calm(b, NoCreature, {}, {}, {}), Bound(b, NoCreature),
         NEW c \in Beings, b.life[c] = "placed", ~b.healthy[c],
         NEW dead, dead = IF c \in Monsters THEN Died(b, c) ELSE b
  PROVE  LET w == RemoveCreature(SetMaster(dead, c, NoCreature), c)
         IN  Calm(w, NoCreature, {}, {}, {}) /\ Bound(w, NoCreature)
<1> DEFINE v == SetMaster(dead, c, NoCreature)
<1>1. /\ Calm(dead, NoCreature, {}, {}, {}) /\ Bound(dead, NoCreature)
      /\ dead.life = b.life /\ ~dead.healthy[c]
  <2>1. CASE c \in Monsters
    BY <2>1, DiedIs
  <2>2. CASE c \notin Monsters
    BY <2>2
  <2> QED
    BY <2>1, <2>2
<1>2. Known(dead, c)
  BY <1>1 DEF Known
<1>3. /\ Calm(v, NoCreature, {}, {}, {}) /\ Bought(dead, v, c)
      /\ v.master[c] = NoCreature
  BY <1>1, <1>2, LosesMaster
<1> HIDE DEF v
<1>4. Bound(v, NoCreature)
  BY <1>1, <1>3 DEF Bound, Bought
<1>5. /\ Calm(RemoveCreature(v, c), NoCreature, {}, {}, {})
      /\ Bound(RemoveCreature(v, c), NoCreature)
  BY <1>3, <1>4, RemoveCreatureIs
<1> QED
  BY <1>5 DEF v

\* What nobody refers to is in no list, and nobody's.
LEMMA UnreferredIs ==
  ASSUME NEW b, Good(b), NEW c \in Beings, b.references[c] = 0
  PROVE  /\ b.life[c] # "placed" /\ b.check[c] = "none"
         /\ b.master[c] = NoCreature /\ b.toRelease[c] = 0
<1>1. b \in Books /\ HeldIn(b, c) = 0
  BY DEF Good, Counted
<1> QED
  BY <1>1, HeldIs

\* What the books say of a creature that is freed, when it has no summons.
Buried(b, e, c) ==
    [e EXCEPT !.life[c] = "freed", !.room[c] = NoCreature,
              !.healthy[c] = TRUE, !.attacked =
        [x \in Beings |-> IF b.master[x] = c \/ x = c THEN NoCreature
                          ELSE @[x]]]

\* w is e, where c is freed and attacks nobody.
Interred(e, w, c) ==
    /\ w \in Books
    /\ w.life[c] = "freed" /\ w.attacked[c] = NoCreature
    /\ w.master = e.master /\ w.friends = e.friends
    /\ w.targets = e.targets /\ w.isIdle = e.isIdle
    /\ w.check = e.check /\ w.references = e.references
    /\ w.toRelease = e.toRelease
    /\ \A x \in Beings : w.attacked[x] \in {e.attacked[x], NoCreature}
    /\ \A x \in Beings \ {c} : /\ w.life[x] = e.life[x]
                               /\ w.room[x] = e.room[x]
                               /\ w.healthy[x] = e.healthy[x]

\* The books when c is freed.
LEMMA BooksBuried ==
  ASSUME NEW b, NEW e \in Books, NEW c \in Beings
  PROVE  Interred(e, Buried(b, e, c), c)
<1> DEFINE w == Buried(b, e, c)
<1> SUFFICES Interred(e, w, c)
  OBVIOUS
<1> DEFINE l == [e.life EXCEPT ![c] = "freed"]
           r == [e.room EXCEPT ![c] = NoCreature]
           h == [e.healthy EXCEPT ![c] = TRUE]
           a == [x \in Beings |-> IF b.master[x] = c \/ x = c
                                  THEN NoCreature ELSE e.attacked[x]]
<1>1. l \in [Beings -> Lives] /\ l[c] = "freed"
      /\ \A x \in Beings \ {c} : l[x] = e.life[x]
  BY BooksAre DEF Lives
<1>2. r \in [Beings -> Rooms \cup {NoCreature}]
      /\ \A x \in Beings \ {c} : r[x] = e.room[x]
  BY BooksAre
<1>3. h \in [Beings -> BOOLEAN]
      /\ \A x \in Beings \ {c} : h[x] = e.healthy[x]
  BY BooksAre
<1>4. /\ a \in [Beings -> Beings \cup {NoCreature}]
      /\ a[c] = NoCreature
      /\ \A x \in Beings : a[x] \in {e.attacked[x], NoCreature}
  BY BooksAre
<1>5. w = [e EXCEPT !.life = l, !.room = r, !.healthy = h, !.attacked = a]
  BY DEF Buried, Books
<1> HIDE DEF l, r, h, a
<1>6. /\ w \in Books /\ w.life = l /\ w.room = r /\ w.healthy = h
      /\ w.attacked = a
      /\ w.master = e.master /\ w.friends = e.friends
      /\ w.targets = e.targets /\ w.isIdle = e.isIdle
      /\ w.check = e.check /\ w.references = e.references
      /\ w.toRelease = e.toRelease
  BY Zenon, <1>1, <1>2, <1>3, <1>4, <1>5 DEF Books
<1> QED
  BY <1>1, <1>2, <1>3, <1>4, <1>6 DEF Interred

\* The destructors, in the order of the code.
LEMMA FreedUnfolds ==
  ASSUME NEW b, Good(b), NEW c, NEW own,
         own = IF c \in Monsters THEN ClearLists(b, c) ELSE b,
         own.master = b.master, own \in Books
  PROVE  Freed(b, c) = Buried(b, Forsaken(own, c), c)
<1> DEFINE f == Forsaken(own, c)
           l == [own.life EXCEPT ![c] = "freed"]
           r == [own.room EXCEPT ![c] = NoCreature]
           h == [own.healthy EXCEPT ![c] = TRUE]
           a == [x \in Beings |-> IF own.master[x] = c \/ x = c
                                  THEN NoCreature ELSE own.attacked[x]]
           n == [x \in Beings |-> IF own.master[x] = c THEN NoCreature
                                  ELSE own.master[x]]
           k == [x \in Beings |-> IF own.master[x] = c
                                  THEN own.references[x] - 1
                                  ELSE own.references[x]]
<1>1. Freed(b, c) =
        [own EXCEPT !.life[c] = "freed", !.room[c] = NoCreature,
                    !.healthy[c] = TRUE, !.attacked =
            [x \in Beings |-> IF own.master[x] = c \/ x = c THEN NoCreature
                              ELSE @[x]],
            !.master =
                [x \in Beings |-> IF own.master[x] = c THEN NoCreature
                                  ELSE @[x]],
            !.references = [x \in Beings |-> IF own.master[x] = c
                                             THEN @[x] - 1 ELSE @[x]]]
  BY DEF Freed
<1>2. Freed(b, c) = [own EXCEPT !.life = l, !.room = r, !.healthy = h,
                                !.attacked = a, !.master = n,
                                !.references = k]
  BY Zenon, <1>1 DEF Books
<1>3. f = [own EXCEPT !.master = n, !.references = k]
  BY DEF Forsaken, Books
<1> HIDE DEF f, n, k
<1>3a. n \in [Beings -> Beings \cup {NoCreature}]
       /\ k \in [Beings -> Int]
  BY BooksAre DEF n, k
<1>4. /\ f \in Books /\ f.life = own.life /\ f.room = own.room
      /\ f.healthy = own.healthy /\ f.attacked = own.attacked
      /\ f.master = n /\ f.references = k
      /\ f.friends = own.friends /\ f.targets = own.targets
      /\ f.isIdle = own.isIdle /\ f.check = own.check
      /\ f.toRelease = own.toRelease
  BY Zenon, <1>3, <1>3a DEF Books
<1>5. Buried(b, f, c) = [f EXCEPT !.life = l, !.room = r, !.healthy = h,
                                  !.attacked = a]
  <2>1. Buried(b, f, c) =
          [f EXCEPT !.life = [f.life EXCEPT ![c] = "freed"],
                    !.room = [f.room EXCEPT ![c] = NoCreature],
                    !.healthy = [f.healthy EXCEPT ![c] = TRUE],
                    !.attacked = [x \in Beings |->
                        IF b.master[x] = c \/ x = c THEN NoCreature
                        ELSE f.attacked[x]]]
    BY Zenon, <1>4 DEF Buried, Books
  <2>2. [x \in Beings |-> IF b.master[x] = c \/ x = c THEN NoCreature
                          ELSE f.attacked[x]] = a
    BY <1>4
  <2>3. /\ [f.life EXCEPT ![c] = "freed"] = l
        /\ [f.room EXCEPT ![c] = NoCreature] = r
        /\ [f.healthy EXCEPT ![c] = TRUE] = h
    BY <1>4
  <2> HIDE DEF l, r, h, a
  <2> QED
    BY Zenon, <2>1, <2>2, <2>3
<1> HIDE DEF l, r, h, a
<1>6. Freed(b, c) = Buried(b, f, c)
  <2> DEFINE g == [life |-> l, room |-> r, healthy |-> h, attacked |-> a,
                   master |-> n, references |-> k,
                   friends |-> own.friends, targets |-> own.targets,
                   isIdle |-> own.isIdle, check |-> own.check,
                   toRelease |-> own.toRelease]
  <2>1. Freed(b, c) = g
    BY Zenon, <1>2 DEF Books
  <2>2. Buried(b, f, c) =
          [life |-> l, room |-> r, healthy |-> h, attacked |-> a,
           master |-> f.master, references |-> f.references,
           friends |-> f.friends, targets |-> f.targets,
           isIdle |-> f.isIdle, check |-> f.check,
           toRelease |-> f.toRelease]
    <3>1. f \in Books
      BY <1>4
    <3> QED
      BY Zenon, <1>5, <3>1 DEF Books
  <2>3. Buried(b, f, c) = g
    BY <1>4, <2>2
  <2> QED
    BY <2>1, <2>3
<1> QED
  BY <1>6 DEF f

\* c is freed, and the others lose what bound them to it.
Frees(b, w, c) ==
    /\ w.life[c] = "freed"
    /\ \A x \in Beings \ {c} : w.life[x] = b.life[x]

\* What was removed and nobody refers to is freed.
LEMMA FreedIs ==
  ASSUME NEW b, Calm(b, NoCreature, {}, {}, {}), Bound(b, NoCreature),
         NEW c \in Beings, b.life[c] = "removed", b.references[c] = 0
  PROVE  /\ Calm(Freed(b, c), NoCreature, {}, {}, {})
         /\ Bound(Freed(b, c), NoCreature) /\ Frees(b, Freed(b, c), c)
<1> DEFINE o == IF c \in Monsters THEN ClearLists(b, c) ELSE b
           f == Forsaken(o, c)
           w == Buried(b, f, c)
<1>0. Good(b) /\ Masters(b) /\ b \in Books
  BY DEF Calm, Good
<1>1. /\ Good(o) /\ o.life = b.life /\ o.room = b.room
      /\ o.healthy = b.healthy /\ o.master = b.master
      /\ o.attacked = b.attacked /\ o.toRelease = b.toRelease
      /\ \A m \in Monsters \ {c} : /\ o.friends[m] = b.friends[m]
                                   /\ o.targets[m] = b.targets[m]
                                   /\ o.isIdle[m] = b.isIdle[m]
      /\ \A x \in Beings : o.check[x] = b.check[x]
      /\ c \in Monsters => o.friends[c] = {} /\ o.targets[c] = {}
  <2>1. CASE c \in Monsters
    <3>1. Became(b, ClearLists(b, c), c, {}, {}, b.isIdle[c], b.check[c])
      BY <1>0, <2>1, ClearListsIs
    <3> QED
      BY <2>1, <3>1 DEF Became, Touched
  <2>2. CASE c \notin Monsters
    BY <1>0, <2>2
  <2> QED
    BY <2>1, <2>2
<1>2. Freed(b, c) = w
  BY <1>0, <1>1, FreedUnfolds DEF Good
<1> HIDE DEF o
<1>3. Masters(o)
  BY <1>0, <1>1 DEF Masters, Known
<1>4. /\ Good(f) /\ Deserted(o, f, c)
      /\ f.life = o.life /\ f.room = o.room /\ f.healthy = o.healthy
      /\ f.attacked = o.attacked /\ f.friends = o.friends
      /\ f.targets = o.targets /\ f.isIdle = o.isIdle
      /\ f.check = o.check /\ f.toRelease = o.toRelease
  BY <1>1, <1>3, ForsakenIs
<1>5. \A x \in Beings : f.master[x] = IF b.master[x] = c THEN NoCreature
                                      ELSE b.master[x]
  BY <1>1, <1>4 DEF Deserted
<1>6. f \in Books
  BY <1>4 DEF Good
<1>6a. w = Buried(b, f, c)
  OBVIOUS
<1> HIDE DEF f, w
<1>7a. Interred(f, w, c)
  BY <1>6, <1>6a, BooksBuried
<1>7. /\ w \in Books
      /\ w.life[c] = "freed" /\ w.attacked[c] = NoCreature
      /\ w.master = f.master /\ w.friends = f.friends
      /\ w.targets = f.targets /\ w.isIdle = f.isIdle
      /\ w.check = f.check /\ w.references = f.references
      /\ w.toRelease = f.toRelease
      /\ \A x \in Beings : w.attacked[x] \in {f.attacked[x], NoCreature}
      /\ \A x \in Beings \ {c} : /\ w.life[x] = f.life[x]
                                 /\ w.room[x] = f.room[x]
                                 /\ w.healthy[x] = f.healthy[x]
  BY <1>7a DEF Interred
<1>8. /\ b.check[c] = "none" /\ b.master[c] = NoCreature
      /\ b.toRelease[c] = 0
  BY <1>0, UnreferredIs
<1>9. /\ \A x \in Beings \ {c} :
            /\ w.life[x] = b.life[x] /\ w.room[x] = b.room[x]
            /\ w.healthy[x] = b.healthy[x]
      /\ \A x \in Beings :
            /\ w.attacked[x] \in {b.attacked[x], NoCreature}
            /\ w.master[x] = IF b.master[x] = c THEN NoCreature
                             ELSE b.master[x]
            /\ w.check[x] = b.check[x]
      /\ w.toRelease = b.toRelease
      /\ \A m \in Monsters \ {c} : /\ w.friends[m] = b.friends[m]
                                   /\ w.targets[m] = b.targets[m]
                                   /\ w.isIdle[m] = b.isIdle[m]
      /\ c \in Monsters => w.friends[c] = {} /\ w.targets[c] = {}
  BY <1>1, <1>4, <1>5, <1>7
<1>10. Good(w)
  <2>1. ASSUME NEW x \in Beings
        PROVE  /\ w.references[x] = f.references[x]
                    + (Stands(w, x) - Stands(f, x))
                    + (Checks(w, x) - Checks(f, x))
                    + (Serves(w, x) - Serves(f, x))
                    + (w.toRelease[x] - f.toRelease[x])
               /\ w.life[x] \in {"unborn", "freed"} => w.references[x] = 0
    <3>1. /\ f.references[x] \in Int /\ f.toRelease[x] \in Nat
          /\ f.references[x] = HeldIn(f, x)
      BY <1>4, <1>6, BooksAre DEF Good, Counted
    <3>2. /\ Checks(w, x) = Checks(f, x) /\ Checks(f, x) \in Int
          /\ Serves(w, x) = Serves(f, x) /\ Serves(f, x) \in Int
          /\ w.toRelease[x] = f.toRelease[x]
          /\ w.references[x] = f.references[x]
      BY <1>7 DEF Checks, Serves
    <3>3. Stands(w, x) = Stands(f, x) /\ Stands(f, x) \in Int
      <4>1. f.life[c] = "removed"
        BY <1>1, <1>4
      <4> QED
        BY <1>7, <4>1 DEF Stands
    <3>4. w.life[x] \in {"unborn", "freed"} => w.references[x] = 0
      <4>1. CASE x # c
        BY <1>4, <1>7, <4>1 DEF Good, Counted
      <4>2. CASE x = c
        <5>1. /\ f.life[c] # "placed" /\ f.check[c] = "none"
              /\ f.master[c] = NoCreature /\ f.toRelease[c] = 0
          BY <1>1, <1>4, <1>5, <1>8
        <5>2. \A m \in Monsters : /\ c \notin b.friends[m]
                                  /\ c \notin b.targets[m]
          <6>1. HeldIn(b, c) = 0
            BY <1>0 DEF Good, Counted
          <6> QED
            BY <1>0, <6>1, HeldIs
        <5>3. \A m \in Monsters : /\ c \notin f.friends[m]
                                  /\ c \notin f.targets[m]
          BY <1>1, <1>4, <5>2
        <5>4. HeldIn(f, c) = 0
          BY <1>6, <5>1, <5>3, HeldIs
        <5> QED
          BY <3>1, <3>2, <4>2, <5>4
      <4> QED
        BY <4>1, <4>2
    <3> QED
      BY <3>1, <3>2, <3>3, <3>4
  <2>2. w.friends = f.friends /\ w.targets = f.targets
    BY <1>7
  <2> QED
    BY <1>4, <1>7, <2>1, <2>2, CountedAnew
<1>11. Masters(w)
  <2> SUFFICES ASSUME NEW s \in Beings, w.master[s] # NoCreature
      PROVE  /\ s \in Monsters /\ w.master[w.master[s]] = NoCreature
             /\ Known(w, s) /\ Known(w, w.master[s])
             /\ w.life[s] = "removed" => w.life[w.master[s]] = "removed"
    BY DEF Masters
  <2>1. w.master[s] = b.master[s] /\ b.master[s] # NoCreature
        /\ b.master[s] # c
    BY <1>9
  <2>2. b.master[s] \in Beings /\ s # c
    BY <1>0, <1>8, <2>1, BooksAre
  <2>3. /\ s \in Monsters /\ b.master[b.master[s]] = NoCreature
        /\ Known(b, s) /\ Known(b, b.master[s])
        /\ b.life[s] = "removed" => b.life[b.master[s]] = "removed"
    BY <1>0, <2>1 DEF Masters
  <2> QED
    BY <1>9, <2>1, <2>2, <2>3 DEF Known
<1>12. Released(w)
  BY <1>8, <1>9 DEF Calm, Released
<1>13. Blank(w)
  BY <1>7, <1>9 DEF Calm, Blank
<1>14. \A m \in Monsters : Mind(w, m)
  <2> SUFFICES ASSUME NEW m \in Monsters PROVE Mind(w, m)
    OBVIOUS
  <2>1. Mind(b, m) /\ m \in Beings
    BY BeingsAre DEF Calm
  <2>2. CASE m = c
    BY <1>7, <1>8, <1>9, <2>2 DEF Mind
  <2>3. CASE m # c
    BY <1>9, <2>1, <2>3 DEF Mind
  <2> QED
    BY <2>2, <2>3
<1>15. PlayersThink(w, {})
  <2> SUFFICES ASSUME NEW p \in Humans
      PROVE  /\ w.life[p] = "placed" /\ w.healthy[p] /\ p \notin {}
                    => w.check[p] = "thinks"
             /\ w.life[p] \in {"removed", "freed"} => w.check[p] # "thinks"
    BY DEF PlayersThink
  <2>1. p \in Beings
    BY BeingsAre
  <2>2. CASE p = c
    BY <1>7, <1>8, <1>9, <2>1, <2>2
  <2>3. CASE p # c
    BY <1>9, <2>1, <2>3 DEF Calm, PlayersThink
  <2> QED
    BY <2>2, <2>3
<1>16. InView(w, NoCreature, {})
  <2> SUFFICES ASSUME NEW y \in Beings, w.life[y] = "placed",
                      w.attacked[y] # NoCreature
      PROVE  w.life[w.attacked[y]] = "placed" /\ Sees(w, y, w.attacked[y])
    BY DEF InView
  <2>1. y # c /\ w.attacked[y] = b.attacked[y] /\ b.life[y] = "placed"
    BY <1>7, <1>9
  <2>2. b.life[b.attacked[y]] = "placed" /\ Sees(b, y, b.attacked[y])
    BY <2>1 DEF Calm, InView
  <2>3. b.attacked[y] \in Beings /\ b.attacked[y] # c
    BY <1>0, <2>1, <2>2, BooksAre
  <2> QED
    BY <1>9, <2>1, <2>2, <2>3 DEF Sees
<1>17. Watch(w, {})
  <2> SUFFICES ASSUME NEW m \in Monsters, NEW p \in Humans, Wild(w, m),
                      w.life[p] = "placed", Sees(w, m, p)
      PROVE  Knows(w, m, p)
    BY DEF Watch
  <2>1. m \in Beings /\ p \in Beings /\ m # c /\ p # c
    BY <1>7, BeingsAre DEF Wild
  <2>2. b.master[m] # c
    <3> SUFFICES ASSUME b.master[m] = c PROVE FALSE
      OBVIOUS
    <3>1. b.life[m] = "placed" /\ c # NoCreature
      BY <1>9, <2>1, BeingsAre DEF Wild
    <3> QED
      BY <2>1, <3>1 DEF Bound
  <2>3. Wild(b, m) /\ b.life[p] = "placed" /\ Sees(b, m, p)
    BY <1>9, <2>1, <2>2 DEF Wild, IsSummon, Sees
  <2>4. Knows(b, m, p)
    BY <2>3 DEF Calm, Watch
  <2> QED
    BY <1>9, <2>1, <2>4 DEF Knows
<1>18. Bound(w, NoCreature)
  <2> SUFFICES ASSUME NEW s \in Beings, w.life[s] = "placed",
                      w.master[s] # NoCreature
      PROVE  w.life[w.master[s]] = "placed"
    BY DEF Bound
  <2>1. s # c /\ b.life[s] = "placed" /\ w.master[s] = b.master[s]
    BY <1>7, <1>9
  <2>2. b.life[b.master[s]] = "placed"
    BY <2>1 DEF Bound
  <2>3. b.master[s] \in Beings /\ b.master[s] # c
    BY <1>0, <2>1, <2>2, BooksAre
  <2> QED
    BY <1>9, <2>1, <2>2, <2>3
<1>19. Frees(b, w, c)
  BY <1>7, <1>9 DEF Frees
<1> QED
  BY <1>2, <1>10, <1>11, <1>12, <1>13, <1>14, <1>15, <1>16, <1>17, <1>18,
     <1>19 DEF Calm

(* What nobody refers to is freed, again and again. *)
Unreferred(b, c) == b.life[c] = "removed" /\ b.references[c] = 0

Remain(b) == {c \in Beings : b.life[c] = "removed"}

OneFrees(w, c) == IF Unreferred(w, c) THEN Freed(w, c) ELSE w

FreeAllOnce(g, s, b) ==
    IF s = {} THEN b
    ELSE OneFrees(g[s \ {Latest(s)}], Order[Latest(s)])

FreeAll(b) ==
    (CHOOSE g : g = [s \in SUBSET DOMAIN Order |->
                        FreeAllOnce(g, s, b)])[DOMAIN Order]

FreeAllBy(h, D, b) ==
    /\ h \in [0 .. Len(Order) -> D]
    /\ h[0] = b /\ FreeAll(b) = h[Len(Order)]
    /\ \A i \in 1 .. Len(Order) : h[i] = OneFrees(h[i - 1], Order[i])

\* One after the other is freed.
LEMMA FreeAllSteps ==
  ASSUME NEW b, NEW D, b \in D,
         \A w \in D : \A c \in Beings : OneFrees(w, c) \in D
  PROVE  \E h : FreeAllBy(h, D, b)
<1> DEFINE n == Len(Order)
           S == 1 .. n
           op == [a \in S \X D |-> OneFrees(a[2], Order[a[1]])]
           f == CHOOSE g : g = [s \in SUBSET S |-> FreeAllOnce(g, s, b)]
<1>1. n \in Nat /\ S = DOMAIN Order /\ \A i \in S : Order[i] \in Beings
  BY OrderIs
<1>2. FreeAll(b) = f[S]
  BY Zenon, <1>1 DEF FreeAll
<1>3. op \in [S \X D -> D] /\ \A i \in S : \A w \in D :
            op[<<i, w>>] = OneFrees(w, Order[i])
  BY <1>1
<1>3a. S = 1 .. n
  OBVIOUS
<1> HIDE DEF op, n, S
<1>4. PICK k \in [SUBSET S -> D] : FoldedFromLeft(k, S, b, op)
  BY Zenon, <1>1, <1>3, <1>3a, LeftExists
<1>5. k = [s \in SUBSET S |-> FreeAllOnce(k, s, b)]
  <2> SUFFICES ASSUME NEW s \in SUBSET S
               PROVE  k[s] = FreeAllOnce(k, s, b)
    OBVIOUS
  <2>1. CASE s = {}
    BY Zenon, <1>4, <2>1 DEF FoldedFromLeft, FromLeft, FreeAllOnce
  <2>2. CASE s # {}
    <3>1. Latest(s) \in S /\ s \ {Latest(s)} \in SUBSET S
      BY Zenon, <1>1, <1>3a, <2>2, LatestIs
    <3>2. k[s \ {Latest(s)}] \in D
      BY <3>1
    <3>3. k[s] = op[<<Latest(s), k[s \ {Latest(s)}]>>]
      BY <1>4, <2>2 DEF FoldedFromLeft, FromLeft
    <3> QED
      BY <1>3, <2>2, <3>1, <3>2, <3>3 DEF FreeAllOnce
  <2> QED
    BY <2>1, <2>2
<1>6. f = [s \in SUBSET S |-> FreeAllOnce(f, s, b)]
  BY <1>5
<1> HIDE DEF f
<1>7. f[{}] = b
  <2>1. f[{}] = FreeAllOnce(f, {}, b)
    BY <1>6
  <2> QED
    BY <2>1 DEF FreeAllOnce
<1>8. ASSUME NEW s \in SUBSET S, s # {}, f[s \ {Latest(s)}] \in D
      PROVE  f[s] = op[<<Latest(s), f[s \ {Latest(s)}]>>]
  <2>1. Latest(s) \in S
    BY Zenon, <1>1, <1>3a, <1>8, LatestIs
  <2>2. f[s] = FreeAllOnce(f, s, b)
    BY <1>6
  <2> QED
    BY Zenon, <1>3, <1>8, <2>1, <2>2 DEF FreeAllOnce
<1>9. PICK h \in [0 .. n -> D] : StepByStep(h, n, b, op) /\ f[S] = h[n]
  <2>1. op \in [S \X D -> D] /\ n \in Nat /\ b \in D
    BY <1>1, <1>3
  <2>2. GoesFromLeft(f, S, D, b, op)
    BY Zenon, <1>7, <1>8 DEF GoesFromLeft
  <2>3. HasSteps(n, D, b, op, f[S])
    BY Zenon, <1>3a, <2>1, <2>2, LeftSteps
  <2> QED
    BY Zenon, <2>3 DEF HasSteps
<1>10. ASSUME NEW i \in 1 .. n
       PROVE  h[i] = OneFrees(h[i - 1], Order[i])
  <2>1. i \in S /\ i - 1 \in 0 .. n
    BY <1>1, <1>3a
  <2>2. h[i - 1] \in D
    BY <2>1
  <2> QED
    BY Zenon, <1>3, <1>9, <2>1, <2>2 DEF StepByStep
<1> QED
  BY <1>2, <1>9, <1>10 DEF StepByStep, FreeAllBy, n

FreeAgainOnce(g, s, b) ==
    IF s = {} THEN b
    ELSE FreeAll(g[s \ {Latest(s)}])

FreeAgain(b) ==
    (CHOOSE g : g = [s \in SUBSET DOMAIN Order |->
                        FreeAgainOnce(g, s, b)])[DOMAIN Order]

FreeAgainBy(h, D, b) ==
    /\ h \in [0 .. Len(Order) -> D]
    /\ h[0] = b /\ FreeAgain(b) = h[Len(Order)]
    /\ \A i \in 1 .. Len(Order) : h[i] = FreeAll(h[i - 1])

\* And again.
LEMMA FreeAgainSteps ==
  ASSUME NEW b, NEW D, b \in D,
         \A w \in D : \A y \in Beings : FreeAll(w) \in D
  PROVE  \E h : FreeAgainBy(h, D, b)
<1> DEFINE n == Len(Order)
           S == 1 .. n
           op == [a \in S \X D |-> FreeAll(a[2])]
           f == CHOOSE g : g = [s \in SUBSET S |-> FreeAgainOnce(g, s, b)]
<1>1. n \in Nat /\ S = DOMAIN Order /\ \A i \in S : Order[i] \in Beings
  BY OrderIs
<1>2. FreeAgain(b) = f[S]
  BY Zenon, <1>1 DEF FreeAgain
<1>3. op \in [S \X D -> D] /\ \A i \in S : \A w \in D :
            op[<<i, w>>] = FreeAll(w)
  BY <1>1
<1>3a. S = 1 .. n
  OBVIOUS
<1> HIDE DEF op, n, S
<1>4. PICK k \in [SUBSET S -> D] : FoldedFromLeft(k, S, b, op)
  BY Zenon, <1>1, <1>3, <1>3a, LeftExists
<1>5. k = [s \in SUBSET S |-> FreeAgainOnce(k, s, b)]
  <2> SUFFICES ASSUME NEW s \in SUBSET S
               PROVE  k[s] = FreeAgainOnce(k, s, b)
    OBVIOUS
  <2>1. CASE s = {}
    BY Zenon, <1>4, <2>1 DEF FoldedFromLeft, FromLeft, FreeAgainOnce
  <2>2. CASE s # {}
    <3>1. Latest(s) \in S /\ s \ {Latest(s)} \in SUBSET S
      BY Zenon, <1>1, <1>3a, <2>2, LatestIs
    <3>2. k[s \ {Latest(s)}] \in D
      BY <3>1
    <3>3. k[s] = op[<<Latest(s), k[s \ {Latest(s)}]>>]
      BY <1>4, <2>2 DEF FoldedFromLeft, FromLeft
    <3> QED
      BY <1>3, <2>2, <3>1, <3>2, <3>3 DEF FreeAgainOnce
  <2> QED
    BY <2>1, <2>2
<1>6. f = [s \in SUBSET S |-> FreeAgainOnce(f, s, b)]
  BY <1>5
<1> HIDE DEF f
<1>7. f[{}] = b
  <2>1. f[{}] = FreeAgainOnce(f, {}, b)
    BY <1>6
  <2> QED
    BY <2>1 DEF FreeAgainOnce
<1>8. ASSUME NEW s \in SUBSET S, s # {}, f[s \ {Latest(s)}] \in D
      PROVE  f[s] = op[<<Latest(s), f[s \ {Latest(s)}]>>]
  <2>1. Latest(s) \in S
    BY Zenon, <1>1, <1>3a, <1>8, LatestIs
  <2>2. f[s] = FreeAgainOnce(f, s, b)
    BY <1>6
  <2> QED
    BY Zenon, <1>3, <1>8, <2>1, <2>2 DEF FreeAgainOnce
<1>9. PICK h \in [0 .. n -> D] : StepByStep(h, n, b, op) /\ f[S] = h[n]
  <2>1. op \in [S \X D -> D] /\ n \in Nat /\ b \in D
    BY <1>1, <1>3
  <2>2. GoesFromLeft(f, S, D, b, op)
    BY Zenon, <1>7, <1>8 DEF GoesFromLeft
  <2>3. HasSteps(n, D, b, op, f[S])
    BY Zenon, <1>3a, <2>1, <2>2, LeftSteps
  <2> QED
    BY Zenon, <2>3 DEF HasSteps
<1>10. ASSUME NEW i \in 1 .. n
       PROVE  h[i] = FreeAll(h[i - 1])
  <2>1. i \in S /\ i - 1 \in 0 .. n
    BY <1>1, <1>3a
  <2>2. h[i - 1] \in D
    BY <2>1
  <2> QED
    BY Zenon, <1>3, <1>9, <2>1, <2>2 DEF StepByStep
<1> QED
  BY <1>2, <1>9, <1>10 DEF StepByStep, FreeAgainBy, n

\* Settled, one by one.
LEMMA SettledUnfolds ==
  ASSUME NEW b
  PROVE  Settled(b) = IF \E c \in Beings : Unreferred(b, c)
                      THEN FreeAgain(b) ELSE b
BY DEF Settled, FreeAgain, FreeAll, FoldLeft, MapThenFoldSet, FreeAgainOnce,
       FreeAllOnce, OneFrees, Unreferred, Latest, Max

\* v is b, where some of those that remained were freed.
Lessened(b, v) ==
    /\ Calm(v, NoCreature, {}, {}, {}) /\ Bound(v, NoCreature)
    /\ Remain(v) \subseteq Remain(b)
    /\ (\A c \in Beings : ~Unreferred(b, c)) => v = b

\* One is freed, or refers to nobody.
LEMMA OneFreesIs ==
  ASSUME NEW b, NEW v, Lessened(b, v), NEW c \in Beings
  PROVE  /\ Lessened(b, OneFrees(v, c))
         /\ \/ OneFrees(v, c) = v /\ ~Unreferred(v, c)
            \/ Remain(OneFrees(v, c)) # Remain(b)
<1>0. /\ Calm(v, NoCreature, {}, {}, {}) /\ Bound(v, NoCreature)
      /\ Remain(v) \subseteq Remain(b)
  BY DEF Lessened
<1>1. CASE ~Unreferred(v, c)
  BY <1>1 DEF OneFrees
<1>2. CASE Unreferred(v, c)
  <2> DEFINE w == Freed(v, c)
  <2>1. v.life[c] = "removed" /\ v.references[c] = 0
    BY <1>2 DEF Unreferred
  <2>2. /\ Calm(w, NoCreature, {}, {}, {}) /\ Bound(w, NoCreature)
        /\ Frees(v, w, c)
    BY <1>0, <2>1, FreedIs
  <2>3. OneFrees(v, c) = w
    BY <1>2 DEF OneFrees
  <2> HIDE DEF w
  <2>4. c \in Remain(v) /\ c \notin Remain(w) /\ Remain(w) \subseteq Remain(v)
    BY <2>1, <2>2 DEF Remain, Frees
  <2>5. \E y \in Beings : Unreferred(b, y)
    BY <1>2 DEF Lessened
  <2> QED
    BY <1>0, <2>2, <2>3, <2>4, <2>5 DEF Lessened
<1> QED
  BY <1>1, <1>2

\* Nobody is left, or fewer remain.
LEMMA FreeAllIs ==
  ASSUME NEW b, Calm(b, NoCreature, {}, {}, {}), Bound(b, NoCreature)
  PROVE  /\ Lessened(b, FreeAll(b))
         /\ \/ \A c \in Beings : ~Unreferred(b, c)
            \/ Remain(FreeAll(b)) # Remain(b)
<1> DEFINE n == Len(Order)
           T(i) == {v \in Books :
                        /\ Lessened(b, v)
                        /\ \/ /\ v = b
                              /\ \A j \in 1 .. i :
                                    ~Unreferred(b, Order[j])
                           \/ Remain(v) # Remain(b)}
           E == [i \in 0 .. n |-> T(i)]
           G == {v \in Books : Lessened(b, v)}
<1>1. b \in Books /\ Lessened(b, b)
  BY DEF Calm, Good, Lessened
<1>2. /\ b \in G
      /\ \A w \in G : \A c \in Beings : OneFrees(w, c) \in G
  <2>1. ASSUME NEW w \in G, NEW c \in Beings PROVE OneFrees(w, c) \in G
    <3>1. Lessened(b, OneFrees(w, c))
      BY <2>1, OneFreesIs
    <3> QED
      BY <3>1 DEF Lessened, Calm, Good
  <2> QED
    BY <1>1, <2>1
<1> HIDE DEF G
<1>3. PICK h : FreeAllBy(h, G, b)
  BY <1>2, FreeAllSteps
<1>4. n \in Nat /\ \A i \in 1 .. n : Order[i] \in Beings
  BY OrderIs
<1>5. h[0] \in E[0]
  BY <1>1, <1>3, <1>4 DEF FreeAllBy
<1>6. ASSUME NEW i \in 1 .. n, h[i - 1] \in E[i - 1] PROVE h[i] \in E[i]
  <2> DEFINE x == Order[i]
             v == h[i - 1]
             w == OneFrees(v, x)
  <2>1. x \in Beings /\ h[i] = w /\ i - 1 \in 0 .. n /\ i \in 0 .. n
    BY <1>3, <1>4 DEF FreeAllBy
  <2>2. v \in T(i - 1)
    BY <1>6, <2>1
  <2>3. /\ Lessened(b, v)
        /\ \/ v = b /\ \A j \in 1 .. (i - 1) : ~Unreferred(b, Order[j])
           \/ Remain(v) # Remain(b)
    BY <2>2
  <2> HIDE DEF v
  <2>4. /\ Lessened(b, w)
        /\ \/ w = v /\ ~Unreferred(v, x)
           \/ Remain(w) # Remain(b)
    BY <2>1, <2>3, OneFreesIs
  <2> HIDE DEF w
  <2>5. w \in Books
    BY <2>4 DEF Lessened, Calm, Good
  <2>6. \/ w = b /\ \A j \in 1 .. i : ~Unreferred(b, Order[j])
        \/ Remain(w) # Remain(b)
    <3>1. CASE Remain(w) # Remain(b)
      BY <3>1
    <3>2. CASE Remain(w) = Remain(b)
      <4>1. w = v /\ ~Unreferred(v, x)
        BY <2>4, <3>2
      <4>2. v = b /\ \A j \in 1 .. (i - 1) : ~Unreferred(b, Order[j])
        BY <2>3, <3>2, <4>1
      <4>3. \A j \in 1 .. i : j = i \/ j \in 1 .. (i - 1)
        BY <1>4
      <4> QED
        BY <4>1, <4>2, <4>3
    <3> QED
      BY <3>1, <3>2
  <2>7. w \in T(i)
    BY <2>4, <2>5, <2>6
  <2> QED
    BY <2>1, <2>7
<1> HIDE DEF E
<1>7. h[n] \in E[n]
  BY <1>4, <1>5, <1>6, StepsFit
<1>8. FreeAll(b) \in T(n)
  BY <1>3, <1>4, <1>7 DEF FreeAllBy, E
<1>9. \A c \in Beings : \E i \in 1 .. n : Order[i] = c
  BY OrderIs
<1> QED
  BY <1>8, <1>9

\* How many remain.
LEMMA RemainIs ==
  ASSUME NEW b, NEW w, Remain(w) \subseteq Remain(b)
  PROVE  /\ IsFiniteSet(Remain(b)) /\ Cardinality(Remain(b)) \in Nat
         /\ Cardinality(Remain(b)) <= Cardinality(Beings)
         /\ Cardinality(Remain(w)) \in Nat
         /\ Cardinality(Remain(w)) <= Cardinality(Remain(b))
         /\ Remain(w) # Remain(b)
                => Cardinality(Remain(w)) < Cardinality(Remain(b))
         /\ Cardinality(Remain(b)) = 0 => Remain(b) = {}
<1>1. IsFiniteSet(Beings) /\ Remain(b) \subseteq Beings
  BY BeingsAre DEF Remain
<1>2. /\ IsFiniteSet(Remain(b))
      /\ Cardinality(Remain(b)) <= Cardinality(Beings)
  BY <1>1, FS_Subset
<1>3. /\ IsFiniteSet(Remain(w))
      /\ Cardinality(Remain(w)) <= Cardinality(Remain(b))
      /\ Cardinality(Remain(w)) = Cardinality(Remain(b))
            => Remain(w) = Remain(b)
  BY <1>2, FS_Subset
<1>4. Cardinality(Remain(b)) \in Nat /\ Cardinality(Remain(w)) \in Nat
  BY <1>2, <1>3, FS_CardinalityType
<1>5. Cardinality(Remain(b)) = 0 => Remain(b) = {}
  BY <1>2, FS_EmptySet
<1> QED
  BY <1>2, <1>3, <1>4, <1>5

\* Nothing unreferred is left.
LEMMA FreeAgainIs ==
  ASSUME NEW b, Calm(b, NoCreature, {}, {}, {}), Bound(b, NoCreature)
  PROVE  /\ Calm(FreeAgain(b), NoCreature, {}, {}, {})
         /\ Bound(FreeAgain(b), NoCreature)
         /\ \A c \in Beings : ~Unreferred(FreeAgain(b), c)
<1> DEFINE n == Len(Order)
           D == {v \in Books : /\ Calm(v, NoCreature, {}, {}, {})
                               /\ Bound(v, NoCreature)}
           T(i) == {v \in D : \/ \A c \in Beings : ~Unreferred(v, c)
                              \/ Cardinality(Remain(v)) <= n - i}
           E == [i \in 0 .. n |-> T(i)]
<1>1. b \in D
  BY DEF Calm, Good
<1>2. \A w \in D : \A y \in Beings : FreeAll(w) \in D
  BY FreeAllIs DEF Lessened, Calm, Good
<1>3. PICK h : FreeAgainBy(h, D, b)
  <2> HIDE DEF D
  <2> QED
    BY <1>1, <1>2, FreeAgainSteps
<1>4. n \in Nat /\ n = Cardinality(Beings)
  BY OrderIs
<1>5. h[0] \in E[0]
  <2>1. Cardinality(Remain(b)) \in Nat /\ Cardinality(Remain(b)) <= n
    BY <1>4, RemainIs
  <2> HIDE DEF D
  <2>2. h[0] = b
    BY <1>3 DEF FreeAgainBy
  <2>3. b \in T(0)
    BY <1>1, <1>4, <2>1
  <2> QED
    BY <1>4, <2>2, <2>3
<1>6. ASSUME NEW i \in 1 .. n, h[i - 1] \in E[i - 1] PROVE h[i] \in E[i]
  <2> DEFINE v == h[i - 1]
             w == FreeAll(v)
  <2>1. h[i] = w /\ i - 1 \in 0 .. n /\ i \in 0 .. n
    BY <1>3, <1>4 DEF FreeAgainBy
  <2>2. v \in T(i - 1)
    BY <1>6, <2>1
  <2> HIDE DEF v
  <2>3. /\ Calm(v, NoCreature, {}, {}, {}) /\ Bound(v, NoCreature)
        /\ \/ \A c \in Beings : ~Unreferred(v, c)
           \/ Cardinality(Remain(v)) <= n - (i - 1)
    BY <2>2
  <2>4. /\ Lessened(v, w)
        /\ \/ \A c \in Beings : ~Unreferred(v, c)
           \/ Remain(w) # Remain(v)
    BY <2>3, FreeAllIs
  <2> HIDE DEF w
  <2>5. w \in D
    BY <2>4 DEF Lessened, Calm, Good
  <2>6. \/ \A c \in Beings : ~Unreferred(w, c)
        \/ Cardinality(Remain(w)) <= n - i
    <3>1. CASE \A c \in Beings : ~Unreferred(v, c)
      BY <2>4, <3>1 DEF Lessened
    <3>2. CASE ~(\A c \in Beings : ~Unreferred(v, c))
      <4>1. Cardinality(Remain(v)) <= n - (i - 1) /\ Remain(w) # Remain(v)
        BY <2>3, <2>4, <3>2
      <4>2. Remain(w) \subseteq Remain(v)
        BY <2>4 DEF Lessened
      <4>3. /\ Cardinality(Remain(w)) \in Nat
            /\ Cardinality(Remain(v)) \in Nat
            /\ Cardinality(Remain(w)) < Cardinality(Remain(v))
        BY <4>1, <4>2, RemainIs
      <4> QED
        BY <1>4, <4>1, <4>3
    <3> QED
      BY <3>1, <3>2
  <2> HIDE DEF D
  <2>7. w \in T(i)
    BY <2>5, <2>6
  <2> QED
    BY <2>1, <2>7
<1> HIDE DEF E
<1>7. h[n] \in E[n]
  BY <1>4, <1>5, <1>6, StepsFit
<1>8. FreeAgain(b) \in T(n)
  BY <1>3, <1>4, <1>7 DEF FreeAgainBy, E
<1> DEFINE v == FreeAgain(b)
<1> HIDE DEF v
<1>9. /\ Calm(v, NoCreature, {}, {}, {}) /\ Bound(v, NoCreature)
      /\ \/ \A c \in Beings : ~Unreferred(v, c)
         \/ Cardinality(Remain(v)) <= n - n
  BY <1>8 DEF v
<1>10. CASE Cardinality(Remain(v)) <= n - n
  <2>1. Cardinality(Remain(v)) = 0 /\ Remain(v) = {}
    BY <1>4, <1>10, RemainIs
  <2> QED
    BY <1>9, <2>1 DEF Remain, Unreferred, v
<1> QED
  BY <1>9, <1>10 DEF v

\* All is settled.
LEMMA SettledIs ==
  ASSUME NEW b, Calm(b, NoCreature, {}, {}, {}), Bound(b, NoCreature)
  PROVE  /\ Calm(Settled(b), NoCreature, {}, {}, {})
         /\ Bound(Settled(b), NoCreature)
         /\ \A c \in Beings : ~Unreferred(Settled(b), c)
<1>1. CASE \E c \in Beings : Unreferred(b, c)
  BY <1>1, FreeAgainIs, SettledUnfolds
<1>2. CASE ~(\E c \in Beings : Unreferred(b, c))
  <2>1. Settled(b) = b
    BY <1>2, SettledUnfolds
  <2> QED
    BY <1>2, <2>1
<1> QED
  BY <1>1, <1>2

\* d is b, but for those that left their check list and what is to release.
Slack(b, d) ==
    /\ Good(d)
    /\ d.life = b.life /\ d.room = b.room /\ d.healthy = b.healthy
    /\ d.master = b.master /\ d.attacked = b.attacked
    /\ d.friends = b.friends /\ d.targets = b.targets
    /\ d.isIdle = b.isIdle
    /\ \A x \in Beings : d.check[x] = b.check[x]
                            \/ (b.check[x] = "leaves" /\ d.check[x] = "none")

\* What is to release is released.
LEMMA CleanedUpIs ==
  ASSUME NEW d, Good(d)
  PROVE  LET w == CleanedUp(d)
         IN  /\ Good(w) /\ \A c \in Beings : w.toRelease[c] = 0
             /\ w.life = d.life /\ w.room = d.room /\ w.healthy = d.healthy
             /\ w.master = d.master /\ w.attacked = d.attacked
             /\ w.friends = d.friends /\ w.targets = d.targets
             /\ w.isIdle = d.isIdle /\ w.check = d.check
<1> DEFINE w == CleanedUp(d)
           r == [c \in Beings |-> d.references[c] - d.toRelease[c]]
           z == [c \in Beings |-> 0]
<1>0. /\ d \in Books
      /\ \A x \in Beings : d.references[x] \in Int /\ d.toRelease[x] \in Nat
  BY BooksAre DEF Good
<1>1. r \in [Beings -> Int] /\ z \in [Beings -> Nat]
  BY <1>0
<1>2. w = [d EXCEPT !.references = r, !.toRelease = z]
  BY <1>0 DEF CleanedUp, Books
<1>3. \A c \in Beings : r[c] = d.references[c] - d.toRelease[c] /\ z[c] = 0
  OBVIOUS
<1> HIDE DEF w, r, z
<1>4. /\ w \in Books /\ w.references = r /\ w.toRelease = z
      /\ w.life = d.life /\ w.room = d.room /\ w.healthy = d.healthy
      /\ w.master = d.master /\ w.attacked = d.attacked
      /\ w.friends = d.friends /\ w.targets = d.targets
      /\ w.isIdle = d.isIdle /\ w.check = d.check
  BY Zenon, <1>0, <1>1, <1>2 DEF Books
<1>5. ASSUME NEW x \in Beings
      PROVE  /\ w.references[x] = d.references[x]
                  + (Stands(w, x) - Stands(d, x))
                  + (Checks(w, x) - Checks(d, x))
                  + (Serves(w, x) - Serves(d, x))
                  + (w.toRelease[x] - d.toRelease[x])
             /\ w.life[x] \in {"unborn", "freed"} => w.references[x] = 0
  <2>1. /\ Checks(w, x) = Checks(d, x) /\ Checks(d, x) \in Int
        /\ Stands(w, x) = Stands(d, x) /\ Stands(d, x) \in Int
        /\ Serves(w, x) = Serves(d, x) /\ Serves(d, x) \in Int
    BY <1>4 DEF Checks, Stands, Serves
  <2>2. d.life[x] \in {"unborn", "freed"}
            => d.references[x] = 0 /\ d.toRelease[x] = 0
    BY UnreferredIs DEF Good, Counted
  <2> QED
    BY <1>0, <1>3, <1>4, <2>1, <2>2
<1>6. Good(w)
  <2>1. w.friends = d.friends /\ w.targets = d.targets /\ w \in Books
    BY <1>4
  <2> QED
    BY <1>5, <2>1, CountedAnew
<1> QED
  BY <1>3, <1>4, <1>6 DEF w

\* Everything is cleaned up.
LEMMA CleansUp ==
  ASSUME NEW b, Calm(b, NoCreature, {}, {}, {}), Bound(b, NoCreature),
         NEW d, Slack(b, d)
  PROVE  /\ Calm(CleanedUp(d), NoCreature, {}, {}, {})
         /\ Bound(CleanedUp(d), NoCreature)
<1> DEFINE w == CleanedUp(d)
<1>1. /\ Good(w) /\ \A c \in Beings : w.toRelease[c] = 0
      /\ w.life = b.life /\ w.room = b.room /\ w.healthy = b.healthy
      /\ w.master = b.master /\ w.attacked = b.attacked
      /\ w.friends = b.friends /\ w.targets = b.targets
      /\ w.isIdle = b.isIdle
      /\ \A x \in Beings : w.check[x] = b.check[x]
                            \/ (b.check[x] = "leaves" /\ w.check[x] = "none")
  BY CleanedUpIs DEF Slack
<1> HIDE DEF w
<1>2. Masters(w)
  BY <1>1 DEF Calm, Masters, Known
<1>3. Released(w) /\ Blank(w) /\ InView(w, NoCreature, {})
  BY <1>1 DEF Calm, Released, Blank, InView, Sees
<1>4. \A m \in Monsters : Mind(w, m)
  <2> SUFFICES ASSUME NEW m \in Monsters PROVE Mind(w, m)
    OBVIOUS
  <2>1. Mind(b, m) /\ m \in Beings
    BY BeingsAre DEF Calm
  <2>2. w.check[m] = "thinks" <=> b.check[m] = "thinks"
    BY <1>1, <2>1
  <2> QED
    BY <1>1, <2>1, <2>2 DEF Mind
<1>5. PlayersThink(w, {})
  <2>1. \A p \in Humans : w.check[p] = "thinks" <=> b.check[p] = "thinks"
    BY <1>1, BeingsAre
  <2> QED
    BY <1>1, <2>1 DEF Calm, PlayersThink
<1>6. Watch(w, {})
  BY <1>1 DEF Calm, Watch, Wild, Knows, IsSummon, Sees
<1>7. Bound(w, NoCreature)
  BY <1>1 DEF Bound
<1> QED
  BY <1>1, <1>2, <1>3, <1>4, <1>5, <1>6, <1>7 DEF Calm, w

\* Nothing has left.
LEMMA SameIsSlack ==
  ASSUME NEW b, Good(b)
  PROVE  Slack(b, b)
BY DEF Slack

\* c has left its check list.
LEMMA DroppedIsSlack ==
  ASSUME NEW b, Good(b), NEW c \in Beings, b.check[c] = "leaves"
  PROVE  Slack(b, Dropped(b, c))
<1> DEFINE w == Dropped(b, c)
           k == [b.check EXCEPT ![c] = "none"]
           t == [b.toRelease EXCEPT ![c] = b.toRelease[c] + 1]
<1>0. /\ b \in Books
      /\ \A x \in Beings : b.references[x] \in Int /\ b.toRelease[x] \in Nat
  BY BooksAre DEF Good
<1>1. /\ k \in [Beings -> {"none", "thinks", "leaves"}] /\ k[c] = "none"
      /\ \A x \in Beings \ {c} : k[x] = b.check[x]
      /\ t \in [Beings -> Nat] /\ t[c] = b.toRelease[c] + 1
      /\ \A x \in Beings \ {c} : t[x] = b.toRelease[x]
  BY <1>0, BooksAre
<1>2. w = [b EXCEPT !.check = k, !.toRelease = t]
  BY <1>0 DEF Dropped, Books
<1> HIDE DEF w, k, t
<1>4. /\ w \in Books /\ w.references = b.references
      /\ w.toRelease = t /\ w.check = k
      /\ w.life = b.life /\ w.room = b.room /\ w.healthy = b.healthy
      /\ w.master = b.master /\ w.attacked = b.attacked
      /\ w.friends = b.friends /\ w.targets = b.targets
      /\ w.isIdle = b.isIdle
  BY Zenon, <1>0, <1>1, <1>2 DEF Books
<1>5. ASSUME NEW x \in Beings
      PROVE  /\ w.references[x] = b.references[x]
                  + (Stands(w, x) - Stands(b, x))
                  + (Checks(w, x) - Checks(b, x))
                  + (Serves(w, x) - Serves(b, x))
                  + (w.toRelease[x] - b.toRelease[x])
             /\ w.life[x] \in {"unborn", "freed"} => w.references[x] = 0
  <2>1. /\ Stands(w, x) = Stands(b, x) /\ Stands(b, x) \in Int
        /\ Serves(w, x) = Serves(b, x) /\ Serves(b, x) \in Int
    BY <1>4 DEF Stands, Serves
  <2>2. w.life[x] \in {"unborn", "freed"} => w.references[x] = 0
    BY <1>4 DEF Good, Counted
  <2>3. CASE x = c
    <3>1. Checks(w, x) = 0 /\ Checks(b, x) = 1
      BY <1>1, <1>4, <2>3 DEF Checks
    <3>2. w.toRelease[x] = b.toRelease[x] + 1
      BY <1>1, <1>4, <2>3
    <3> QED
      BY <1>0, <1>4, <2>1, <2>2, <3>1, <3>2
  <2>4. CASE x # c
    <3>1. Checks(w, x) = Checks(b, x) /\ Checks(b, x) \in Int
      BY <1>1, <1>4, <2>4 DEF Checks
    <3>2. w.toRelease[x] = b.toRelease[x]
      BY <1>1, <1>4, <2>4
    <3> QED
      BY <1>0, <1>4, <2>1, <2>2, <3>1, <3>2
  <2> QED
    BY <2>3, <2>4
<1>6. Good(w)
  <2>1. w.friends = b.friends /\ w.targets = b.targets /\ w \in Books
    BY <1>4
  <2> QED
    BY <1>5, <2>1, CountedAnew
<1> QED
  BY <1>1, <1>4, <1>6 DEF Slack, w

\* A wild monster on the map gets a master there.
LEMMA TakesMaster ==
  ASSUME NEW b, Calm(b, NoCreature, {}, {}, {}), Bound(b, NoCreature),
         NEW s \in Monsters, b.life[s] = "placed", b.master[s] = NoCreature,
         \A x \in Beings : b.master[x] # s,
         NEW k \in Beings, b.life[k] = "placed", b.master[k] = NoCreature,
         k # s
  PROVE  /\ Calm(SetMaster(b, s, k), NoCreature, {}, {}, {})
         /\ Bound(SetMaster(b, s, k), NoCreature)
<1> DEFINE w == SetMaster(b, s, k)
<1>0. s \in Beings /\ Known(b, s) /\ Good(b) /\ Masters(b) /\ b \in Books
  BY BeingsAre DEF Known, Calm, Good
<1>1. Bought(b, w, s) /\ Good(w) /\ w.master[s] = k
  BY <1>0, SetMasterIs
<1> HIDE DEF w
<1>2. /\ w.life = b.life /\ w.room = b.room /\ w.healthy = b.healthy
      /\ w.attacked = b.attacked /\ w.toRelease = b.toRelease
      /\ w.friends = b.friends /\ w.targets = b.targets
      /\ w.isIdle = b.isIdle /\ w.check = b.check
      /\ \A x \in Beings \ {s} : w.master[x] = b.master[x]
  BY <1>1 DEF Bought
<1>3. Masters(w)
  <2> SUFFICES ASSUME NEW x \in Beings, w.master[x] # NoCreature
      PROVE  /\ x \in Monsters /\ w.master[w.master[x]] = NoCreature
             /\ Known(w, x) /\ Known(w, w.master[x])
             /\ w.life[x] = "removed" => w.life[w.master[x]] = "removed"
    BY DEF Masters
  <2>1. CASE x = s
    BY <1>1, <1>2, <2>1 DEF Known
  <2>2. CASE x # s
    <3>1. w.master[x] = b.master[x] /\ b.master[x] # s
      BY <1>2, <2>2
    <3>2. b.master[x] \in Beings
      BY <1>0, <3>1, BooksAre
    <3>3. /\ x \in Monsters /\ b.master[b.master[x]] = NoCreature
          /\ Known(b, x) /\ Known(b, b.master[x])
          /\ b.life[x] = "removed" => b.life[b.master[x]] = "removed"
      BY <1>0, <3>1 DEF Masters
    <3> QED
      BY <1>2, <3>1, <3>2, <3>3 DEF Known
  <2> QED
    BY <2>1, <2>2
<1>4. Released(w) /\ Blank(w) /\ InView(w, NoCreature, {})
  BY <1>2 DEF Calm, Released, Blank, InView, Sees
<1>5. /\ \A m \in Monsters : Mind(w, m)
      /\ PlayersThink(w, {})
  BY <1>2 DEF Calm, Mind, PlayersThink
<1>6. Watch(w, {})
  <2> SUFFICES ASSUME NEW m \in Monsters, NEW p \in Humans, Wild(w, m),
                      w.life[p] = "placed", Sees(w, m, p)
      PROVE  Knows(w, m, p)
    BY DEF Watch
  <2>1. m # s /\ m \in Beings
    BY <1>1, BeingsAre DEF Wild, IsSummon
  <2>2. Wild(b, m) /\ b.life[p] = "placed" /\ Sees(b, m, p)
    BY <1>2, <2>1 DEF Wild, IsSummon, Sees
  <2>3. Knows(b, m, p)
    BY <2>2 DEF Calm, Watch
  <2> QED
    BY <1>2, <2>3 DEF Knows
<1>7. Bound(w, NoCreature)
  BY <1>1, <1>2 DEF Bound
<1> QED
  BY <1>1, <1>3, <1>4, <1>5, <1>6, <1>7 DEF Calm, w

\* A summon comes on the map, and then gets its master.
LEMMA SummonedIs ==
  ASSUME NEW b, Calm(b, NoCreature, {}, {}, {}), Bound(b, NoCreature),
         NEW s \in Monsters, b.life[s] = "unborn",
         NEW k \in Beings, b.life[k] = "placed", b.master[k] = NoCreature,
         NEW w, Turned(PlaceCreature(b, s, b.room[k]), w)
                    \/ w = PlaceCreature(b, s, b.room[k]),
         Calm(w, NoCreature, {}, {}, {})
  PROVE  /\ Calm(SetMaster(w, s, k), NoCreature, {}, {}, {})
         /\ Bound(SetMaster(w, s, k), NoCreature)
<1> DEFINE p == PlaceCreature(b, s, b.room[k])
<1>0. /\ s \in Beings /\ s # k /\ b \in Books
      /\ b.room[k] \in Rooms \cup {NoCreature}
  BY BeingsAre, BooksAre DEF Calm, Good
<1>1. /\ b.master[s] = NoCreature /\ \A x \in Beings : b.master[x] # s
  BY <1>0, UnbornIs
<1>2. /\ Bound(p, NoCreature) /\ p.life[s] = "placed"
      /\ \A x \in Beings \ {s} : p.life[x] = b.life[x]
      /\ p.master = b.master
  BY <1>0, PlaceCreatureIs
<1>3. Turned(p, w) \/ w = p
  OBVIOUS
<1> HIDE DEF p
<1>4. Bound(w, NoCreature) /\ w.life = p.life /\ w.master = p.master
  BY <1>2, <1>3, TurnedKeeps DEF Turned
<1> QED
  BY <1>0, <1>1, <1>2, <1>4, TakesMaster

\* A monster thinks.
LEMMA ThinksIs ==
  ASSUME NEW b, Calm(b, NoCreature, {}, {}, {}), Bound(b, NoCreature),
         NEW m \in Monsters, b.life[m] = "placed", NEW prey,
         NEW path \in BOOLEAN
  PROVE  /\ Calm(Thinks(b, m, prey, path), NoCreature, {}, {}, {})
         /\ Bound(Thinks(b, m, prey, path), NoCreature)
<1> DEFINE a == UpdateIdle(b, m)
           called == IF IsSummon(a, m) THEN a.attacked[a.master[m]] ELSE prey
           h == IF a.attacked[m] = NoCreature /\ called # NoCreature
                THEN SelectTarget(a, m, called) ELSE a
           n == NoPath(h, m)
<1>0. m \in Beings /\ Known(b, m)
  BY BeingsAre DEF Known
<1>1. Thinks(b, m, prey, path) \in {a, h, n}
  BY DEF Thinks
<1>2. Calm(a, NoCreature, {}, {}, {}) /\ Alike(b, a)
  BY <1>0, UpdateIdleIsCalm
<1>3. Bound(a, NoCreature) /\ Known(a, m)
  BY <1>0, <1>2, AlikeKeeps
<1> HIDE DEF a
<1>4. Calm(h, NoCreature, {}, {}, {}) /\ Still(a, h)
  <2>1. CASE a.attacked[m] = NoCreature /\ called # NoCreature
    <3>1. h = SelectTarget(a, m, called)
      BY <2>1
    <3> HIDE DEF called, h
    <3>2. Calm(h, NoCreature, {}, {}, {}) /\ Turned(a, h)
      BY <1>2, <1>3, <3>1, SelectTargetIs
    <3> QED
      BY <3>2, AlikeIsStill
  <2>2. CASE ~(a.attacked[m] = NoCreature /\ called # NoCreature)
    <3>1. h = a
      BY <2>2
    <3> HIDE DEF h
    <3> QED
      BY <1>2, <3>1 DEF Still
  <2> QED
    BY <2>1, <2>2
<1> HIDE DEF called, h
<1>5. Bound(h, NoCreature) /\ Known(h, m)
  BY <1>3, <1>4, StillKeeps
<1>6. Good(h) /\ Mind(h, m)
  BY <1>4 DEF Calm
<1>7. Attends(h, n, m, NoCreature)
  BY <1>5, <1>6, NoPathIs
<1> HIDE DEF n
<1>8. Touched(h, n, m) /\ Good(n) /\ Mind(n, m) /\ Alike(h, n)
  BY <1>7, TouchedIsAlike DEF Attends
<1>9. \A p \in Humans : Wild(h, m) /\ Knows(h, m, p) => Knows(n, m, p)
  BY <1>7, BeingsAre DEF Attends
<1>10. Calm(n, NoCreature, {}, {}, {})
  BY <1>4, <1>8, <1>9, TouchedIsCalm
<1>11. Bound(n, NoCreature)
  BY <1>5, <1>8, AlikeKeeps
<1> QED
  BY <1>1, <1>2, <1>3, <1>4, <1>5, <1>10, <1>11

\* A creature loses its health.
LEMMA LosesHealth ==
  ASSUME NEW b, Calm(b, NoCreature, {}, {}, {}), Bound(b, NoCreature),
         NEW c \in Beings, b.life[c] = "placed",
         NEW w, w = [b EXCEPT !.healthy[c] = FALSE]
  PROVE  /\ Calm(w, NoCreature, {}, {}, {}) /\ Bound(w, NoCreature)
         /\ w.life = b.life /\ w.references = b.references
<1> DEFINE h == [b.healthy EXCEPT ![c] = FALSE]
<1>0. b \in Books /\ Good(b)
  BY DEF Calm, Good
<1>1. /\ h \in [Beings -> BOOLEAN]
      /\ \A x \in Beings : h[x] => b.healthy[x]
      /\ \A x \in Beings : x # c => h[x] = b.healthy[x]
  BY <1>0, BooksAre
<1>2. w = [b EXCEPT !.healthy = h]
  BY <1>0 DEF Books
<1> HIDE DEF h
<1>3. /\ w \in Books /\ w.healthy = h
      /\ w.life = b.life /\ w.room = b.room /\ w.master = b.master
      /\ w.attacked = b.attacked /\ w.friends = b.friends
      /\ w.targets = b.targets /\ w.isIdle = b.isIdle
      /\ w.check = b.check /\ w.toRelease = b.toRelease
      /\ w.references = b.references
  BY Zenon, <1>0, <1>1, <1>2 DEF Books
<1>4. Good(w)
  <2>1. \A x : HeldIn(w, x) = HeldIn(b, x)
    BY <1>3 DEF HeldIn, Stands, Checks, Serves
  <2> QED
    BY Zenon, <1>0, <1>3, <2>1 DEF Good, Counted
<1>5. Masters(w) /\ Released(w) /\ Blank(w) /\ InView(w, NoCreature, {})
  BY <1>3 DEF Calm, Masters, Known, Released, Blank, InView, Sees
<1>6. /\ \A m \in Monsters : Mind(w, m)
      /\ PlayersThink(w, {})
  BY <1>1, <1>3, BeingsAre DEF Calm, Mind, PlayersThink
<1>7. Watch(w, {})
  <2> SUFFICES ASSUME NEW m \in Monsters, NEW p \in Humans, Wild(w, m),
                      w.life[p] = "placed", Sees(w, m, p)
      PROVE  Knows(w, m, p)
    BY Zenon DEF Watch
  <2>1. Wild(b, m) /\ b.life[p] = "placed" /\ Sees(b, m, p)
    BY <1>1, <1>3, BeingsAre DEF Wild, IsSummon, Sees
  <2>2. Knows(b, m, p)
    BY <2>1 DEF Calm, Watch
  <2> QED
    BY <1>3, <2>2 DEF Knows
<1>8. Bound(w, NoCreature)
  BY <1>3 DEF Bound
<1> QED
  BY Zenon, <1>3, <1>4, <1>5, <1>6, <1>7, <1>8 DEF Calm

\* The inductive invariant: all is calm, no summon is without its master,
\* and nobody remains that nobody refers to.
CreaturesInv ==
    /\ Calm(creature, NoCreature, {}, {}, {}) /\ Bound(creature, NoCreature)
    /\ \A c \in Beings : ~Unreferred(creature, c)

\* At first nobody is born.
LEMMA CreaturesInvInit == CreaturesInit => CreaturesInv
<1> SUFFICES ASSUME CreaturesInit PROVE CreaturesInv
  OBVIOUS
<1> DEFINE b == creature
<1>1. /\ b \in Books
      /\ \A c \in Beings : /\ b.life[c] = "unborn" /\ b.check[c] = "none"
                           /\ b.master[c] = NoCreature
                           /\ b.attacked[c] = NoCreature
                           /\ b.references[c] = 0 /\ b.toRelease[c] = 0
      /\ \A m \in Monsters : /\ b.friends[m] = {} /\ b.targets[m] = {}
                             /\ b.isIdle[m]
  BY DEF CreaturesInit, Books, Lives
<1>2. Good(b)
  <2> SUFFICES ASSUME NEW c \in Beings
               PROVE  /\ b.references[c] = HeldIn(b, c)
                      /\ b.life[c] \in {"unborn", "freed"}
                            => b.references[c] = 0
    BY <1>1 DEF Good, Counted
  <2>1. HeldIn(b, c) = 0
    BY <1>1, HeldIs
  <2> QED
    BY <1>1, <2>1
<1>3. Masters(b) /\ Released(b) /\ Blank(b) /\ Bound(b, NoCreature)
  BY <1>1 DEF Masters, Released, Blank, Bound
<1>4. /\ \A m \in Monsters : Mind(b, m)
      /\ PlayersThink(b, {}) /\ InView(b, NoCreature, {}) /\ Watch(b, {})
  BY <1>1, BeingsAre DEF Mind, PlayersThink, InView, Watch, Wild
<1>5. \A c \in Beings : ~Unreferred(b, c)
  BY <1>1 DEF Unreferred
<1> QED
  BY <1>2, <1>3, <1>4, <1>5 DEF CreaturesInv, Calm

\* What all become is settled.
LEMMA BecomesIs ==
  ASSUME NEW b, Calm(b, NoCreature, {}, {}, {}), Bound(b, NoCreature),
         Becomes(b)
  PROVE  CreaturesInv'
<1>1. creature' = Settled(b)
  BY DEF Becomes
<1>2. /\ Calm(Settled(b), NoCreature, {}, {}, {})
      /\ Bound(Settled(b), NoCreature)
      /\ \A c \in Beings : ~Unreferred(Settled(b), c)
  BY SettledIs
<1> DEFINE s == Settled(b)
<1> HIDE DEF s
<1>3. /\ Calm(creature', NoCreature, {}, {}, {})
      /\ Bound(creature', NoCreature)
      /\ \A c \in Beings : ~Unreferred(creature', c)
  BY <1>1, <1>2
<1> QED
  BY <1>3 DEF CreaturesInv

\* And what they become when all is cleaned up.
LEMMA BecomesCleanedUp ==
  ASSUME NEW b, Calm(b, NoCreature, {}, {}, {}), Bound(b, NoCreature),
         Becomes(CleanedUp(b))
  PROVE  CreaturesInv'
<1>1. Slack(b, b)
  BY SameIsSlack DEF Calm
<1>2. /\ Calm(CleanedUp(b), NoCreature, {}, {}, {})
      /\ Bound(CleanedUp(b), NoCreature)
  BY <1>1, CleansUp
<1> QED
  BY <1>2, BecomesIs

\* Only what is on the map is visited.
LEMMA ThinkersArePlaced ==
  ASSUME CreaturesInv, NEW c \in Beings, creature.check[c] = "thinks"
  PROVE  creature.life[c] = "placed"
<1>1. Calm(creature, NoCreature, {}, {}, {}) /\ creature \in Books
  BY DEF CreaturesInv, Calm, Good
<1>2. creature.life[c] # "unborn"
  BY <1>1, UnbornIs
<1>3. creature.life[c] \notin {"removed", "freed"}
  BY <1>1 DEF Calm, Mind, PlayersThink, Beings
<1> QED
  BY <1>1, <1>2, <1>3, BooksAre DEF Lives

\* A creature comes, moves, attacks, or goes.
LEMMA CreaturesInvLives ==
  ASSUME CreaturesInv, NEW c \in Beings,
         \/ LoseHealth(c) \/ ExecuteDeath(c) \/ Disappear(c)
         \/ \E r \in Rooms : Place(c, r)
         \/ \E r \in Rooms, far \in BOOLEAN : Move(c, r, far)
         \/ \E t \in Beings \cup {NoCreature} : Attack(c, t)
  PROVE  CreaturesInv'
<1> DEFINE b == creature
<1>0. /\ Calm(b, NoCreature, {}, {}, {}) /\ Bound(b, NoCreature)
      /\ \A x \in Beings : ~Unreferred(b, x)
  BY DEF CreaturesInv
<1>1. ASSUME LoseHealth(c) PROVE CreaturesInv'
  <2>1. /\ creature' = [b EXCEPT !.healthy[c] = FALSE]
        /\ b.life[c] = "placed"
    BY <1>1 DEF LoseHealth, Placed
  <2>2. /\ Calm(creature', NoCreature, {}, {}, {})
        /\ Bound(creature', NoCreature)
        /\ creature'.life = b.life /\ creature'.references = b.references
    BY <1>0, <2>1, LosesHealth
  <2> QED
    BY <1>0, <2>2 DEF CreaturesInv, Unreferred
<1>2. ASSUME ExecuteDeath(c) PROVE CreaturesInv'
  <2> DEFINE dead == IF c \in Monsters THEN Died(b, c) ELSE b
             w == RemoveCreature(SetMaster(dead, c, NoCreature), c)
  <2>1. b.life[c] = "placed" /\ ~b.healthy[c] /\ Becomes(w)
    BY <1>2 DEF ExecuteDeath, Placed
  <2>2. dead = IF c \in Monsters THEN Died(b, c) ELSE b
    OBVIOUS
  <2>3. w = RemoveCreature(SetMaster(dead, c, NoCreature), c)
    OBVIOUS
  <2> HIDE DEF dead, w
  <2>4. Calm(w, NoCreature, {}, {}, {}) /\ Bound(w, NoCreature)
    BY <1>0, <2>1, <2>2, <2>3, DeathIs
  <2> QED
    BY <2>1, <2>4, BecomesIs
<1>3. ASSUME Disappear(c) PROVE CreaturesInv'
  <2>1. Becomes(RemoveCreature(b, c))
    BY <1>3 DEF Disappear
  <2>2. /\ Calm(RemoveCreature(b, c), NoCreature, {}, {}, {})
        /\ Bound(RemoveCreature(b, c), NoCreature)
    BY <1>0, RemoveCreatureIs
  <2> QED
    BY <2>1, <2>2, BecomesIs
<1>4. ASSUME NEW r \in Rooms, Place(c, r) PROVE CreaturesInv'
  <2>1. b.life[c] = "unborn" /\ Becomes(PlaceCreature(b, c, r))
    BY <1>4 DEF Place
  <2>2. /\ Calm(PlaceCreature(b, c, r), NoCreature, {}, {}, {})
        /\ Bound(PlaceCreature(b, c, r), NoCreature)
    BY <1>0, <2>1, PlaceCreatureIs
  <2> QED
    BY <2>1, <2>2, BecomesIs
<1>5. ASSUME NEW r \in Rooms, NEW far \in BOOLEAN, Move(c, r, far)
      PROVE  CreaturesInv'
  <2>1. b.life[c] = "placed" /\ Becomes(MoveCreature(b, c, r, far))
    BY <1>5 DEF Move, Placed
  <2>2. /\ Calm(MoveCreature(b, c, r, far), NoCreature, {}, {}, {})
        /\ Bound(MoveCreature(b, c, r, far), NoCreature)
    BY <1>0, <2>1, MoveCreatureIs
  <2> QED
    BY <2>1, <2>2, BecomesIs
<1>6. ASSUME NEW t \in Beings \cup {NoCreature}, Attack(c, t)
      PROVE  CreaturesInv'
  <2>1. /\ b.life[c] = "placed" /\ Becomes(SetAttacked(b, c, t))
        /\ t # NoCreature => b.life[t] = "placed"
    BY <1>6 DEF Attack, Placed
  <2>2. Known(b, c)
    BY <2>1 DEF Known
  <2>3. /\ Calm(SetAttacked(b, c, t), NoCreature, {}, {}, {})
        /\ Turned(b, SetAttacked(b, c, t))
    BY <1>0, <2>1, <2>2, SetAttackedIs
  <2>4. Bound(SetAttacked(b, c, t), NoCreature)
    BY <1>0, <2>3, TurnedKeeps
  <2> QED
    BY <2>1, <2>3, <2>4, BecomesIs
<1> QED
  BY <1>1, <1>2, <1>3, <1>4, <1>5, <1>6

\* A script summons a monster.
LEMMA CreaturesInvSummon ==
  ASSUME CreaturesInv, NEW p \in Humans, NEW s \in Monsters, Summon(p, s)
  PROVE  CreaturesInv'
<1> DEFINE b == creature
           wild == PlaceCreature(b, s, b.room[p])
           still == SetAttacked(wild, s, NoCreature)
<1>0. Calm(b, NoCreature, {}, {}, {}) /\ Bound(b, NoCreature)
  BY DEF CreaturesInv
<1>1. /\ b.life[p] = "placed" /\ b.life[s] = "unborn"
      /\ Becomes(SetMaster(still, s, p))
  BY DEF Summon, Placed
<1>2. /\ p \in Beings /\ s \in Beings /\ b.master[p] = NoCreature
      /\ b.room[p] \in Rooms \cup {NoCreature}
  BY <1>0, BeingsAre, BooksAre DEF Calm, Masters, Good
<1>3. /\ Calm(wild, NoCreature, {}, {}, {}) /\ wild.life[s] = "placed"
  BY <1>0, <1>1, <1>2, PlaceCreatureIs
<1>4. wild = PlaceCreature(b, s, b.room[p])
  OBVIOUS
<1> HIDE DEF wild
<1>5. Calm(still, NoCreature, {}, {}, {}) /\ Turned(wild, still)
  BY <1>2, <1>3, StopsAttacking DEF Known
<1> HIDE DEF still
<1>6. /\ Calm(SetMaster(still, s, p), NoCreature, {}, {}, {})
      /\ Bound(SetMaster(still, s, p), NoCreature)
  BY <1>0, <1>1, <1>2, <1>4, <1>5, SummonedIs
<1> QED
  BY <1>1, <1>6, BecomesIs

\* Somebody is visited, leaves the check list, or is released.
LEMMA CreaturesInvThinks ==
  ASSUME CreaturesInv,
         \/ CleanupCreatures
         \/ \E c \in Beings : ThinkAndGo(c) \/ Drop(c)
         \/ \E p \in Humans : ThinkOfPlayer(p)
         \/ \E m \in Monsters, prey \in Beings \cup {NoCreature} :
                \E path \in BOOLEAN : ThinkOfMonster(m, prey, path)
         \/ \E m, s \in Monsters : ThinkAndSummon(m, s)
  PROVE  CreaturesInv'
<1> DEFINE b == creature
<1>0. /\ Calm(b, NoCreature, {}, {}, {}) /\ Bound(b, NoCreature)
      /\ Good(b)
  BY DEF CreaturesInv, Calm
<1>1. ASSUME CleanupCreatures PROVE CreaturesInv'
  <2>1. Becomes(CleanedUp(b))
    BY <1>1 DEF CleanupCreatures
  <2> QED
    BY <1>0, <2>1, BecomesCleanedUp
<1>2. ASSUME NEW c \in Beings, ThinkAndGo(c) PROVE CreaturesInv'
  <2>1. Becomes(CleanedUp(RemoveCreature(b, c)))
    BY <1>2 DEF ThinkAndGo, Visited, ThinksAndGoes
  <2>2. /\ Calm(RemoveCreature(b, c), NoCreature, {}, {}, {})
        /\ Bound(RemoveCreature(b, c), NoCreature)
    BY <1>0, RemoveCreatureIs
  <2> QED
    BY <2>1, <2>2, BecomesCleanedUp
<1>3. ASSUME NEW c \in Beings, Drop(c) PROVE CreaturesInv'
  <2>1. b.check[c] = "leaves" /\ Becomes(CleanedUp(Dropped(b, c)))
    BY <1>3 DEF Drop
  <2>2. Slack(b, Dropped(b, c))
    BY <1>0, <2>1, DroppedIsSlack
  <2>3. /\ Calm(CleanedUp(Dropped(b, c)), NoCreature, {}, {}, {})
        /\ Bound(CleanedUp(Dropped(b, c)), NoCreature)
    BY <1>0, <2>2, CleansUp
  <2> QED
    BY <2>1, <2>3, BecomesIs
<1>4. ASSUME NEW p \in Humans, ThinkOfPlayer(p) PROVE CreaturesInv'
  <2>1. Becomes(CleanedUp(b))
    BY <1>4 DEF ThinkOfPlayer, Visited
  <2> QED
    BY <1>0, <2>1, BecomesCleanedUp
<1>5. ASSUME NEW m \in Monsters, NEW prey, NEW path \in BOOLEAN,
             ThinkOfMonster(m, prey, path)
      PROVE  CreaturesInv'
  <2> DEFINE w == IF b.healthy[m] THEN Thinks(b, m, prey, path) ELSE b
  <2>1. b.check[m] = "thinks" /\ Becomes(CleanedUp(w))
    BY <1>5 DEF ThinkOfMonster, Visited
  <2>2. b.life[m] = "placed"
    BY <2>1, BeingsAre, ThinkersArePlaced
  <2>3. /\ Calm(Thinks(b, m, prey, path), NoCreature, {}, {}, {})
        /\ Bound(Thinks(b, m, prey, path), NoCreature)
    BY <1>0, <2>2, ThinksIs
  <2>4. Calm(w, NoCreature, {}, {}, {}) /\ Bound(w, NoCreature)
    BY <1>0, <2>3
  <2> HIDE DEF w
  <2> QED
    BY <2>1, <2>4, BecomesCleanedUp
<1>6. ASSUME NEW m \in Monsters, NEW s \in Monsters, ThinkAndSummon(m, s)
      PROVE  CreaturesInv'
  <2> DEFINE called == PlaceCreature(b, s, b.room[m])
  <2>1. /\ b.check[m] = "thinks" /\ b.life[s] = "unborn"
        /\ b.master[m] = NoCreature
        /\ Becomes(CleanedUp(SetMaster(called, s, m)))
    BY <1>6 DEF ThinkAndSummon, Visited, IsSummon
  <2>2. /\ m \in Beings /\ s \in Beings
        /\ b.room[m] \in Rooms \cup {NoCreature}
    BY <1>0, BeingsAre, BooksAre DEF Good
  <2>3. b.life[m] = "placed"
    BY <2>1, <2>2, ThinkersArePlaced
  <2>4. Calm(called, NoCreature, {}, {}, {})
    BY <1>0, <2>1, <2>2, PlaceCreatureIs
  <2>5. called = PlaceCreature(b, s, b.room[m])
    OBVIOUS
  <2> HIDE DEF called
  <2>6. /\ Calm(SetMaster(called, s, m), NoCreature, {}, {}, {})
        /\ Bound(SetMaster(called, s, m), NoCreature)
    BY <1>0, <2>1, <2>2, <2>3, <2>4, <2>5, SummonedIs
  <2> QED
    BY <2>1, <2>6, BecomesCleanedUp
<1> QED
  BY <1>1, <1>2, <1>3, <1>4, <1>5, <1>6

\* Every step keeps the invariant.
LEMMA CreaturesInvStep ==
  CreaturesInv /\ [CreaturesNext]_CreaturesVars => CreaturesInv'
<1> SUFFICES ASSUME CreaturesInv, [CreaturesNext]_CreaturesVars
             PROVE  CreaturesInv'
  OBVIOUS
<1>1. CASE UNCHANGED CreaturesVars
  BY <1>1 DEF CreaturesVars, CreaturesInv
<1>2. CASE CreaturesNext
  BY <1>2, CreaturesInvLives, CreaturesInvSummon, CreaturesInvThinks,
     BeingsAre DEF CreaturesNext
<1> QED
  BY <1>1, <1>2

\* Who remains and does not settle has a master, when all are well that
\* remain.
LEMMA WhoStaysServes ==
  ASSUME CreaturesInv, NEW c \in Remain(creature),
         creature.check[c] = "none", creature.toRelease[c] = 0,
         \A m \in Monsters : creature.life[m] # "placed",
         \A m \in Monsters \cap Remain(creature) : creature.healthy[m]
  PROVE  creature.master[c] # NoCreature
<1> SUFFICES ASSUME creature.master[c] = NoCreature PROVE FALSE
  OBVIOUS
<1> DEFINE b == creature
<1>0. /\ Calm(b, NoCreature, {}, {}, {}) /\ Good(b) /\ b \in Books
      /\ c \in Beings /\ b.life[c] = "removed"
  BY DEF CreaturesInv, Calm, Good, Remain
<1>1. \A m \in Monsters : b.friends[m] = {} /\ b.targets[m] = {}
  <2> SUFFICES ASSUME NEW m \in Monsters
               PROVE  b.friends[m] = {} /\ b.targets[m] = {}
    OBVIOUS
  <2>1. m \in Beings /\ Mind(b, m) /\ b.life[m] \in Lives
    BY <1>0, BeingsAre, BooksAre DEF Calm
  <2> QED
    BY <2>1 DEF Mind, Remain, Lives
<1>2. HeldIn(b, c) = 0
  BY <1>0, <1>1, HeldIs
<1>3. b.references[c] = 0
  BY <1>0, <1>2 DEF Good, Counted
<1> QED
  BY <1>0, <1>3 DEF CreaturesInv, Unreferred

\* The invariant is what the run checks.
LEMMA CreaturesInvSound == CreaturesInv => CreaturesSound
<1> SUFFICES ASSUME CreaturesInv PROVE CreaturesSound
  OBVIOUS
<1> DEFINE b == creature
<1>0. /\ Calm(b, NoCreature, {}, {}, {}) /\ Bound(b, NoCreature)
      /\ Good(b) /\ b \in Books /\ Masters(b)
  BY DEF CreaturesInv, Calm, Good
<1>1. \A c \in Beings : /\ b.references[c] = HeldIn(b, c)
                        /\ b.references[c] \in Nat
  BY <1>0, HeldIs DEF Good, Counted
<1>2. CreaturesTypeOK
  <2>1. \A c \in Beings : b.toRelease[c] \in 0 .. 2
    BY <1>0 DEF Calm, Released
  <2> QED
    BY <1>0, <1>1, <2>1, BooksAre DEF CreaturesTypeOK, Lives
<1>3. CreatureReferencesExact
  BY <1>1 DEF CreatureReferencesExact, Held, HeldIn, Stands, Checks, Serves,
     Listing
<1>4. AttackedInView
  BY <1>0 DEF Calm, InView, AttackedInView, Placed
<1>5. AwakeThink
  BY <1>0, BeingsAre DEF Calm, AwakeThink, Placed, Mind, PlayersThink, Beings
<1>6. Watchful
  BY <1>0 DEF Calm, Watch, Watchful, Wild, Knows, Placed
<1>7. SummonsGoWithMaster
  <2> SUFFICES ASSUME NEW s \in Beings, b.life[s] = "placed",
                      b.master[s] # NoCreature
      PROVE  b.master[s] \in Beings /\ b.life[b.master[s]] = "placed"
    BY DEF SummonsGoWithMaster, Placed, IsSummon
  <2> QED
    BY <1>0, BooksAre DEF Bound
<1>8. OnlyTheDyingStay
  <2> SUFFICES ASSUME NEW c \in Remain(b),
                      \A x \in Beings : /\ b.life[x] # "placed"
                                        /\ b.check[x] = "none"
                                        /\ ~(b.toRelease[x] > 0),
                      \A m \in Remain(b) : b.healthy[m]
      PROVE  FALSE
    BY DEF OnlyTheDyingStay, Remain
  <2>1. \A x \in Beings : b.toRelease[x] = 0
    BY <1>0, BooksAre
  <2>2. \A m \in Monsters : b.life[m] # "placed"
    BY BeingsAre
  <2>3. b.master[c] # NoCreature /\ c \in Beings
    BY <2>1, <2>2, WhoStaysServes DEF Remain
  <2> DEFINE k == b.master[c]
  <2>4. k \in Beings /\ Known(b, k) /\ b.master[k] = NoCreature
    BY <1>0, <2>3, BooksAre DEF Masters
  <2> HIDE DEF k
  <2>5. k \in Remain(b)
    BY <2>4 DEF Known, Remain
  <2>6. b.master[k] # NoCreature
    BY <2>1, <2>2, <2>4, <2>5, WhoStaysServes
  <2> QED
    BY <2>4, <2>6
<1> QED
  BY <1>2, <1>3, <1>4, <1>5, <1>6, <1>7, <1>8 DEF CreaturesSound

-----------------------------------------------------------------------------
(* The components of World.                                                *)

AllVars == <<CreaturesVars, TilesVars, ConditionsVars, part>>

OneSteps == CreaturesStep \/ TilesStep \/ ConditionsStep

\* A step is one of one component, and leaves the others alone.
LEMMA OnlyOneMoves ==
  ASSUME [OneSteps]_AllVars
  PROVE  /\ [TilesNext]_TilesVars /\ [ConditionsNext]_ConditionsVars
         /\ [CreaturesNext]_CreaturesVars
BY DEF AllVars, OneSteps, CreaturesStep, TilesStep, ConditionsStep

\* The flags and the height that a tile keeps are those of the items on it,
\* however they were loaded, added, changed, replaced and removed; a mark is
\* set just while an item bears it, unless two did at a time; down items come
\* first, and the index of every thing leads back to it (tile.cpp); for lists
\* of any length.
THEOREM TilesAreSound == Spec => []TilesSound
<1>1. Init => TilesInv
  BY TilesInitial DEF Init
<1>2. TilesInv /\ [OneSteps]_AllVars => TilesInv'
  BY OnlyOneMoves, TilesKeeps
<1> QED
  BY <1>1, <1>2, TilesInvIsSound, PTL DEF Spec, OneSteps, AllVars

\* A player is as fast and as skilled as the conditions it has make it, and
\* nothing stays of those that ended, however they were merged, put off, cut
\* short or noticed late; haste and paralysis end each other (condition.cpp,
\* creature.cpp); for durations and numbers of events of any size.
THEOREM ConditionsAreSound == Spec => []ConditionsSound
<1>1. Init => ConditionsInv /\ met \subseteq Keys
  <2>1. ConditionsInit => met \subseteq Keys
    BY DEF ConditionsInit, Meetings, Speeds, Keys, Types, OfType
  <2> QED
    BY <2>1, ConditionsInitial DEF Init
<1>2. ConditionsInv /\ met \subseteq Keys /\ [OneSteps]_AllVars
        => ConditionsInv' /\ (met \subseteq Keys)'
  BY OnlyOneMoves, ConditionsKeeps
<1> QED
  BY <1>1, <1>2, ConditionsInvIsSound, PTL DEF Spec, OneSteps, AllVars

\* Creatures are sound: the references counted by hand are the ones that
\* exist, who is attacked is on the map and in view, who is awake thinks,
\* wild monsters wake to the players they see, no summon stays without its
\* master, and only the dying stay once removed, however they come, move,
\* attack, think, die and go (creature.cpp, monster.cpp, game.cpp); for any
\* number of players, monsters and rooms.
THEOREM CreaturesAreSound == Spec => []CreaturesSound
<1>1. Init => CreaturesInv
  BY CreaturesInvInit DEF Init
<1>2. CreaturesInv /\ [OneSteps]_AllVars => CreaturesInv'
  BY OnlyOneMoves, CreaturesInvStep
<1> QED
  BY <1>1, <1>2, CreaturesInvSound, PTL DEF Spec, OneSteps, AllVars
=============================================================================
