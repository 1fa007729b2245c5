----------------------------- MODULE FoldLemmas ----------------------------
(***************************************************************************)
(* Lemmas about folds over finite sets, and about the sums that they make  *)
(* of the values of a function.                                            *)
(***************************************************************************)
EXTENDS Integers, FiniteSets, Functions, SequencesExt, FiniteSetTheorems,
        SequenceTheorems, WellFoundedInduction, TLAPS

-----------------------------------------------------------------------------
(* What a fold over a finite set gives.                                    *)

\* A set of numbers that is not empty has a least one.
LEMMA HasLeast ==
  ASSUME NEW S, S \subseteq Nat, S # {}
  PROVE  \E m \in S : \A j \in S : m <= j
<1> DEFINE R == {ss \in Nat \X Nat : ss[1] < ss[2]}
<1>1. IsWellFoundedOn(R, Nat)
  BY NatLessThanWellFounded, Zenon DEF OpToRel
<1>2. PICK m \in S : \A j \in S : ~ (<<j, m>> \in R)
  <2> HIDE DEF R
  <2> QED
    BY <1>1, WFMin, Zenon
<1>3. ASSUME NEW j \in S PROVE m <= j
  <2>1. ~ (<<j, m>> \in R)
    BY <1>2
  <2>2. ~(j < m)
    BY <2>1
  <2> QED
    BY <2>2
<1> QED
  BY <1>3


\* What holds of no number up to which it fails first, holds of all.
LEMMA AllNumbers ==
  ASSUME NEW Good \in SUBSET Nat,
         \A n \in Nat : (\A m \in Nat : m < n => m \in Good) => n \in Good
  PROVE  \A n \in Nat : n \in Good
<1> DEFINE Bad == {n \in Nat : n \notin Good}
<1> SUFFICES ASSUME Bad # {} PROVE FALSE
  OBVIOUS
<1>1. Bad \subseteq Nat
  OBVIOUS
<1>2. PICK n \in Bad : \A j \in Bad : n <= j
  <2> HIDE DEF Bad
  <2> QED
    BY <1>1, HasLeast
<1>3. \A m \in Nat : m < n => m \in Good
  BY <1>2
<1> QED
  BY <1>2, <1>3

\* The one that a fold takes first.
Chosen(s) == CHOOSE x \in s : TRUE

\* What is chosen from a set that is not empty is in it.
LEMMA ChosenIs ==
  ASSUME NEW s, s # {}
  PROVE  Chosen(s) \in s
BY DEF Chosen

\* Less of a finite set.
LEMMA OneLess ==
  ASSUME NEW s, IsFiniteSet(s), NEW x \in s
  PROVE  /\ IsFiniteSet(s \ {x}) /\ Cardinality(s) \in Nat
         /\ Cardinality(s \ {x}) \in Nat
         /\ Cardinality(s \ {x}) = Cardinality(s) - 1
BY FS_RemoveElement, FS_CardinalityType

\* What is folded: f has what became of base by op for every subset of S.
Folded(f, S, base, op) ==
    \A s \in SUBSET S :
        f[s] = IF s = {} THEN base ELSE op[<<Chosen(s), f[s \ {Chosen(s)}]>>]

\* A choice of which element of a set a fold takes first.
Chooses(ch, S) == \A s \in SUBSET S : s # {} => ch[s] \in s

\* The same as Folded, for any choice.
FoldedBy(ch, f, S, base, op) ==
    \A s \in SUBSET S :
        f[s] = IF s = {} THEN base ELSE op[<<ch[s], f[s \ {ch[s]}]>>]

\* The function that a fold defines exists, whatever it takes first.
LEMMA FoldByExists ==
  ASSUME NEW S, IsFiniteSet(S), NEW D, NEW base \in D,
         NEW op \in [S \X D -> D], NEW ch, Chooses(ch, S)
  PROVE  \E f \in [SUBSET S -> D] : FoldedBy(ch, f, S, base, op)
<1> DEFINE Next1(f, s) == IF s = {} THEN base
                          ELSE op[<<ch[s], f[s \ {ch[s]}]>>]
           Upto(f, n) == \A s \in SUBSET S :
                            Cardinality(s) <= n => f[s] = Next1(f, s)
           Good == {n \in Nat : \E f \in [SUBSET S -> D] : Upto(f, n)}
<1>0. \A s \in SUBSET S : IsFiniteSet(s) /\ Cardinality(s) \in Nat
                          /\ Cardinality(s) <= Cardinality(S)
  BY FS_Subset, FS_CardinalityType
<1>1. ASSUME NEW n \in Nat, \A m \in Nat : m < n => m \in Good
      PROVE  n \in Good
  <2>1. \E g \in [SUBSET S -> D] :
            \A s \in SUBSET S : Cardinality(s) < n => g[s] = Next1(g, s)
    <3>1. CASE n = 0
      <4> DEFINE g == [s \in SUBSET S |-> base]
      <4>1. g \in [SUBSET S -> D]
        OBVIOUS
      <4>2. \A s \in SUBSET S : ~(Cardinality(s) < n)
        BY <1>0, <3>1
      <4> HIDE DEF g
      <4> QED
        BY <4>1, <4>2
    <3>2. CASE n # 0
      <4>0. n - 1 \in Nat /\ n - 1 < n
        BY <3>2
      <4>1. n - 1 \in Good
        <5> HIDE DEF Good
        <5> QED
          BY <1>1, <4>0
      <4>2. PICK g \in [SUBSET S -> D] : Upto(g, n - 1)
        BY <4>1
      <4>3. \A s \in SUBSET S : Cardinality(s) < n => Cardinality(s) <= n - 1
        BY <1>0
      <4> QED
        BY <4>2, <4>3
    <3> QED
      BY <3>1, <3>2
  <2>2. PICK g \in [SUBSET S -> D] :
            \A s \in SUBSET S : Cardinality(s) < n => g[s] = Next1(g, s)
    BY <2>1
  <2> DEFINE f == [s \in SUBSET S |-> Next1(g, s)]
  <2>2a. f \in [SUBSET S -> D]
    <3> SUFFICES ASSUME NEW s \in SUBSET S PROVE Next1(g, s) \in D
      OBVIOUS
    <3>1. CASE s = {}
      BY <3>1
    <3>2. CASE s # {}
      <4>1. ch[s] \in S /\ s \ {ch[s]} \in SUBSET S
        BY <3>2 DEF Chooses
      <4>2. g[s \ {ch[s]}] \in D
        BY <4>1
      <4> QED
        BY <3>2, <4>1, <4>2
    <3> QED
      BY <3>1, <3>2
  <2>3. ASSUME NEW s \in SUBSET S, Cardinality(s) <= n
        PROVE  Next1(g, s) = Next1(f, s)
    <3>1. CASE s = {}
      BY <3>1
    <3>2. CASE s # {}
      <4> DEFINE t == s \ {ch[s]}
      <4>1. ch[s] \in s /\ t \in SUBSET S
        BY <3>2 DEF Chooses
      <4>2. Cardinality(t) = Cardinality(s) - 1
        BY <1>0, <4>1, OneLess
      <4>3. Cardinality(t) < n
        BY <1>0, <2>3, <4>1, <4>2
      <4>4. g[t] = Next1(g, t)
        BY <2>2, <4>1, <4>3
      <4>5. f[t] = Next1(g, t)
        BY <4>1
      <4> HIDE DEF f
      <4> QED
        BY <3>2, <4>4, <4>5
    <3> QED
      BY <3>1, <3>2
  <2>4. \A s \in SUBSET S : f[s] = Next1(g, s)
    OBVIOUS
  <2> HIDE DEF f
  <2>5. Upto(f, n)
    BY <2>3, <2>4
  <2> QED
    BY <2>2a, <2>5
<1>2. Good \in SUBSET Nat
  OBVIOUS
<1>3. \A n \in Nat : n \in Good
  <2> HIDE DEF Good
  <2> QED
    BY <1>1, <1>2, AllNumbers
<1>4. Cardinality(S) \in Good
  BY <1>0, <1>3
<1>5. PICK f \in [SUBSET S -> D] : Upto(f, Cardinality(S))
  BY <1>4
<1>6. FoldedBy(ch, f, S, base, op)
  BY <1>0, <1>5 DEF FoldedBy
<1> QED
  BY <1>6

\* The function that a fold defines exists.
LEMMA FoldExists ==
  ASSUME NEW S, IsFiniteSet(S), NEW D, NEW base \in D,
         NEW op \in [S \X D -> D]
  PROVE  \E f \in [SUBSET S -> D] : Folded(f, S, base, op)
<1> DEFINE ch == [s \in SUBSET S |-> Chosen(s)]
<1>1. \A s \in SUBSET S : ch[s] = Chosen(s)
  OBVIOUS
<1>2. Chooses(ch, S)
  BY <1>1, ChosenIs DEF Chooses
<1> HIDE DEF ch
<1>3. PICK f \in [SUBSET S -> D] : FoldedBy(ch, f, S, base, op)
  BY <1>2, FoldByExists
<1> QED
  BY <1>1, <1>3 DEF Folded, FoldedBy

\* The last place of a set of them, which a fold from the left takes first.
Latest(s) == CHOOSE x \in s : \A y \in s : x >= y

\* A finite set of numbers that is not empty has a greatest one.
LEMMA LatestIs ==
  ASSUME NEW n \in Nat, NEW s \in SUBSET (1 .. n), s # {}
  PROVE  Latest(s) \in s /\ \A y \in s : y <= Latest(s)
<1> DEFINE R == {n - y : y \in s}
<1>1. R \subseteq Nat /\ R # {}
  <2>1. \A y \in s : n - y \in Nat
    OBVIOUS
  <2>2. PICK y \in s : TRUE
    OBVIOUS
  <2> QED
    BY <2>1, <2>2
<1>2. PICK m \in R : \A j \in R : m <= j
  <2> HIDE DEF R
  <2> QED
    BY <1>1, HasLeast
<1>3. PICK x \in s : m = n - x
  BY <1>2
<1>4. \A y \in s : n - x <= n - y
  BY <1>2, <1>3
<1>5. \A y \in s : x >= y
  BY <1>4
<1> QED
  BY <1>5 DEF Latest

\* The last of the first places.
LEMMA LatestOfFirst ==
  ASSUME NEW n \in Nat, n # 0
  PROVE  Latest(1 .. n) = n /\ (1 .. n) \ {n} = 1 .. (n - 1)
<1>1. Latest(1 .. n) \in 1 .. n /\ n <= Latest(1 .. n)
  <2>1. n \in 1 .. n /\ (1 .. n) \in SUBSET (1 .. n)
    OBVIOUS
  <2> QED
    BY <2>1, LatestIs
<1>2. Latest(1 .. n) = n
  BY <1>1
<1>3. (1 .. n) \ {n} = 1 .. (n - 1)
  OBVIOUS
<1> QED
  BY <1>2, <1>3

\* What is in a sequence of which one place is taken out.
LEMMA RemovedFrom ==
  ASSUME NEW T, NEW s \in Seq(T), NEW k \in 1 .. Len(s)
  PROVE  /\ RemoveAt(s, k) \in Seq(T)
         /\ Len(RemoveAt(s, k)) = Len(s) - 1
         /\ \A i \in 1 .. Len(s) - 1 :
                RemoveAt(s, k)[i] = IF i < k THEN s[i] ELSE s[i + 1]
<1> DEFINE a == SubSeq(s, 1, k - 1)
           b == SubSeq(s, k + 1, Len(s))
<1>1. SubSeq(s, 1, k - 1) \in Seq(T) /\ SubSeq(s, k + 1, Len(s)) \in Seq(T)
  OBVIOUS
<1>2. /\ Len(SubSeq(s, 1, k - 1)) = k - 1
      /\ Len(SubSeq(s, k + 1, Len(s))) = Len(s) - k
  OBVIOUS
<1>3. /\ \A i \in 1 .. k - 1 : SubSeq(s, 1, k - 1)[i] = s[i]
      /\ \A i \in 1 .. Len(s) - k : SubSeq(s, k + 1, Len(s))[i] = s[k + i]
  OBVIOUS
<1>4. /\ a \in Seq(T) /\ b \in Seq(T) /\ Len(a) = k - 1
      /\ Len(b) = Len(s) - k /\ RemoveAt(s, k) = a \o b
      /\ Len(s) \in Nat
  BY <1>1, <1>2 DEF RemoveAt
<1>5. /\ \A i \in 1 .. k - 1 : a[i] = s[i]
      /\ \A i \in 1 .. Len(s) - k : b[i] = s[k + i]
  BY <1>3
<1> HIDE DEF a, b
<1>6. a \o b \in Seq(T) /\ Len(a \o b) = Len(s) - 1
  <2>1. a \o b \in Seq(T) /\ Len(a \o b) = Len(a) + Len(b)
    BY <1>4, ConcatProperties
  <2>2. k \in Nat
    OBVIOUS
  <2> QED
    BY <1>4, <2>1, <2>2
<1>7. ASSUME NEW i \in 1 .. Len(s) - 1
      PROVE  (a \o b)[i] = IF i < k THEN s[i] ELSE s[i + 1]
  <2>1. (a \o b)[i] = IF i <= k - 1 THEN a[i] ELSE b[i - (k - 1)]
    BY <1>4
  <2>2. CASE i < k
    BY <2>1, <2>2, <1>5
  <2>3. CASE ~(i < k)
    <3>1. b[i - (k - 1)] = s[k + (i - (k - 1))]
      BY <2>3, <1>4, <1>5
    <3> QED
      BY <3>1, <2>1, <2>3
  <2> QED
    BY <2>2, <2>3
<1> QED
  BY <1>4, <1>6, <1>7

\* One step of a fold from the left.
FromLeft(f, s, base, op) ==
    IF s = {} THEN base ELSE op[<<Latest(s), f[s \ {Latest(s)}]>>]

FoldedFromLeft(f, S, base, op) ==
    \A s \in SUBSET S : f[s] = FromLeft(f, s, base, op)

\* The function that a fold from the left over n places defines exists.
LEMMA LeftExists ==
  ASSUME NEW n \in Nat, NEW S, S = 1 .. n, NEW D, NEW base \in D,
         NEW op \in [S \X D -> D]
  PROVE  \E f \in [SUBSET S -> D] : FoldedFromLeft(f, S, base, op)
<1> DEFINE ch == [s \in SUBSET S |-> Latest(s)]
<1>1. \A s \in SUBSET S : ch[s] = Latest(s)
  OBVIOUS
<1>2. Chooses(ch, S)
  BY <1>1, LatestIs DEF Chooses
<1>3. IsFiniteSet(S)
  BY FS_Interval
<1> HIDE DEF ch
<1>4. PICK f \in [SUBSET S -> D] : FoldedBy(ch, f, S, base, op)
  BY <1>2, <1>3, FoldByExists
<1> QED
  BY <1>1, <1>4 DEF FoldedBy, FromLeft, FoldedFromLeft

(* f goes from base step by step. *)
StepByStep(f, n, base, op) ==
    /\ f[0] = base
    /\ \A i \in 1 .. n : f[i] = op[<<i, f[i - 1]>>]

\* The values of a function that each step takes from the last exist.
LEMMA StepsExist ==
  ASSUME NEW n \in Nat, NEW D, NEW base \in D,
         NEW op \in [(1 .. n) \X D -> D]
  PROVE  \E f \in [0 .. n -> D] : StepByStep(f, n, base, op)
<1> DEFINE S == 1 .. n
<1>1. PICK g \in [SUBSET S -> D] : FoldedFromLeft(g, S, base, op)
  BY LeftExists
<1> DEFINE f == [i \in 0 .. n |-> g[1 .. i]]
<1>2. f \in [0 .. n -> D]
  <2>1. \A i \in 0 .. n : 1 .. i \in SUBSET S
    OBVIOUS
  <2> QED
    BY <2>1
<1>3. f[0] = base
  <2>1. 1 .. 0 = {}
    OBVIOUS
  <2>2. g[{}] = base
    BY <1>1 DEF FoldedFromLeft, FromLeft
  <2> QED
    BY <2>1, <2>2
<1>4. ASSUME NEW i \in 1 .. n PROVE f[i] = op[<<i, f[i - 1]>>]
  <2>1. /\ Latest(1 .. i) = i /\ (1 .. i) \ {i} = 1 .. (i - 1)
        /\ 1 .. i \in SUBSET S /\ 1 .. i # {}
    BY LatestOfFirst
  <2>2. g[1 .. i] = op[<<i, g[1 .. (i - 1)]>>]
    BY <1>1, <2>1 DEF FoldedFromLeft, FromLeft
  <2>3. i \in 0 .. n /\ i - 1 \in 0 .. n
    OBVIOUS
  <2> QED
    BY <2>2, <2>3
<1> HIDE DEF f
<1> QED
  BY <1>2, <1>3, <1>4 DEF StepByStep

\* What a fold from the left gives is in the sets its steps lead through.
LEMMA LeftFits ==
  ASSUME NEW n \in Nat, NEW D, NEW f, f[{}] \in D[0],
         \A i \in 1 .. n : f[1 .. (i - 1)] \in D[i - 1]
                                => f[1 .. i] \in D[i]
  PROVE  f[1 .. n] \in D[n]
<1> DEFINE Good == {i \in Nat : i <= n => f[1 .. i] \in D[i]}
<1>1. ASSUME NEW i \in Nat, \A m \in Nat : m < i => m \in Good
      PROVE  i \in Good
  <2> SUFFICES ASSUME i <= n PROVE f[1 .. i] \in D[i]
    OBVIOUS
  <2>1. CASE i = 0
    <3>1. 1 .. i = {}
      BY <2>1
    <3> QED
      BY <2>1, <3>1
  <2>2. CASE i # 0
    <3>1. i - 1 \in Nat /\ i - 1 < i /\ i - 1 <= n /\ i \in 1 .. n
      BY <2>2
    <3>2. i - 1 \in Good
      <4> HIDE DEF Good
      <4> QED
        BY <1>1, <3>1
    <3> QED
      BY <3>1, <3>2
  <2> QED
    BY <2>1, <2>2
<1>2. Good \in SUBSET Nat
  OBVIOUS
<1>3. \A i \in Nat : i \in Good
  <2> HIDE DEF Good
  <2> QED
    BY <1>1, <1>2, AllNumbers
<1> QED
  BY <1>3

\* What a fold gives is in the sets that its steps lead through.
LEMMA FoldFits ==
  ASSUME NEW S, IsFiniteSet(S), NEW D, NEW f, f[{}] \in D[{}],
         \A s \in SUBSET S :
            s # {} /\ f[s \ {Chosen(s)}] \in D[s \ {Chosen(s)}]
                => f[s] \in D[s]
  PROVE  f[S] \in D[S]
<1>0. \A s \in SUBSET S : IsFiniteSet(s) /\ Cardinality(s) \in Nat
  BY FS_Subset, FS_CardinalityType
<1> DEFINE Good == {n \in Nat : \A s \in SUBSET S :
                                    Cardinality(s) = n => f[s] \in D[s]}
<1>1. ASSUME NEW n \in Nat, \A m \in Nat : m < n => m \in Good
      PROVE  n \in Good
  <2> SUFFICES ASSUME NEW s \in SUBSET S, Cardinality(s) = n
               PROVE  f[s] \in D[s]
    OBVIOUS
  <2>1. CASE s = {}
    BY <2>1
  <2>2. CASE s # {}
    <3> DEFINE t == s \ {Chosen(s)}
    <3>1. Chosen(s) \in s /\ t \in SUBSET S
      BY <2>2, ChosenIs
    <3>2. Cardinality(t) < n /\ Cardinality(t) \in Nat
      BY <1>0, <3>1, OneLess
    <3>3. Cardinality(t) \in Good
      <4> HIDE DEF Good
      <4> QED
        BY <1>1, <3>2
    <3>4. f[t] \in D[t]
      BY <3>1, <3>3
    <3> QED
      BY <2>2, <3>4
  <2> QED
    BY <2>1, <2>2
<1>2. Good \in SUBSET Nat
  OBVIOUS
<1>3. \A n \in Nat : n \in Good
  <2> HIDE DEF Good
  <2> QED
    BY <1>1, <1>2, AllNumbers
<1>4. Cardinality(S) \in Good
  BY <1>0, <1>3
<1> QED
  BY <1>4

\* The sums of v over the subsets of S exist.
Adds(f, v, s) == IF s = {} THEN 0 ELSE v[Chosen(s)] + f[s \ {Chosen(s)}]

LEMMA SumExists ==
  ASSUME NEW S, IsFiniteSet(S), NEW v, \A x \in S : v[x] \in Int
  PROVE  \E g : g = [s \in SUBSET S |-> Adds(g, v, s)]
<1> DEFINE op == [a \in S \X Int |-> v[a[1]] + a[2]]
<1>1. op \in [S \X Int -> Int] /\ 0 \in Int
  OBVIOUS
<1>2. \A x \in S, n \in Int : op[<<x, n>>] = v[x] + n
  OBVIOUS
<1> HIDE DEF op
<1>3. PICK f \in [SUBSET S -> Int] : Folded(f, S, 0, op)
  BY <1>1, FoldExists
<1>4. ASSUME NEW s \in SUBSET S PROVE f[s] = Adds(f, v, s)
  <2>1. CASE s = {}
    BY <1>3, <2>1 DEF Adds, Folded
  <2>2. CASE s # {}
    <3>1. Chosen(s) \in S /\ s \ {Chosen(s)} \in SUBSET S
      BY <2>2, ChosenIs
    <3>2. f[s \ {Chosen(s)}] \in Int
      BY <3>1
    <3>3. f[s] = op[<<Chosen(s), f[s \ {Chosen(s)}]>>]
      BY <1>3, <2>2 DEF Folded
    <3> QED
      BY <1>2, <2>2, <3>1, <3>2, <3>3 DEF Adds
  <2> QED
    BY <2>1, <2>2
<1> QED
  BY <1>4

\* f gives the sums of v over the subsets of S.
SumsOf(f, S, v) ==
    /\ \A s \in SUBSET S : f[s] \in Int
    /\ f[{}] = 0
    /\ \A s \in SUBSET S : \A x \in s : f[s] = f[s \ {x}] + v[x]

\* In whatever order the elements are chosen.
LEMMA AnyOrder ==
  ASSUME NEW S, IsFiniteSet(S), NEW v, \A x \in S : v[x] \in Int,
         NEW f, f = [s \in SUBSET S |-> Adds(f, v, s)]
  PROVE  SumsOf(f, S, v)
<1>0. \A s \in SUBSET S : IsFiniteSet(s) /\ Cardinality(s) \in Nat
  BY FS_Subset, FS_CardinalityType
<1>1. \A s \in SUBSET S : f[s] = Adds(f, v, s)
  OBVIOUS
<1>2. f[{}] = 0
  BY <1>1 DEF Adds
<1> DEFINE Fits(s) == /\ f[s] \in Int
                      /\ \A x \in s : f[s] = f[s \ {x}] + v[x]
           Good == {n \in Nat : \A s \in SUBSET S : Cardinality(s) = n
                                                        => Fits(s)}
<1>3. ASSUME NEW n \in Nat, \A m \in Nat : m < n => m \in Good
      PROVE  n \in Good
  <2> SUFFICES ASSUME NEW s \in SUBSET S, Cardinality(s) = n
               PROVE  Fits(s)
    OBVIOUS
  <2>0. ASSUME NEW t \in SUBSET S, Cardinality(t) < n PROVE Fits(t)
    <3>1. Cardinality(t) \in Nat
      BY <1>0
    <3>2. Cardinality(t) \in Good
      <4> HIDE DEF Good
      <4> QED
        BY <1>3, <2>0, <3>1
    <3> QED
      BY <3>2
  <2>1. CASE s = {}
    BY <1>2, <2>1
  <2>2. CASE s # {}
    <3> DEFINE y == Chosen(s)
               t == s \ {y}
    <3>1. y \in s /\ t \in SUBSET S
      BY <2>2, ChosenIs
    <3>2. Cardinality(t) < n
      BY <1>0, <3>1, OneLess
    <3>3a. f[s] = v[y] + f[t]
      BY <1>1, <2>2 DEF Adds
    <3>4. Fits(t)
      BY <2>0, <3>1, <3>2
    <3> HIDE DEF y
    <3>5. f[s] \in Int /\ v[y] \in Int
      BY <3>1, <3>3a, <3>4
    <3>3. f[s] = f[t] + v[y]
      BY <3>1, <3>3a, <3>4, <3>5
    <3>6. ASSUME NEW x \in s PROVE f[s] = f[s \ {x}] + v[x]
      <4>1. CASE x = y
        BY <3>3, <4>1
      <4>2. CASE x # y
        <5> DEFINE u == s \ {x}
                   w == t \ {x}
        <5>1. u \in SUBSET S /\ Cardinality(u) < n
          BY <1>0, OneLess
        <5>2. Fits(u)
          BY <2>0, <5>1
        <5>3. f[u] = f[u \ {y}] + v[y]
          BY <3>1, <4>2, <5>2
        <5>4. f[t] = f[w] + v[x]
          BY <3>4, <4>2
        <5>5. u \ {y} = w
          OBVIOUS
        <5>6. w \in SUBSET S /\ Cardinality(w) < n
          <6>1. x \in t /\ IsFiniteSet(t) /\ w \in SUBSET S
            BY <1>0, <3>1, <4>2
          <6>2. Cardinality(w) = Cardinality(t) - 1
                /\ Cardinality(t) \in Nat
            BY <6>1, OneLess
          <6> QED
            BY <3>2, <6>1, <6>2
        <5>7. f[w] \in Int /\ v[x] \in Int
          BY <2>0, <5>6
        <5> HIDE DEF u, w, t
        <5>8. f[s] = f[u] + v[x]
          <6>1. f[u] = f[w] + v[y]
            BY <5>3, <5>5
          <6>2. f[s] = f[w] + v[x] + v[y]
            BY <3>3, <5>4
          <6>3. f[w] + v[x] + v[y] = f[w] + v[y] + v[x]
            BY <3>5, <5>7
          <6> QED
            BY <6>1, <6>2, <6>3
        <5> QED
          BY <5>8 DEF u
      <4> QED
        BY <4>1, <4>2
    <3> QED
      BY <3>5, <3>6
  <2> QED
    BY <2>1, <2>2
<1>4. Good \in SUBSET Nat
  OBVIOUS
<1>5. \A n \in Nat : n \in Good
  <2> HIDE DEF Good
  <2> QED
    BY <1>3, <1>4, AllNumbers
<1>6. \A s \in SUBSET S : Fits(s)
  BY <1>0, <1>5
<1> QED
  BY <1>2, <1>6 DEF SumsOf

\* There is one sum only.
LEMMA OneSum ==
  ASSUME NEW S, IsFiniteSet(S), NEW T, S \subseteq T, NEW v, NEW u,
         \A x \in S : v[x] \in Int /\ u[x] = v[x],
         NEW f, SumsOf(f, S, v), NEW g, SumsOf(g, T, u)
  PROVE  f[S] = g[S]
<1>0. \A s \in SUBSET S : IsFiniteSet(s) /\ Cardinality(s) \in Nat
  BY FS_Subset, FS_CardinalityType
<1> DEFINE Good == {n \in Nat : \A s \in SUBSET S : Cardinality(s) = n
                                                        => f[s] = g[s]}
<1>1. ASSUME NEW n \in Nat, \A m \in Nat : m < n => m \in Good
      PROVE  n \in Good
  <2> SUFFICES ASSUME NEW s \in SUBSET S, Cardinality(s) = n
               PROVE  f[s] = g[s]
    OBVIOUS
  <2>1. CASE s = {}
    BY <2>1 DEF SumsOf
  <2>2. CASE s # {}
    <3>1. PICK x \in s : TRUE
      BY <2>2
    <3> DEFINE t == s \ {x}
    <3>2. /\ t \in SUBSET S /\ t \in SUBSET T /\ s \in SUBSET T
          /\ Cardinality(t) < n /\ Cardinality(t) \in Nat
      BY <1>0, <3>1, OneLess
    <3>3. Cardinality(t) \in Good
      <4> HIDE DEF Good
      <4> QED
        BY <1>1, <3>2
    <3>4. f[t] = g[t]
      BY <3>2, <3>3
    <3>5. f[s] = f[t] + v[x] /\ g[s] = g[t] + u[x] /\ u[x] = v[x]
      BY <3>1, <3>2 DEF SumsOf
    <3> QED
      BY <3>4, <3>5
  <2> QED
    BY <2>1, <2>2
<1>2. Good \in SUBSET Nat
  OBVIOUS
<1>3. \A n \in Nat : n \in Good
  <2> HIDE DEF Good
  <2> QED
    BY <1>1, <1>2, AllNumbers
<1> QED
  BY <1>0, <1>3

\* The sum of the values of v on S.
SumOver(v, S) == FoldFunctionOnSet(+, 0, v, S)

\* It is a fold.
LEMMA SumUnfolds ==
  ASSUME NEW v, NEW S
  PROVE  SumOver(v, S) = (CHOOSE g : g = [s \in SUBSET S |-> Adds(g, v, s)])[S]
<1> DEFINE Once(g, s) == IF s = {} THEN 0
                    ELSE LET x == CHOOSE y \in s : TRUE
                         IN v[x] + g[s \ {x}]
<1>1. SumOver(v, S) = (CHOOSE g : g = [s \in SUBSET S |-> Once(g, s)])[S]
  BY DEF SumOver, FoldFunctionOnSet, MapThenFoldSet
<1>2. \A g : [s \in SUBSET S |-> Once(g, s)]
             = [s \in SUBSET S |-> Adds(g, v, s)]
  BY DEF Adds, Chosen
<1> HIDE DEF Once
<1> QED
  BY <1>1, <1>2

\* It is what the sums over the subsets give.
LEMMA SumIs ==
  ASSUME NEW S, IsFiniteSet(S), NEW v, \A x \in S : v[x] \in Int
  PROVE  \E f : SumsOf(f, S, v) /\ SumOver(v, S) = f[S]
<1> DEFINE f == CHOOSE g : g = [s \in SUBSET S |-> Adds(g, v, s)]
<1>1. f = [s \in SUBSET S |-> Adds(f, v, s)]
  <2>1. \E g : g = [s \in SUBSET S |-> Adds(g, v, s)]
    BY SumExists
  <2> QED
    BY <2>1
<1>2. SumOver(v, S) = f[S]
  BY SumUnfolds
<1> HIDE DEF f
<1>3. SumsOf(f, S, v)
  BY <1>1, AnyOrder
<1> QED
  BY <1>2, <1>3

\* One summand less.
LEMMA SumLess ==
  ASSUME NEW S, IsFiniteSet(S), NEW v, \A y \in S : v[y] \in Int
  PROVE  /\ SumOver(v, S) \in Int
         /\ S = {} => SumOver(v, S) = 0
         /\ \A x \in S : SumOver(v, S) = SumOver(v, S \ {x}) + v[x]
<1>1. PICK f : SumsOf(f, S, v) /\ SumOver(v, S) = f[S]
  BY SumIs
<1>2. SumOver(v, S) \in Int /\ (S = {} => SumOver(v, S) = 0)
  BY <1>1 DEF SumsOf
<1>3. ASSUME NEW x \in S PROVE SumOver(v, S) = SumOver(v, S \ {x}) + v[x]
  <2> DEFINE T == S \ {x}
  <2>1. IsFiniteSet(T) /\ T \subseteq S
    BY FS_Subset
  <2> HIDE DEF T
  <2>2. PICK g : SumsOf(g, T, v) /\ SumOver(v, T) = g[T]
    BY <2>1, SumIs
  <2>3. g[T] = f[T]
    BY <1>1, <2>1, <2>2, OneSum
  <2>4. f[S] = f[T] + v[x]
    BY <1>1 DEF SumsOf, T
  <2> QED
    BY <1>1, <2>2, <2>3, <2>4 DEF T
<1> QED
  BY <1>2, <1>3

\* What holds of the empty set, and of a set of which it holds with one
\* element less, holds of every finite set.
LEMMA AllSubsets ==
  ASSUME NEW S, IsFiniteSet(S), NEW Good \in SUBSET SUBSET S, {} \in Good,
         \A s \in SUBSET S : \A x \in s : s \ {x} \in Good => s \in Good
  PROVE  S \in Good
<1> DEFINE Sizes == {n \in Nat : \A s \in SUBSET S :
                                    Cardinality(s) = n => s \in Good}
<1>0. \A s \in SUBSET S : IsFiniteSet(s) /\ Cardinality(s) \in Nat
  BY FS_Subset, FS_CardinalityType
<1>1. ASSUME NEW n \in Nat, \A m \in Nat : m < n => m \in Sizes
      PROVE  n \in Sizes
  <2> SUFFICES ASSUME NEW s \in SUBSET S, Cardinality(s) = n
               PROVE  s \in Good
    OBVIOUS
  <2>1. CASE s = {}
    BY <2>1
  <2>2. ASSUME NEW x \in s PROVE s \in Good
    <3> DEFINE t == s \ {x}
    <3>1. t \in SUBSET S /\ Cardinality(t) \in Nat /\ Cardinality(t) < n
      BY <1>0, OneLess
    <3>2. Cardinality(t) \in Sizes
      <4> HIDE DEF Sizes
      <4> QED
        BY <1>1, <3>1
    <3>3. t \in Good
      BY <3>1, <3>2
    <3> QED
      BY <3>3
  <2> QED
    BY <2>1, <2>2
<1>2. Sizes \in SUBSET Nat
  OBVIOUS
<1>3. \A n \in Nat : n \in Sizes
  <2> HIDE DEF Sizes
  <2> QED
    BY <1>1, <1>2, AllNumbers
<1> QED
  BY <1>0, <1>3

\* The same summands have the same sum.
LEMMA SumSame ==
  ASSUME NEW S, IsFiniteSet(S), NEW v, NEW u,
         \A x \in S : v[x] \in Int /\ u[x] = v[x]
  PROVE  SumOver(u, S) = SumOver(v, S)
<1>1. PICK f : SumsOf(f, S, v) /\ SumOver(v, S) = f[S]
  BY SumIs
<1>2. \A x \in S : u[x] \in Int
  OBVIOUS
<1>3. PICK g : SumsOf(g, S, u) /\ SumOver(u, S) = g[S]
  BY <1>2, SumIs
<1> QED
  BY <1>1, <1>3, OneSum

\* What the sums over a set and over what is left of it have to do with each
\* other.
LEMMA SumLessOf ==
  ASSUME NEW S, IsFiniteSet(S), NEW v, \A y \in S : v[y] \in Int,
         NEW s \in SUBSET S
  PROVE  /\ IsFiniteSet(s) /\ SumOver(v, s) \in Int
         /\ s = {} => SumOver(v, s) = 0
         /\ \A x \in s : SumOver(v, s) = SumOver(v, s \ {x}) + v[x]
<1>1. IsFiniteSet(s)
  BY FS_Subset
<1> QED
  BY <1>1, SumLess

\* One summand changes.
LEMMA SumOneChanged ==
  ASSUME NEW S, IsFiniteSet(S), NEW v, NEW u, NEW x \in S,
         \A y \in S : v[y] \in Int /\ u[y] \in Int,
         \A y \in S \ {x} : u[y] = v[y]
  PROVE  SumOver(u, S) = SumOver(v, S) - v[x] + u[x]
<1> DEFINE T == S \ {x}
<1>1. IsFiniteSet(T) /\ \A y \in T : v[y] \in Int /\ u[y] = v[y]
  BY FS_Subset
<1>2. SumOver(u, T) = SumOver(v, T) /\ SumOver(v, T) \in Int
  <2> HIDE DEF T
  <2> QED
    BY <1>1, SumSame, SumLess
<1>3. SumOver(u, S) = SumOver(u, T) + u[x]
  BY SumLess
<1>4. SumOver(v, S) = SumOver(v, T) + v[x]
  BY SumLess
<1> HIDE DEF T
<1> QED
  BY <1>2, <1>3, <1>4

\* The sum of sums.
LEMMA SumAdds ==
  ASSUME NEW S, IsFiniteSet(S), NEW v, NEW u, NEW w,
         \A y \in S : v[y] \in Int /\ u[y] \in Int /\ w[y] = v[y] + u[y]
  PROVE  SumOver(w, S) = SumOver(v, S) + SumOver(u, S)
<1> DEFINE Good == {s \in SUBSET S :
                      SumOver(w, s) = SumOver(v, s) + SumOver(u, s)}
<1>0. \A y \in S : w[y] \in Int
  OBVIOUS
<1>1. {} \in Good
  <2>1. SumOver(w, {}) = 0 /\ SumOver(v, {}) = 0 /\ SumOver(u, {}) = 0
    BY <1>0, SumLessOf
  <2> QED
    BY <2>1
<1>2. ASSUME NEW s \in SUBSET S, NEW x \in s, s \ {x} \in Good
      PROVE  s \in Good
  <2> DEFINE t == s \ {x}
  <2>1. t \in SUBSET S
    OBVIOUS
  <2> HIDE DEF t
  <2>2. SumOver(w, t) \in Int /\ SumOver(v, t) \in Int /\ SumOver(u, t) \in Int
    BY <1>0, <2>1, SumLessOf
  <2>3. /\ SumOver(w, s) = SumOver(w, t) + w[x]
        /\ SumOver(v, s) = SumOver(v, t) + v[x]
        /\ SumOver(u, s) = SumOver(u, t) + u[x]
    <3>1. SumOver(w, s) = SumOver(w, t) + w[x]
      BY <1>0, SumLessOf DEF t
    <3>2. SumOver(v, s) = SumOver(v, t) + v[x]
      BY SumLessOf DEF t
    <3>3. SumOver(u, s) = SumOver(u, t) + u[x]
      <4>1. \A y \in S : u[y] \in Int
        OBVIOUS
      <4> QED
        BY <4>1, SumLessOf DEF t
    <3> QED
      BY <3>1, <3>2, <3>3
  <2>4. SumOver(w, t) = SumOver(v, t) + SumOver(u, t)
    BY <1>2 DEF t
  <2>5. v[x] \in Int /\ u[x] \in Int /\ w[x] = v[x] + u[x]
    OBVIOUS
  <2>6. SumOver(w, s) = SumOver(v, s) + SumOver(u, s)
    BY <2>2, <2>3, <2>4, <2>5
  <2> QED
    BY <2>6
<1>3. Good \in SUBSET SUBSET S
  OBVIOUS
<1>4. S \in Good
  <2> HIDE DEF Good
  <2> QED
    BY <1>1, <1>2, <1>3, AllSubsets
<1> QED
  BY <1>4

\* A sum of nothing.
LEMMA SumZero ==
  ASSUME NEW S, IsFiniteSet(S), NEW v, \A y \in S : v[y] = 0
  PROVE  SumOver(v, S) = 0
<1> DEFINE n == SumOver(v, S)
<1>0. \A y \in S : v[y] \in Int /\ v[y] = v[y] + v[y]
  OBVIOUS
<1>1. n = n + n
  BY <1>0, SumAdds
<1>2. n \in Int
  BY <1>0, SumLess
<1>3. n = 0
  <2> HIDE DEF n
  <2> QED
    BY <1>1, <1>2
<1> QED
  BY <1>3

\* A sum of what is not negative.
LEMMA SumNat ==
  ASSUME NEW S, IsFiniteSet(S), NEW v, \A y \in S : v[y] \in Nat
  PROVE  SumOver(v, S) \in Nat
<1> DEFINE Good == {s \in SUBSET S : SumOver(v, s) \in Nat}
<1>0. \A y \in S : v[y] \in Int
  OBVIOUS
<1>1. {} \in Good
  BY <1>0, SumLessOf
<1>2. ASSUME NEW s \in SUBSET S, NEW x \in s, s \ {x} \in Good
      PROVE  s \in Good
  <2>1. SumOver(v, s) = SumOver(v, s \ {x}) + v[x]
    BY <1>0, SumLessOf
  <2>2. SumOver(v, s \ {x}) \in Nat /\ v[x] \in Nat
    BY <1>2
  <2>3. SumOver(v, s) \in Nat
    BY <2>1, <2>2
  <2> QED
    BY <2>3
<1>3. Good \in SUBSET SUBSET S
  OBVIOUS
<1>4. S \in Good
  <2> HIDE DEF Good
  <2> QED
    BY <1>1, <1>2, <1>3, AllSubsets
<1> QED
  BY <1>4

\* The sum over those with a key.
ByKey(v, s, key, K) ==
    [k \in K |-> SumOver(v, {x \in s : key[x] = k})]

\* Adding up by keys first.
LEMMA SumByKey ==
  ASSUME NEW S, IsFiniteSet(S), NEW K, IsFiniteSet(K), NEW v, NEW key,
         \A x \in S : v[x] \in Int /\ key[x] \in K
  PROVE  SumOver(ByKey(v, S, key, K), K) = SumOver(v, S)
<1> DEFINE Good == {s \in SUBSET S :
                      SumOver(ByKey(v, s, key, K), K) = SumOver(v, s)}
<1>0. \A s \in SUBSET S : \A k \in K :
          /\ ByKey(v, s, key, K)[k] = SumOver(v, {x \in s : key[x] = k})
          /\ ByKey(v, s, key, K)[k] \in Int
  <2> TAKE s \in SUBSET S
  <2> TAKE k \in K
  <2>1. {x \in s : key[x] = k} \in SUBSET S
    OBVIOUS
  <2>2. SumOver(v, {x \in s : key[x] = k}) \in Int
    BY <2>1, SumLessOf
  <2> QED
    BY <2>2 DEF ByKey
<1>1. {} \in Good
  <2>1. \A k \in K : {x \in {} : key[x] = k} = {}
    OBVIOUS
  <2>2. SumOver(v, {}) = 0
    BY SumLessOf
  <2>3. \A k \in K : ByKey(v, {}, key, K)[k] = 0
    BY <1>0, <2>1, <2>2
  <2>4. SumOver(ByKey(v, {}, key, K), K) = 0
    BY <2>3, SumZero
  <2> QED
    BY <2>2, <2>4
<1>2. ASSUME NEW s \in SUBSET S, NEW x \in s, s \ {x} \in Good
      PROVE  s \in Good
  <2> DEFINE t == s \ {x}
             a == ByKey(v, t, key, K)
             b == ByKey(v, s, key, K)
  <2>1. t \in SUBSET S /\ key[x] \in K /\ v[x] \in Int
    OBVIOUS
  <2>2. ASSUME NEW k \in K \ {key[x]} PROVE b[k] = a[k]
    <3>1. {y \in s : key[y] = k} = {y \in t : key[y] = k}
      BY <2>2
    <3>2. /\ b[k] = SumOver(v, {y \in s : key[y] = k})
          /\ a[k] = SumOver(v, {y \in t : key[y] = k})
      BY <2>2 DEF ByKey
    <3> QED
      BY <3>1, <3>2
  <2>3. b[key[x]] = a[key[x]] + v[x]
    <3> DEFINE p == {y \in s : key[y] = key[x]}
    <3>1. p \in SUBSET S /\ x \in p
      OBVIOUS
    <3>2. p \ {x} = {y \in t : key[y] = key[x]}
      OBVIOUS
    <3>3. SumOver(v, p) = SumOver(v, p \ {x}) + v[x]
      <4> HIDE DEF p
      <4> QED
        BY <3>1, SumLessOf
    <3>4. b[key[x]] = SumOver(v, p)
      BY <1>0, <2>1
    <3>5. a[key[x]] = SumOver(v, p \ {x})
      BY <1>0, <2>1, <3>2
    <3> QED
      BY <3>3, <3>4, <3>5
  <2>4. \A k \in K : a[k] \in Int /\ b[k] \in Int
    BY <1>0, <2>1
  <2> HIDE DEF a, b
  <2>5. SumOver(b, K) = SumOver(a, K) - a[key[x]] + b[key[x]]
    BY <2>1, <2>2, <2>4, SumOneChanged
  <2>6. SumOver(a, K) = SumOver(v, t)
    BY <1>2 DEF a
  <2>7. SumOver(v, s) = SumOver(v, t) + v[x] /\ SumOver(v, t) \in Int
    BY <2>1, SumLessOf
  <2> HIDE DEF t
  <2>8. SumOver(b, K) = SumOver(v, s)
    BY <2>1, <2>3, <2>4, <2>5, <2>6, <2>7
  <2> QED
    BY <2>8 DEF b
<1>3. Good \in SUBSET SUBSET S
  OBVIOUS
<1>4. S \in Good
  <2> HIDE DEF Good
  <2> QED
    BY <1>1, <1>2, <1>3, AllSubsets
<1> QED
  BY <1>4

\* A sum of one, and of two.
LEMMA SumFew ==
  ASSUME NEW v
  PROVE  /\ \A x : v[x] \in Int => SumOver(v, {x}) = v[x]
         /\ \A x, y : v[x] \in Int /\ v[y] \in Int /\ x # y
                        => SumOver(v, {x, y}) = v[x] + v[y]
<1>1. ASSUME NEW x, v[x] \in Int PROVE SumOver(v, {x}) = v[x]
  <2>1. IsFiniteSet({x}) /\ x \in {x} /\ {x} \ {x} = {}
    BY FS_Singleton
  <2>2. IsFiniteSet({}) /\ \A y \in {} : v[y] \in Int
    BY FS_EmptySet
  <2>3. SumOver(v, {}) = 0
    BY <2>2, SumLess
  <2>4. \A y \in {x} : v[y] \in Int
    BY <1>1
  <2>5. SumOver(v, {x}) = SumOver(v, {x} \ {x}) + v[x]
    BY <2>1, <2>4, SumLess
  <2> DEFINE t == {x} \ {x}
  <2>6. t = {}
    BY <2>1
  <2>7. SumOver(v, {x}) = SumOver(v, t) + v[x]
    BY <2>5
  <2> HIDE DEF t
  <2>8. SumOver(v, t) = 0
    BY <2>3, <2>6
  <2> QED
    BY <1>1, <2>7, <2>8
<1>2. ASSUME NEW x, NEW y, v[x] \in Int, v[y] \in Int, x # y
      PROVE  SumOver(v, {x, y}) = v[x] + v[y]
  <2> DEFINE s == {x, y}
  <2>1. IsFiniteSet(s) /\ y \in s /\ s \ {y} = {x}
    <3>1. IsFiniteSet({x}) /\ s = {x} \cup {y}
      BY FS_Singleton
    <3>2. IsFiniteSet({x} \cup {y})
      BY <3>1, FS_AddElement
    <3> QED
      BY <3>1, <3>2, <1>2
  <2>2. \A z \in s : v[z] \in Int
    BY <1>2
  <2> HIDE DEF s
  <2>3. SumOver(v, s) = SumOver(v, s \ {y}) + v[y]
    BY <2>1, <2>2, SumLess
  <2> QED
    BY <1>1, <1>2, <2>1, <2>3 DEF s
<1> QED
  BY <1>1, <1>2

\* What goes when those of R do, each the only one under its id.
LEMMA SumGone ==
  ASSUME NEW R, IsFiniteSet(R), NEW K, IsFiniteSet(K), NEW id, NEW f,
         \A r \in R : id[r] \in K /\ f[r] \in Int,
         \A r, s \in R : id[r] = id[s] => r = s,
         NEW v, NEW u, \A o \in K : v[o] \in Int /\ u[o] \in Int,
         \A r \in R : v[id[r]] = u[id[r]] + f[r],
         \A o \in K : (\A r \in R : id[r] # o) => v[o] = u[o]
  PROVE  SumOver(v, K) = SumOver(u, K) + SumOver(f, R)
<1> DEFINE g == ByKey(f, R, id, K)
<1>1. ASSUME NEW o \in K PROVE g[o] \in Int /\ v[o] = u[o] + g[o]
  <2> DEFINE Q == {r \in R : id[r] = o}
  <2>1. g[o] = SumOver(f, Q)
    BY DEF ByKey
  <2>2. CASE Q = {}
    <3>1. SumOver(f, {}) = 0
      BY SumLessOf
    <3>2. v[o] = u[o] /\ u[o] \in Int
      BY <2>2
    <3>3. g[o] = 0
      <4> HIDE DEF Q, g
      <4> QED
        BY <2>1, <2>2, <3>1
    <3> HIDE DEF g
    <3> QED
      BY <3>2, <3>3
  <2>3. ASSUME NEW r \in Q PROVE g[o] \in Int /\ v[o] = u[o] + g[o]
    <3>1. Q = {r} /\ r \in R /\ id[r] = o /\ f[r] \in Int
      OBVIOUS
    <3>2. SumOver(f, {r}) = f[r]
      BY <3>1, SumFew
    <3> QED
      BY <2>1, <3>1, <3>2
  <2> QED
    BY <2>2, <2>3
<1> HIDE DEF g
<1>2. SumOver(v, K) = SumOver(u, K) + SumOver(g, K)
  BY <1>1, SumAdds
<1>3. SumOver(g, K) = SumOver(f, R)
  BY SumByKey DEF g
<1> QED
  BY <1>2, <1>3
=============================================================================
