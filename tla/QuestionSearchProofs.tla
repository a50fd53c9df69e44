------------------------- MODULE QuestionSearchProofs -------------------------
(***************************************************************************)
(* Proofs about QuestionSearch, Segmenter and CrawledFile, for any         *)
(* dictionaries, model and texts.                                          *)
(***************************************************************************)
EXTENDS QuestionSearch, SequenceTheorems, FiniteSetTheorems, WellFoundedInduction, TLAPS

-----------------------------------------------------------------------------
(* Sets of integers.                                                       *)

LEMMA Least ==
  ASSUME NEW S, S \subseteq Int, S # {}, NEW low \in Int, \A n \in S : low <= n
  PROVE  \E n \in S : \A m \in S : n <= m
<1> DEFINE D == {n - low : n \in S}
           Less == OpToRel(<, Nat)
<1>1. /\ D \subseteq Nat
      /\ D # {}
  <2>1. PICK n \in S : TRUE
    OBVIOUS
  <2>2. n - low \in D
    OBVIOUS
  <2>3. D \subseteq Nat
    OBVIOUS
  <2> QED
    BY <2>2, <2>3
<1>2. IsWellFoundedOn(Less, Nat)
  BY NatLessThanWellFounded
<1>3. \A m, n \in Nat : <<m, n>> \notin Less => n <= m
  BY DEF OpToRel
<1> HIDE DEF Less
<1>4. PICK d \in D : \A e \in D : <<e, d>> \notin Less
  <2> HIDE DEF D
  <2> QED
    BY <1>1, <1>2, WFMin
<1>5. PICK n \in S : d = n - low
  OBVIOUS
<1>6. ASSUME NEW m \in S PROVE n <= m
  <2>1. m - low \in D /\ m - low \in Nat /\ n - low \in Nat
    OBVIOUS
  <2>2. n - low <= m - low
    BY <1>3, <1>4, <1>5, <2>1
  <2> QED
    BY <2>2
<1> QED
  BY <1>6

LEMMA Greatest ==
  ASSUME NEW S, S \subseteq Int, S # {}, NEW high \in Int, \A n \in S : n <= high
  PROVE  \E n \in S : \A m \in S : m <= n
<1> DEFINE D == {-n : n \in S}
<1>1. D \subseteq Int /\ D # {} /\ \A n \in D : -high <= n
  <2>1. PICK n \in S : TRUE
    OBVIOUS
  <2>2. -n \in D
    OBVIOUS
  <2>3. \A m \in S : -m \in Int /\ -high <= -m
    OBVIOUS
  <2>4. \A d \in D : \E m \in S : d = -m
    OBVIOUS
  <2> HIDE DEF D
  <2>5. \A d \in D : d \in Int /\ -high <= d
    BY <2>3, <2>4
  <2> QED
    BY <2>2, <2>5
<1>2. PICK d \in D : \A m \in D : d <= m
  <2> HIDE DEF D
  <2>1. -high \in Int
    OBVIOUS
  <2> QED
    BY <1>1, <2>1, Least
<1>3. PICK n \in S : d = -n
  OBVIOUS
<1>4. ASSUME NEW m \in S PROVE m <= n
  <2>1. -m \in D /\ m \in Int /\ n \in Int
    OBVIOUS
  <2>2. -n <= -m
    BY <1>2, <1>3, <2>1
  <2> QED
    BY <2>1, <2>2
<1> QED
  BY <1>4

LEMMA MinOf ==
  ASSUME NEW S, S \subseteq Int, S # {}, NEW low \in Int, \A n \in S : low <= n
  PROVE  Min(S) \in S /\ \A m \in S : Min(S) <= m
<1>1. \E n \in S : \A m \in S : n <= m
  BY Least
<1> QED
  BY <1>1, Zenon DEF Min

LEMMA MaxOf ==
  ASSUME NEW S, S \subseteq Int, S # {}, NEW high \in Int, \A n \in S : n <= high
  PROVE  Max(S) \in S /\ \A m \in S : m <= Max(S)
<1>1. \E n \in S : \A m \in S : n >= m
  BY Greatest
<1> QED
  BY <1>1 DEF Max

(* Induction along an interval, for the numbers of a set.                  *)
LEMMA Downwards ==
  ASSUME NEW a \in Int, NEW b \in Int, NEW T,
         \A i \in a..b : (\A j \in (i + 1)..b : j \in T) => i \in T
  PROVE  \A i \in a..b : i \in T
<1> DEFINE Bad == {i \in a..b : i \notin T}
<1>1. SUFFICES ASSUME Bad # {} PROVE FALSE
  OBVIOUS
<1>2. Bad \subseteq Int /\ \A n \in Bad : n <= b
  OBVIOUS
<1>3. PICK i \in Bad : \A m \in Bad : m <= i
  <2> HIDE DEF Bad
  <2> QED
    BY <1>1, <1>2, Greatest
<1>4. \A j \in (i + 1)..b : j \in T
  BY <1>3
<1> QED
  BY <1>3, <1>4

LEMMA Upwards ==
  ASSUME NEW a \in Int, NEW b \in Int, NEW T,
         \A i \in a..b : (\A j \in a..(i - 1) : j \in T) => i \in T
  PROVE  \A i \in a..b : i \in T
<1> DEFINE Bad == {i \in a..b : i \notin T}
<1>1. SUFFICES ASSUME Bad # {} PROVE FALSE
  OBVIOUS
<1>2. Bad \subseteq Int /\ \A n \in Bad : a <= n
  OBVIOUS
<1>3. PICK i \in Bad : \A m \in Bad : i <= m
  <2> HIDE DEF Bad
  <2> QED
    BY <1>1, <1>2, Least
<1>4. \A j \in a..(i - 1) : j \in T
  BY <1>3
<1> QED
  BY <1>3, <1>4

-----------------------------------------------------------------------------
(* A recursive function exists: G gives from a function of F the next      *)
(* approximation, and looks for a value of rank n at values of lower rank  *)
(* only.                                                                   *)
FunctionsOn(S, F, G) ==
  /\ F # {} /\ G \in [F -> F]
  /\ \A f \in F : f = [i \in S |-> f[i]]

ByRank(S, F, G, rank, n) ==
  /\ rank \in [S -> Nat] /\ n \in Nat
  /\ \A i \in S : rank[i] < n
  /\ \A f, g \in F, i \in S :
       (\A j \in S : rank[j] < rank[i] => f[j] = g[j]) => G[f][i] = G[g][i]

LEMMA FixedPoint ==
  ASSUME NEW S, NEW F, NEW G, NEW rank, NEW n,
         FunctionsOn(S, F, G), ByRank(S, F, G, rank, n)
  PROVE  \E f \in F : f = G[f]
<1> USE DEF FunctionsOn, ByRank
<1> DEFINE T == {k \in Nat : \E f \in F : \A i \in S : rank[i] < k => f[i] = G[f][i]}
<1>1. 0 \in T
  OBVIOUS
<1>2. ASSUME NEW k \in 1..n, k - 1 \in T PROVE k \in T
  <2>1. PICK f \in F : \A i \in S : rank[i] < k - 1 => f[i] = G[f][i]
    BY <1>2
  <2>2. ASSUME NEW i \in S, rank[i] < k PROVE G[f][i] = G[G[f]][i]
    <3>1. ASSUME NEW j \in S, rank[j] < rank[i] PROVE f[j] = G[f][j]
      BY <2>1, <2>2, <3>1
    <3> QED
      BY <3>1
  <2> QED
    BY <2>2
<1>3. n \in T
  <2> HIDE DEF T
  <2>1. ASSUME NEW k \in 0..n, \A j \in 0..(k - 1) : j \in T PROVE k \in T
    <3>1. CASE k = 0
      BY <1>1, <3>1
    <3>2. CASE k # 0
      <4>1. k \in 1..n /\ k - 1 \in 0..(k - 1)
        BY <3>2
      <4> QED
        BY <1>2, <2>1, <4>1
    <3> QED
      BY <3>1, <3>2
  <2>2. \A k \in 0..n : k \in T
    <3>1. n \in Int /\ 0 \in Int
      OBVIOUS
    <3> QED
      BY <2>1, <3>1, Upwards
  <2> QED
    BY <2>2
<1>4. PICK f \in F : \A i \in S : f[i] = G[f][i]
  BY <1>3
<1>5. f = [i \in S |-> f[i]] /\ G[f] = [i \in S |-> G[f][i]]
  OBVIOUS
<1> QED
  BY <1>4, <1>5

-----------------------------------------------------------------------------
(* Finite sets of integers, and ranks in them.                             *)

LEMMA FiniteIsBounded ==
  ASSUME NEW S, S \subseteq Int, IsFiniteSet(S)
  PROVE  \E low, high \in Int : S \subseteq low..high
<1>1. PICK seq \in Seq(S) : \A s \in S : \E n \in 1..Len(seq) : seq[n] = s
  BY DEF IsFiniteSet
<1> DEFINE n == Len(seq)
           T == {k \in Nat : \E low, high \in Int : \A m \in 1..k : seq[m] \in low..high}
<1>2. n \in Nat /\ \A m \in 1..n : seq[m] \in Int
  <2>1. n \in Nat
    BY LenProperties
  <2>2. \A m \in 1..n : seq[m] \in S
    BY ElementOfSeq
  <2> QED
    BY <2>1, <2>2
<1>3. 0 \in T
  <2>1. \A m \in 1..0 : seq[m] \in 0..0
    OBVIOUS
  <2> QED
    BY <2>1
<1>4. ASSUME NEW k \in 1..n, k - 1 \in T PROVE k \in T
  <2>1. PICK low, high \in Int : \A m \in 1..(k - 1) : seq[m] \in low..high
    BY <1>4
  <2> DEFINE lower == IF seq[k] < low THEN seq[k] ELSE low
             higher == IF seq[k] > high THEN seq[k] ELSE high
  <2>2. lower \in Int /\ higher \in Int
    BY <1>2
  <2>3. ASSUME NEW m \in 1..k PROVE seq[m] \in lower..higher
    BY <1>2, <2>1
  <2> HIDE DEF lower, higher
  <2>4. k \in Nat
    BY <1>2
  <2> QED
    BY <2>2, <2>3, <2>4
<1>5. n \in T
  <2> HIDE DEF T, n
  <2>1. ASSUME NEW k \in 0..n, \A j \in 0..(k - 1) : j \in T PROVE k \in T
    <3>1. CASE k = 0
      BY <1>3, <3>1
    <3>2. CASE k # 0
      <4>1. k \in 1..n /\ k - 1 \in 0..(k - 1)
        BY <1>2, <3>2
      <4> QED
        BY <1>4, <2>1, <4>1
    <3> QED
      BY <3>1, <3>2
  <2>2. \A k \in 0..n : k \in T
    <3>1. n \in Int /\ 0 \in Int
      BY <1>2
    <3> QED
      BY <2>1, <3>1, Upwards
  <2> QED
    BY <1>2, <2>2
<1>6. PICK low, high \in Int : \A m \in 1..n : seq[m] \in low..high
  BY <1>5
<1>7. S \subseteq low..high
  BY <1>1, <1>6
<1> QED
  BY <1>7

LEMMA IntervalIsFinite ==
  ASSUME NEW a \in Int, NEW b \in Int, NEW S, S \subseteq a..b
  PROVE  IsFiniteSet(S) /\ Cardinality(S) \in Nat
BY FS_Interval, FS_Subset, FS_CardinalityType

(* Among finitely many numbers, with those that are equal counted each,    *)
(* there is a k-th in their order.                                         *)
PlacesBelow(I, f, w) == {i \in I : f[i] < w}
PlacesUpTo(I, f, w) == {i \in I : f[i] <= w}

LEMMA Ranked ==
  ASSUME NEW I, IsFiniteSet(I), NEW f \in [I -> Int], NEW k \in 1..Cardinality(I)
  PROVE  \E i \in I : /\ Cardinality(PlacesBelow(I, f, f[i])) < k
                      /\ Cardinality(PlacesUpTo(I, f, f[i])) >= k
<1> USE DEF PlacesBelow, PlacesUpTo
<1> DEFINE V == {f[i] : i \in I}
           Below(w) == PlacesBelow(I, f, w)
           UpTo(w) == PlacesUpTo(I, f, w)
           G == {w \in V : Cardinality(UpTo(w)) >= k}
<1>1. f \in Surjection(I, V)
  BY DEF Surjection
<1>2. IsFiniteSet(V) /\ V \subseteq Int
  <2>1. IsFiniteSet(V)
    <3> HIDE DEF V
    <3> QED
      BY <1>1, FS_Surjection
  <2> QED
    BY <2>1
<1>3. PICK low, high \in Int : V \subseteq low..high
  <2> HIDE DEF V
  <2> QED
    BY <1>2, FiniteIsBounded
<1>4. \A w \in Int : /\ Cardinality(UpTo(w)) \in Nat
                    /\ Cardinality(Below(w)) \in Nat
  <2>1. \A w \in Int : UpTo(w) \subseteq I /\ Below(w) \subseteq I
    OBVIOUS
  <2> HIDE DEF UpTo, Below, PlacesBelow, PlacesUpTo
  <2> QED
    BY <2>1, FS_Subset, FS_CardinalityType
<1>5. I # {}
  BY FS_EmptySet
<1>6. PICK top \in V : \A v \in V : v <= top
  <2>1. V # {} /\ V \subseteq Int /\ \A v \in V : v <= high
    BY <1>2, <1>3, <1>5
  <2> HIDE DEF V
  <2> QED
    BY <2>1, Greatest
<1>7. top \in G
  <2>1. UpTo(top) = I
    BY <1>6
  <2>2. Cardinality(I) >= k
    BY FS_CardinalityType
  <2> QED
    BY <2>1, <2>2
<1>8. PICK w \in G : \A v \in G : w <= v
  <2>1. G \subseteq Int /\ \A v \in G : low <= v
    BY <1>2, <1>3
  <2>2. G # {}
    BY <1>7
  <2> HIDE DEF G
  <2> QED
    BY <2>1, <2>2, Least
<1>9. SUFFICES ASSUME ~(Cardinality(Below(w)) < k) PROVE FALSE
  <2>1. PICK i \in I : w = f[i] /\ Cardinality(UpTo(w)) >= k
    OBVIOUS
  <2> QED
    BY <1>9, <2>1
<1>10. PICK v \in V : v < w /\ \A u \in V : u < w => u <= v
  <2> DEFINE L == {u \in V : u < w}
  <2>1. Below(w) # {}
    <3>1. Cardinality({}) = 0 /\ ~(0 >= k)
      BY FS_EmptySet
    <3>2. Cardinality(Below(w)) >= k
      BY <1>2, <1>4, <1>9
    <3> QED
      BY <3>1, <3>2
  <2>2. L # {}
    BY <2>1
  <2>3. L \subseteq Int /\ \A u \in L : u <= high
    BY <1>2, <1>3
  <2>4. \E v \in L : \A u \in L : u <= v
    <3> HIDE DEF L
    <3> QED
      BY <2>2, <2>3, Greatest
  <2> QED
    BY <2>4
<1>11. UpTo(v) = Below(w)
  BY <1>2, <1>10
<1>12. v \in G
  <2>1. Cardinality(UpTo(v)) >= k
    BY <1>2, <1>4, <1>9, <1>11
  <2> QED
    BY <2>1
<1> QED
  BY <1>2, <1>8, <1>10, <1>12

(* A recursive function over an interval, whose value at a place is made   *)
(* from those at the places after it.                                      *)
ByLaterPlaces(a, b, F, G) ==
  \A f, g \in F, i \in a..b :
    (\A j \in (i + 1)..b : f[j] = g[j]) => G[f][i] = G[g][i]

LEMMA FromTheEnd ==
  ASSUME NEW a \in Int, NEW b \in Int, NEW F, NEW G,
         FunctionsOn(a..b, F, G), ByLaterPlaces(a, b, F, G)
  PROVE  \E f \in F : f = G[f]
<1> DEFINE S == a..b
           rank == [i \in S |-> b - i]
           n == IF a <= b THEN b - a + 1 ELSE 0
<1>1. rank \in [S -> Nat] /\ n \in Nat /\ \A i \in S : rank[i] < n
  OBVIOUS
<1>2. FunctionsOn(S, F, G)
  OBVIOUS
<1>3. ASSUME NEW f \in F, NEW g \in F, NEW i \in S,
             \A j \in S : rank[j] < rank[i] => f[j] = g[j]
      PROVE  G[f][i] = G[g][i]
  <2>1. ASSUME NEW j \in (i + 1)..b PROVE f[j] = g[j]
    BY <1>3
  <2> QED
    BY <2>1 DEF ByLaterPlaces
<1>4. \A f, g \in F, i \in S :
        (\A j \in S : rank[j] < rank[i] => f[j] = g[j]) => G[f][i] = G[g][i]
  <2> HIDE DEF S, rank, n
  <2> QED
    BY <1>3, Zenon
<1>5. ByRank(S, F, G, rank, n)
  <2> HIDE DEF S, rank, n
  <2> QED
    BY <1>1, <1>4 DEF ByRank
<1> HIDE DEF S, rank, n
<1> QED
  BY <1>2, <1>5, FixedPoint

(* The same from the places before it.                                     *)
ByEarlierPlaces(a, b, F, G) ==
  \A f, g \in F, i \in a..b :
    (\A j \in a..(i - 1) : f[j] = g[j]) => G[f][i] = G[g][i]

LEMMA FromTheFront ==
  ASSUME NEW a \in Int, NEW b \in Int, NEW F, NEW G,
         FunctionsOn(a..b, F, G), ByEarlierPlaces(a, b, F, G)
  PROVE  \E f \in F : f = G[f]
<1> DEFINE S == a..b
           rank == [i \in S |-> i - a]
           n == IF a <= b THEN b - a + 1 ELSE 0
<1>1. rank \in [S -> Nat] /\ n \in Nat /\ \A i \in S : rank[i] < n
  OBVIOUS
<1>2. FunctionsOn(S, F, G)
  OBVIOUS
<1>3. ASSUME NEW f \in F, NEW g \in F, NEW i \in S,
             \A j \in S : rank[j] < rank[i] => f[j] = g[j]
      PROVE  G[f][i] = G[g][i]
  <2>1. ASSUME NEW j \in a..(i - 1) PROVE f[j] = g[j]
    BY <1>3
  <2> QED
    BY <2>1 DEF ByEarlierPlaces
<1>4. \A f, g \in F, i \in S :
        (\A j \in S : rank[j] < rank[i] => f[j] = g[j]) => G[f][i] = G[g][i]
  <2> HIDE DEF S, rank, n
  <2> QED
    BY <1>3, Zenon
<1>5. ByRank(S, F, G, rank, n)
  <2> HIDE DEF S, rank, n
  <2> QED
    BY <1>1, <1>4 DEF ByRank
<1> HIDE DEF S, rank, n
<1> QED
  BY <1>2, <1>5, FixedPoint

LEMMA MaxOfImage ==
  ASSUME NEW S, IsFiniteSet(S), S # {}, NEW f \in [S -> Int]
  PROVE  /\ \E i \in S : f[i] = Max({f[j] : j \in S})
         /\ \A i \in S : f[i] <= Max({f[j] : j \in S})
<1> DEFINE V == {f[j] : j \in S}
<1>1. f \in Surjection(S, V)
  BY DEF Surjection
<1>2. V \subseteq Int /\ V # {}
  OBVIOUS
<1>3. IsFiniteSet(V)
  <2> HIDE DEF V
  <2> QED
    BY <1>1, FS_Surjection
<1>4. Max(V) \in V /\ \A v \in V : v <= Max(V)
  <2> HIDE DEF V
  <2>1. PICK low, high \in Int : V \subseteq low..high
    BY <1>2, <1>3, FiniteIsBounded
  <2>2. \A v \in V : v <= high
    BY <2>1
  <2> QED
    BY <1>2, <2>2, MaxOf
<1>5. PICK i \in S : f[i] = Max(V)
  BY <1>4
<1> QED
  BY <1>4, <1>5

-----------------------------------------------------------------------------
(* The dictionary.                                                         *)

LEMMA SortedType ==
  ASSUME NEW k \in 1..Len(DictLines)
  PROVE  Sorted(k) \in Int
<1> DEFINE I == 1..Len(DictLines)
           f == [i \in I |-> DictLines[i][2]]
<1>1. Len(DictLines) \in Nat /\ \A i \in I : DictLines[i][2] \in Int
  BY SegmenterAssumption DEF Weights
<1>2. IsFiniteSet(I) /\ Cardinality(I) = Len(DictLines)
  <2>1. 1 \in Int /\ Len(DictLines) \in Int /\ 1 <= Len(DictLines)
    BY <1>1
  <2> QED
    BY <2>1, FS_Interval
<1>3. f \in [I -> Int] /\ \A i \in I : f[i] = DictLines[i][2]
  BY <1>1
<1>4. PICK i \in I : /\ Cardinality(PlacesBelow(I, f, f[i])) < k
                     /\ Cardinality(PlacesUpTo(I, f, f[i])) >= k
  <2>1. k \in 1..Cardinality(I)
    BY <1>2
  <2> HIDE DEF I, f
  <2> QED
    BY <1>2, <1>3, <2>1, Ranked
<1>5. \E w \in {DictLines[n][2] : n \in I} :
        /\ Cardinality({n \in I : DictLines[n][2] < w}) < k
        /\ Cardinality({n \in I : DictLines[n][2] <= w}) >= k
  BY <1>4 DEF PlacesBelow, PlacesUpTo
<1>6. Sorted(k) \in {DictLines[n][2] : n \in I}
  BY <1>5, Zenon DEF Sorted
<1> QED
  BY <1>1, <1>6

LEMMA DefaultWeightType == MinWeight \in Int /\ UserWordDefaultWeight \in Int
<1>1. 1 \in 1..Len(DictLines) /\ (Len(DictLines) \div 2) + 1 \in 1..Len(DictLines)
  BY SegmenterAssumption
<1> QED
  BY <1>1, SortedType DEF MinWeight, UserWordDefaultWeight

LEMMA LineOfWord ==
  ASSUME NEW lines, Len(lines) \in Nat, NEW w \in Words(lines)
  PROVE  \E i \in 1..Len(lines) : WeightIn(lines, w) = lines[i]
<1> DEFINE P == {i \in 1..Len(lines) : lines[i][1] = w}
<1>1. P # {} /\ P \subseteq Int /\ \A i \in P : i <= Len(lines)
  BY DEF Words
<1>2. Max(P) \in P
  <2>1. Len(lines) \in Int
    OBVIOUS
  <2> HIDE DEF P
  <2> QED
    BY <1>1, <2>1, MaxOf
<1> QED
  BY <1>2 DEF WeightIn

LEMMA TrieType == \A w \in DOMAIN Trie : Trie[w] \in Int
<1> SUFFICES ASSUME NEW w \in DOMAIN Trie PROVE Trie[w] \in Int
  OBVIOUS
<1>1. CASE w \in Words(UserLines)
  <2>1. PICK i \in 1..Len(UserLines) : WeightIn(UserLines, w) = UserLines[i]
    BY <1>1, LineOfWord, SegmenterAssumption
  <2>2. Len(UserLines[i]) = 2 => UserLines[i][2] \in Int
    BY SegmenterAssumption
  <2>3. Trie[w] = IF Len(UserLines[i]) = 2 THEN UserLines[i][2] ELSE UserWordDefaultWeight
    BY <1>1, <2>1 DEF Trie
  <2> QED
    BY <2>2, <2>3, DefaultWeightType
<1>2. CASE w \notin Words(UserLines)
  <2>1. w \in Words(DictLines)
    BY <1>2 DEF Trie
  <2>2. PICK i \in 1..Len(DictLines) : WeightIn(DictLines, w) = DictLines[i]
    BY <2>1, LineOfWord, SegmenterAssumption
  <2>3. Trie[w] = DictLines[i][2]
    BY <1>2, <2>2 DEF Trie
  <2> QED
    BY <2>3, SegmenterAssumption DEF Weights
<1> QED
  BY <1>1, <1>2

LEMMA UnitWeightType ==
  ASSUME NEW s, NEW i, NEW j
  PROVE  UnitWeight(s, i, j) \in Int
BY TrieType, DefaultWeightType DEF UnitWeight, InTrie

LEMMA NextsFacts ==
  ASSUME NEW s, NEW last \in Int, NEW i \in Int, i <= last
  PROVE  /\ Nexts(s, i, last) \subseteq i..last
         /\ i \in Nexts(s, i, last)
         /\ IsFiniteSet(Nexts(s, i, last))
<1>1. Nexts(s, i, last) \subseteq i..last /\ i \in Nexts(s, i, last)
  BY DEF Nexts
<1> QED
  BY <1>1, IntervalIsFinite

-----------------------------------------------------------------------------
(* CalcDP.                                                                 *)

Dag == [weight : Int, end : Int]

(* Weights and ends of the places i..last.                                 *)
Dags(i, last) == {dags \in Seq(Dag) : Len(dags) = last + 1 - i}

BestDag(s, i, last, rest) ==
  LET nexts == Nexts(s, i, last)
      weight == Max({ValueOf(s, i, j, last, rest) : j \in nexts})
      ends == {j \in nexts : ValueOf(s, i, j, last, rest) = weight}
  IN  [weight |-> weight, end |-> Min(ends)]

(* A dag is the best for its place when rest are those after it.           *)
IsBest(dag, s, i, last, rest) ==
  /\ dag.end \in Nexts(s, i, last)
  /\ dag.weight = ValueOf(s, i, dag.end, last, rest)
  /\ \A j \in Nexts(s, i, last) : ValueOf(s, i, j, last, rest) <= dag.weight

LEMMA ValueOfType ==
  ASSUME NEW s, NEW last \in Int, NEW i \in Int, NEW rest \in Dags(i + 1, last), NEW j \in i..last
  PROVE  ValueOf(s, i, j, last, rest) \in Int
<1>1. CASE j = last
  BY <1>1, UnitWeightType DEF ValueOf
<1>2. CASE j # last
  <2>1. Len(rest) = last - i /\ rest \in Seq(Dag)
    BY DEF Dags
  <2>2. j + 1 - i \in 1..Len(rest)
    BY <1>2, <2>1
  <2>3. rest[j + 1 - i] \in Dag
    BY <2>1, <2>2, ElementOfSeq
  <2> QED
    BY <1>2, <2>3, UnitWeightType DEF ValueOf, Dag
<1> QED
  BY <1>1, <1>2

LEMMA BestDagIsBest ==
  ASSUME NEW s, NEW last \in Int, NEW i \in Int, i <= last, NEW rest \in Dags(i + 1, last)
  PROVE  /\ BestDag(s, i, last, rest) \in Dag
         /\ IsBest(BestDag(s, i, last, rest), s, i, last, rest)
<1> DEFINE nexts == Nexts(s, i, last)
           value == [j \in nexts |-> ValueOf(s, i, j, last, rest)]
           weight == Max({ValueOf(s, i, j, last, rest) : j \in nexts})
           ends == {j \in nexts : ValueOf(s, i, j, last, rest) = weight}
<1>1. nexts \subseteq i..last /\ i \in nexts /\ IsFiniteSet(nexts)
  BY NextsFacts
<1>2. value \in [nexts -> Int]
  BY <1>1, ValueOfType
<1>3. {value[j] : j \in nexts} = {ValueOf(s, i, j, last, rest) : j \in nexts}
  OBVIOUS
<1>4. /\ \E j \in nexts : value[j] = weight
      /\ \A j \in nexts : value[j] <= weight
  <2>1. /\ \E j \in nexts : value[j] = Max({value[k] : k \in nexts})
        /\ \A j \in nexts : value[j] <= Max({value[k] : k \in nexts})
    <3>1. nexts # {}
      BY <1>1
    <3> HIDE DEF nexts, value
    <3> QED
      BY <1>1, <1>2, <3>1, MaxOfImage
  <2> QED
    BY <1>3, <2>1
<1>5. /\ ends # {}
      /\ ends \subseteq Int
      /\ \A n \in ends : i <= n
  <2>1. PICK j \in nexts : value[j] = weight
    BY <1>4
  <2>2. j \in ends
    BY <2>1
  <2>3. \A n \in ends : n \in i..last
    BY <1>1
  <2> HIDE DEF ends
  <2> QED
    BY <2>2, <2>3
<1>6. Min(ends) \in ends
  <2> HIDE DEF ends
  <2> QED
    BY <1>5, MinOf
<1>7. BestDag(s, i, last, rest) = [weight |-> weight, end |-> Min(ends)]
  BY DEF BestDag
<1>8. weight \in Int /\ Min(ends) \in Int
  BY <1>1, <1>2, <1>4, <1>6
<1> HIDE DEF ends, weight
<1>9. Min(ends) \in nexts /\ ValueOf(s, i, Min(ends), last, rest) = weight
  BY <1>6 DEF ends
<1>10. \A j \in nexts : ValueOf(s, i, j, last, rest) <= weight
  BY <1>4
<1> HIDE DEF nexts, value
<1> QED
  BY <1>7, <1>8, <1>9, <1>10 DEF Dag, IsBest, nexts

(* CalcDP's dags from a place on, for every place.                         *)
DagsFrom(s, first, last, f) ==
  [i \in first..(last + 1) |-> IF i > last THEN << >> ELSE <<BestDag(s, i, last, f[i + 1])>> \o f[i + 1]]

LEMMA DagsExist ==
  ASSUME NEW s, NEW first \in Int, NEW last \in Int, first <= last + 1
  PROVE  \E f : f = DagsFrom(s, first, last, f) /\ CalcDP(s, first, last) = f[first]
<1> DEFINE P == first..(last + 1)
           F == {f \in [P -> Seq(Dag)] : \A i \in P : f[i] \in Dags(i, last)}
           G == [f \in F |-> DagsFrom(s, first, last, f)]
<1>1. ASSUME NEW i \in P, i <= last, NEW rest \in Dags(i + 1, last)
      PROVE  <<BestDag(s, i, last, rest)>> \o rest \in Dags(i, last)
  <2>1. BestDag(s, i, last, rest) \in Dag
    BY <1>1, BestDagIsBest
  <2> QED
    BY <2>1 DEF Dags
<1>2. G \in [F -> F]
  <2> SUFFICES ASSUME NEW f \in F PROVE DagsFrom(s, first, last, f) \in F
    OBVIOUS
  <2>1. ASSUME NEW i \in P PROVE DagsFrom(s, first, last, f)[i] \in Dags(i, last)
    <3>1. CASE i > last
      BY <3>1 DEF DagsFrom, Dags
    <3>2. CASE i <= last
      <4>1. i + 1 \in P /\ f[i + 1] \in Dags(i + 1, last)
        BY <3>2
      <4> QED
        BY <1>1, <3>2, <4>1 DEF DagsFrom
    <3> QED
      BY <3>1, <3>2
  <2>2. DagsFrom(s, first, last, f) \in [P -> Seq(Dag)]
    BY <2>1 DEF DagsFrom, Dags
  <2> QED
    BY <2>1, <2>2
<1>3. F # {}
  <2>1. PICK dag \in Dag : TRUE
    <3>1. [weight |-> 0, end |-> 0] \in Dag
      BY DEF Dag
    <3> QED
      BY <3>1
  <2> DEFINE f == [i \in P |-> [k \in 1..(last + 1 - i) |-> dag]]
  <2>2. ASSUME NEW i \in P PROVE f[i] \in Dags(i, last)
    BY <2>1 DEF Dags
  <2>3. f \in [P -> Seq(Dag)]
    BY <2>2 DEF Dags
  <2> QED
    BY <2>2, <2>3
<1>4. FunctionsOn(P, F, G)
  BY <1>2, <1>3 DEF FunctionsOn
<1>5. ByLaterPlaces(first, last + 1, F, G)
  <2> SUFFICES ASSUME NEW f \in F, NEW g \in F, NEW i \in P, \A j \in (i + 1)..(last + 1) : f[j] = g[j]
               PROVE  G[f][i] = G[g][i]
    BY DEF ByLaterPlaces
  <2>1. i <= last => f[i + 1] = g[i + 1]
    OBVIOUS
  <2>2. DagsFrom(s, first, last, f)[i] = DagsFrom(s, first, last, g)[i]
    <3>1. CASE i > last
      BY <3>1 DEF DagsFrom
    <3>2. CASE ~(i > last)
      <4>1. f[i + 1] = g[i + 1]
        BY <2>1, <3>2
      <4> QED
        BY <4>1 DEF DagsFrom
    <3> QED
      BY <3>1, <3>2
  <2> QED
    BY <2>2
<1>6. \E f \in F : f = G[f]
  <2>1. last + 1 \in Int
    OBVIOUS
  <2> HIDE DEF F, G
  <2> QED
    BY <1>4, <1>5, <2>1, FromTheEnd
<1> DEFINE dags == CHOOSE f : f = DagsFrom(s, first, last, f)
<1>7. dags = DagsFrom(s, first, last, dags)
  BY <1>6, Zenon
<1>8. CalcDP(s, first, last) = dags[first]
  BY Zenon DEF CalcDP, DagsFrom, BestDag
<1> HIDE DEF dags
<1> QED
  BY <1>7, <1>8

LEMMA Prefixed ==
  ASSUME NEW X, NEW x \in X, NEW rest \in Seq(X)
  PROVE  /\ (<<x>> \o rest)[1] = x
         /\ \A k \in 2..(Len(rest) + 1) : (<<x>> \o rest)[k] = rest[k - 1]
BY LenProperties, ConcatProperties

(* What CalcDP makes of the places first..last: the k-th dag is that of    *)
(* the k-th place, and each is the best for its place with those after it. *)
LEMMA CalcDPIsBest ==
  ASSUME NEW s, NEW first \in Int, NEW last \in Int, first <= last + 1
  PROVE  /\ CalcDP(s, first, last) \in Dags(first, last)
         /\ \A i \in first..last :
              \E rest \in Dags(i + 1, last) :
                /\ IsBest(CalcDP(s, first, last)[i + 1 - first], s, i, last, rest)
                /\ \A j \in (i + 1)..last : rest[j - i] = CalcDP(s, first, last)[j + 1 - first]
<1> DEFINE P == first..(last + 1)
<1>1. PICK f : f = DagsFrom(s, first, last, f) /\ CalcDP(s, first, last) = f[first]
  BY DagsExist
<1>2. ASSUME NEW i \in P
      PROVE  /\ i > last => f[i] = << >> /\ i = last + 1
             /\ ~(i > last) => f[i] = <<BestDag(s, i, last, f[i + 1])>> \o f[i + 1]
  <2>1. DagsFrom(s, first, last, f)[i] = IF i > last THEN << >>
                                         ELSE <<BestDag(s, i, last, f[i + 1])>> \o f[i + 1]
    BY DEF DagsFrom
  <2>2. f[i] = DagsFrom(s, first, last, f)[i]
    <3> HIDE DEF P
    <3> QED
      BY <1>1, Zenon
  <2> QED
    BY <2>1, <2>2
<1> DEFINE T == {i \in P : f[i] \in Dags(i, last)}
<1>3. ASSUME NEW i \in P, \A j \in (i + 1)..(last + 1) : j \in T PROVE i \in T
  <2>1. CASE i > last
    <3>1. f[i] = << >> /\ i = last + 1
      BY <1>2, <2>1
    <3>2. f[i] \in Seq(Dag) /\ Len(f[i]) = 0
      BY <3>1
    <3>3. 0 = last + 1 - i
      BY <3>1
    <3>4. f[i] \in Dags(i, last)
      BY <3>2, <3>3 DEF Dags
    <3> QED
      BY <3>4
  <2>2. CASE ~(i > last)
    <3>1. f[i + 1] \in Dags(i + 1, last) /\ i <= last /\ i \in Int
      <4>1. i + 1 \in (i + 1)..(last + 1) /\ i <= last /\ i \in Int
        BY <2>2
      <4>2. i + 1 \in T
        BY <1>3, <4>1
      <4> QED
        BY <4>1, <4>2
    <3>2. BestDag(s, i, last, f[i + 1]) \in Dag
      BY <3>1, BestDagIsBest
    <3>3. f[i] = <<BestDag(s, i, last, f[i + 1])>> \o f[i + 1]
      BY <1>2, <2>2
    <3>4. f[i] \in Dags(i, last)
      BY <3>1, <3>2, <3>3 DEF Dags
    <3> QED
      BY <3>4
  <2> QED
    BY <2>1, <2>2
<1>4. \A i \in P : f[i] \in Dags(i, last)
  <2>1. \A i \in P : i \in T
    <3>1. last + 1 \in Int
      OBVIOUS
    <3> HIDE DEF T
    <3> QED
      BY <1>3, <3>1, Downwards
  <2> QED
    BY <2>1
<1> DEFINE Unfolds(i) == /\ i + 1 \in P /\ i \in P
                         /\ f[i + 1] \in Dags(i + 1, last)
                         /\ f[i] = <<BestDag(s, i, last, f[i + 1])>> \o f[i + 1]
                         /\ BestDag(s, i, last, f[i + 1]) \in Dag
<1>5. ASSUME NEW i \in first..last PROVE Unfolds(i)
  <2>1. i + 1 \in P /\ i \in P /\ ~(i > last) /\ i <= last /\ i \in Int
    OBVIOUS
  <2>2. f[i + 1] \in Dags(i + 1, last)
    BY <1>4, <2>1
  <2> QED
    BY <1>2, <2>1, <2>2, BestDagIsBest
<1>6. ASSUME NEW i \in first..last
      PROVE  /\ f[i][1] = BestDag(s, i, last, f[i + 1])
             /\ \A k \in 2..(last + 1 - i) : f[i][k] = f[i + 1][k - 1]
  <2>1. Unfolds(i)
    <3> HIDE DEF Unfolds
    <3> QED
      BY <1>5
  <2>2. f[i + 1] \in Seq(Dag) /\ Len(f[i + 1]) + 1 = last + 1 - i
    BY <2>1 DEF Dags
  <2> QED
    BY <2>1, <2>2, Prefixed
(* The dags from i on hold those from any later place on.                  *)
<1> DEFINE U == {i \in P : \A j \in i..last : f[first][j + 1 - first] = f[i][j + 1 - i]}
<1>8. ASSUME NEW i \in P, \A k \in first..(i - 1) : k \in U PROVE i \in U
  <2>1. CASE i = first
    BY <2>1
  <2>2. CASE i # first
    <3>1. i - 1 \in U /\ i - 1 \in first..last
      <4>1. i - 1 \in first..(i - 1) /\ i - 1 \in first..last
        BY <2>2
      <4> QED
        BY <1>8, <4>1
    <3>2. ASSUME NEW j \in i..last PROVE f[first][j + 1 - first] = f[i][j + 1 - i]
      <4>1. f[first][j + 1 - first] = f[i - 1][j + 2 - i]
        BY <3>1
      <4>2. j + 2 - i \in 2..(last + 1 - (i - 1))
        OBVIOUS
      <4>3. f[i - 1][j + 2 - i] = f[(i - 1) + 1][(j + 2 - i) - 1]
        BY <1>6, <3>1, <4>2
      <4> QED
        BY <4>1, <4>3
    <3> QED
      BY <3>2
  <2> QED
    BY <2>1, <2>2
<1>9. \A i \in P : i \in U
  <2>1. last + 1 \in Int
    OBVIOUS
  <2> HIDE DEF U
  <2> QED
    BY <1>8, <2>1, Upwards
<1>10. ASSUME NEW i \in first..last
       PROVE  \E rest \in Dags(i + 1, last) :
                /\ IsBest(f[first][i + 1 - first], s, i, last, rest)
                /\ \A j \in (i + 1)..last : rest[j - i] = f[first][j + 1 - first]
  <2>0. Unfolds(i)
    <3> HIDE DEF Unfolds
    <3> QED
      BY <1>5
  <2>1. i \in U /\ i + 1 \in U
    BY <2>0, <1>9
  <2>2. f[first][i + 1 - first] = BestDag(s, i, last, f[i + 1])
    <3>1. f[i][1] = BestDag(s, i, last, f[i + 1])
      BY <1>6
    <3>2. i \in i..last /\ i + 1 - i = 1
      OBVIOUS
    <3>3. \A j \in i..last : f[first][j + 1 - first] = f[i][j + 1 - i]
      BY <2>1
    <3>4. f[first][i + 1 - first] = f[i][i + 1 - i]
      BY <3>2, <3>3
    <3> QED
      BY <3>1, <3>2, <3>4
  <2>3. \A j \in (i + 1)..last : f[i + 1][j - i] = f[first][j + 1 - first]
    BY <2>1
  <2>4. IsBest(BestDag(s, i, last, f[i + 1]), s, i, last, f[i + 1])
    <3>1. f[i + 1] \in Dags(i + 1, last) /\ i \in Int /\ i <= last
      BY <2>0
    <3> QED
      BY <3>1, BestDagIsBest
  <2> QED
    BY <2>0, <2>2, <2>3, <2>4
<1> QED
  BY <1>1, <1>4, <1>10

-----------------------------------------------------------------------------
(* Cuts.  Ranges tile some places when each of the places is in exactly    *)
(* one of them, and they hold no other.                                    *)

Tiles(C, P) ==
  /\ C \subseteq Int \X Int
  /\ \A w \in C : w[1] <= w[2] /\ w[1]..w[2] \subseteq P
  /\ \A i \in P : \E w \in C : i \in w[1]..w[2] /\ \A v \in C : i \in v[1]..v[2] => v = w

LEMMA TilesNothing == Tiles({}, {})
BY DEF Tiles

LEMMA TilesOne ==
  ASSUME NEW i \in Int, NEW j \in Int, i <= j
  PROVE  Tiles({<<i, j>>}, i..j)
BY DEF Tiles

LEMMA TilesBoth ==
  ASSUME NEW C, NEW P, NEW D, NEW Q, Tiles(C, P), Tiles(D, Q), P \cap Q = {}
  PROVE  Tiles(C \cup D, P \cup Q)
<1>1. C \cup D \subseteq Int \X Int
  BY DEF Tiles
<1>2. \A w \in C \cup D : w[1] <= w[2] /\ w[1]..w[2] \subseteq P \cup Q
  BY DEF Tiles
<1>3. ASSUME NEW i \in P PROVE \E w \in C : i \in w[1]..w[2] /\ \A v \in C \cup D : i \in v[1]..v[2] => v = w
  <2>1. PICK w \in C : i \in w[1]..w[2] /\ \A v \in C : i \in v[1]..v[2] => v = w
    BY DEF Tiles
  <2>2. \A v \in D : i \notin v[1]..v[2]
    BY DEF Tiles
  <2> QED
    BY <2>1, <2>2
<1>4. ASSUME NEW i \in Q PROVE \E w \in D : i \in w[1]..w[2] /\ \A v \in C \cup D : i \in v[1]..v[2] => v = w
  <2>1. PICK w \in D : i \in w[1]..w[2] /\ \A v \in D : i \in v[1]..v[2] => v = w
    BY DEF Tiles
  <2>2. \A v \in C : i \notin v[1]..v[2]
    BY DEF Tiles
  <2> QED
    BY <2>1, <2>2
<1> QED
  BY <1>1, <1>2, <1>3, <1>4 DEF Tiles

(* Without some of its ranges a cut tiles the other places.                *)
LEMMA TilesRest ==
  ASSUME NEW C, NEW P, Tiles(C, P), NEW D, D \subseteq C
  PROVE  Tiles(C \ D, P \ UNION {w[1]..w[2] : w \in D})
<1> DEFINE Q == UNION {w[1]..w[2] : w \in D}
<1>1. C \ D \subseteq Int \X Int
  BY DEF Tiles
<1>2. ASSUME NEW w \in C \ D PROVE w[1] <= w[2] /\ w[1]..w[2] \subseteq P \ Q
  <2>1. w[1] <= w[2] /\ w[1]..w[2] \subseteq P
    BY DEF Tiles
  <2>2. ASSUME NEW i \in w[1]..w[2], NEW v \in D, i \in v[1]..v[2] PROVE FALSE
    <3>1. i \in P
      BY <2>1
    <3>2. PICK u \in C : \A x \in C : i \in x[1]..x[2] => x = u
      BY <3>1 DEF Tiles
    <3>3. v = u /\ w = u
      BY <2>2, <3>2
    <3> QED
      BY <3>3
  <2> QED
    BY <2>1, <2>2
<1>3. ASSUME NEW i \in P \ Q
      PROVE  \E w \in C \ D : i \in w[1]..w[2] /\ \A v \in C \ D : i \in v[1]..v[2] => v = w
  <2>1. PICK w \in C : i \in w[1]..w[2] /\ \A v \in C : i \in v[1]..v[2] => v = w
    BY DEF Tiles
  <2>2. w \notin D
    BY <2>1
  <2> QED
    BY <2>1, <2>2
<1> HIDE DEF Q
<1> QED
  BY <1>1, <1>2, <1>3 DEF Tiles, Q

(* When each range of a cut is cut, the whole is.                          *)
LEMMA TilesEach ==
  ASSUME NEW C, NEW P, Tiles(C, P), NEW H, \A p \in C : Tiles(H[p], p[1]..p[2])
  PROVE  Tiles(UNION {H[p] : p \in C}, P)
<1> DEFINE U == UNION {H[p] : p \in C}
<1>1. ASSUME NEW w \in U PROVE /\ w \in Int \X Int
                               /\ w[1] <= w[2] /\ w[1]..w[2] \subseteq P
  <2>1. PICK p \in C : w \in H[p]
    OBVIOUS
  <2>2. p[1]..p[2] \subseteq P
    BY DEF Tiles
  <2>3. Tiles(H[p], p[1]..p[2])
    OBVIOUS
  <2> QED
    BY <2>1, <2>2, <2>3 DEF Tiles
<1>2. ASSUME NEW i \in P
      PROVE  \E w \in U : i \in w[1]..w[2] /\ \A v \in U : i \in v[1]..v[2] => v = w
  <2>1. PICK p \in C : i \in p[1]..p[2] /\ \A q \in C : i \in q[1]..q[2] => q = p
    BY DEF Tiles
  <2>2. Tiles(H[p], p[1]..p[2])
    OBVIOUS
  <2>3. PICK w \in H[p] : i \in w[1]..w[2] /\ \A v \in H[p] : i \in v[1]..v[2] => v = w
    BY <2>1, <2>2 DEF Tiles
  <2>4. ASSUME NEW v \in U, i \in v[1]..v[2] PROVE v = w
    <3>1. PICK q \in C : v \in H[q]
      OBVIOUS
    <3>2. Tiles(H[q], q[1]..q[2])
      OBVIOUS
    <3>3. i \in q[1]..q[2]
      BY <2>4, <3>1, <3>2 DEF Tiles
    <3>4. q = p
      BY <2>1, <3>3
    <3> QED
      BY <2>3, <2>4, <3>1, <3>4
  <2>5. w \in U
    OBVIOUS
  <2> QED
    BY <2>3, <2>4, <2>5
<1> HIDE DEF U
<1>3. U \subseteq Int \X Int
  BY <1>1
<1>4. Tiles(U, P)
  BY <1>1, <1>2, <1>3 DEF Tiles
<1> QED
  BY <1>4 DEF U

LEMMA StretchesTile ==
  ASSUME NEW a \in Int, NEW b \in Int, NEW P, P \subseteq a..b
  PROVE  Tiles(Stretches(P), P)
<1>1. ASSUME NEW w \in Stretches(P) PROVE /\ w \in Int \X Int
                                          /\ w[1] <= w[2] /\ w[1]..w[2] \subseteq P
  <2>1. PICK x \in P, y \in P : w = <<x, y>>
    <3>1. w \in P \X P
      BY DEF Stretches
    <3>2. w[1] \in P /\ w[2] \in P /\ w = <<w[1], w[2]>>
      BY <3>1
    <3> QED
      BY <3>2
  <2>2. x <= y /\ x..y \subseteq P
    BY <2>1 DEF Stretches
  <2> QED
    BY <2>1, <2>2
<1>2. ASSUME NEW i \in P
      PROVE  \E w \in Stretches(P) :
               i \in w[1]..w[2] /\ \A v \in Stretches(P) : i \in v[1]..v[2] => v = w
  <2> DEFINE L == {x \in a..i : x..i \subseteq P}
             R == {x \in i..b : i..x \subseteq P}
  <2>1. i \in L /\ i \in R
    OBVIOUS
  <2>2. PICK l \in L : \A x \in L : l <= x
    <3>1. L \subseteq Int /\ \A x \in L : a <= x
      OBVIOUS
    <3>2. L # {}
      BY <2>1
    <3> HIDE DEF L
    <3> QED
      BY <3>1, <3>2, Least
  <2>3. PICK r \in R : \A x \in R : x <= r
    <3>1. R \subseteq Int /\ \A x \in R : x <= b
      OBVIOUS
    <3>2. R # {}
      BY <2>1
    <3> HIDE DEF R
    <3> QED
      BY <3>1, <3>2, Greatest
  <2>4. l - 1 \notin P
    <3>1. SUFFICES ASSUME l - 1 \in P PROVE FALSE
      OBVIOUS
    <3>2. l - 1 \in L
      BY <3>1
    <3> QED
      BY <2>2, <3>2
  <2>5. r + 1 \notin P
    <3>1. SUFFICES ASSUME r + 1 \in P PROVE FALSE
      OBVIOUS
    <3>2. r + 1 \in R
      BY <3>1
    <3> QED
      BY <2>3, <3>2
  <2>6. l \in P /\ r \in P /\ l <= i /\ i <= r /\ l..r \subseteq P
    OBVIOUS
  <2>7. <<l, r>> \in Stretches(P)
    BY <2>4, <2>5, <2>6 DEF Stretches
  <2>8. ASSUME NEW v \in Stretches(P), i \in v[1]..v[2] PROVE v = <<l, r>>
    <3>1. PICK x \in P, y \in P : v = <<x, y>>
      <4>1. v \in P \X P
        BY DEF Stretches
      <4>2. v[1] \in P /\ v[2] \in P /\ v = <<v[1], v[2]>>
        BY <4>1
      <4> QED
        BY <4>2
    <3>2. x..y \subseteq P /\ x - 1 \notin P /\ y + 1 \notin P /\ x <= i /\ i <= y
      BY <2>8, <3>1 DEF Stretches
    <3>3. x \in a..b /\ y \in a..b /\ i \in a..b
      OBVIOUS
    <3>4. x = l
      <4>1. x..i \subseteq x..y
        BY <3>2, <3>3
      <4>2. x \in L
        BY <3>2, <3>3, <4>1
      <4>3. l <= x
        BY <2>2, <4>2
      <4>4. l < x => x - 1 \in l..r
        BY <2>6, <3>2, <3>3
      <4> HIDE DEF L, R
      <4> QED
        BY <2>6, <3>2, <3>3, <4>3, <4>4
    <3>5. y = r
      <4>1. i..y \subseteq x..y
        BY <3>2, <3>3
      <4>2. y \in R
        BY <3>2, <3>3, <4>1
      <4>3. y <= r
        BY <2>3, <4>2
      <4>4. y < r => y + 1 \in l..r
        BY <2>6, <3>2, <3>3
      <4> HIDE DEF L, R
      <4> QED
        BY <2>6, <3>2, <3>3, <4>3, <4>4
    <3> QED
      BY <3>1, <3>4, <3>5
  <2>9. i \in <<l, r>>[1]..<<l, r>>[2]
    BY <2>6
  <2> HIDE DEF L, R
  <2> QED
    BY <2>7, <2>8, <2>9
<1> QED
  BY <1>1, <1>2 DEF Tiles

(* Words that begin where the one before ends tile the text when the last  *)
(* rune ends one.                                                          *)
LEMMA WordsThatEndTile ==
  ASSUME NEW first \in Int, NEW last \in Int, NEW ends, ends \subseteq first..last, last \in ends
  PROVE  Tiles(WordsThatEnd(ends, first), first..last)
<1> DEFINE Starts(x) == {first} \cup {e + 1 : e \in {d \in ends : d < x}}
           word_(x) == <<Max(Starts(x)), x>>
<1>1. WordsThatEnd(ends, first) = {word_(x) : x \in ends}
  BY DEF WordsThatEnd
<1>2. ASSUME NEW x \in ends
      PROVE  /\ Max(Starts(x)) \in first..x
             /\ \A d \in ends : d < x => d < Max(Starts(x))
             /\ Max(Starts(x)) = first \/ Max(Starts(x)) - 1 \in ends
  <2>1. Starts(x) \subseteq first..x /\ first \in Starts(x) /\ x \in Int
    OBVIOUS
  <2>2. Max(Starts(x)) \in Starts(x) /\ \A m \in Starts(x) : m <= Max(Starts(x))
    <3>1. Starts(x) \subseteq Int /\ \A m \in Starts(x) : m <= x
      BY <2>1
    <3> HIDE DEF Starts
    <3> QED
      BY <2>1, <3>1, MaxOf
  <2>3. \A d \in ends : d < x => d + 1 \in Starts(x)
    OBVIOUS
  <2>4. ASSUME NEW d \in ends, d < x PROVE d < Max(Starts(x))
    <3>1. d + 1 <= Max(Starts(x)) /\ d \in Int /\ Max(Starts(x)) \in Int
      BY <2>1, <2>2, <2>3, <2>4
    <3> QED
      BY <3>1
  <2>5. Max(Starts(x)) = first \/ Max(Starts(x)) - 1 \in ends
    <3>1. \A m \in Starts(x) : m = first \/ m - 1 \in ends
      OBVIOUS
    <3> HIDE DEF Starts
    <3> QED
      BY <2>2, <3>1
  <2>6. Max(Starts(x)) \in first..x
    <3> HIDE DEF Starts
    <3> QED
      BY <2>1, <2>2
  <2> QED
    BY <2>4, <2>5, <2>6
<1> HIDE DEF Starts
<1>3. ASSUME NEW w \in WordsThatEnd(ends, first)
      PROVE  /\ w \in Int \X Int
             /\ w[1] <= w[2] /\ w[1]..w[2] \subseteq first..last
  <2>1. PICK x \in ends : w = word_(x)
    BY <1>1
  <2>2. Max(Starts(x)) \in first..x /\ x \in first..last
    BY <1>2
  <2> QED
    BY <2>1, <2>2
<1>4. ASSUME NEW i \in first..last
      PROVE  \E w \in WordsThatEnd(ends, first) :
               i \in w[1]..w[2] /\ \A v \in WordsThatEnd(ends, first) : i \in v[1]..v[2] => v = w
  <2> DEFINE Later == {x \in ends : i <= x}
  <2>1. PICK x \in Later : \A y \in Later : x <= y
    <3>1. Later \subseteq Int
      <4>1. Later \subseteq first..last
        OBVIOUS
      <4> HIDE DEF Later
      <4> QED
        BY <4>1
    <3>2. \A y \in Later : i <= y
      OBVIOUS
    <3>3. last \in Later /\ i \in Int
      OBVIOUS
    <3> HIDE DEF Later
    <3> QED
      BY <3>1, <3>2, <3>3, Least
  <2>2. x \in ends /\ i <= x /\ x \in Int
    OBVIOUS
  <2>3. Max(Starts(x)) <= i
    <3>1. CASE Max(Starts(x)) = first
      BY <3>1
    <3>2. CASE Max(Starts(x)) - 1 \in ends
      <4>1. Max(Starts(x)) \in Int /\ Max(Starts(x)) - 1 < x
        BY <1>2, <2>2
      <4>2. ~(i <= Max(Starts(x)) - 1)
        BY <2>1, <2>2, <3>2, <4>1
      <4> QED
        BY <4>1, <4>2
    <3> QED
      BY <1>2, <2>2, <3>1, <3>2
  <2>4. word_(x) \in WordsThatEnd(ends, first) /\ i \in word_(x)[1]..word_(x)[2]
    <3>1. Max(Starts(x)) \in Int
      BY <1>2, <2>2
    <3> QED
      BY <1>1, <2>2, <2>3, <3>1
  <2>5. ASSUME NEW v \in WordsThatEnd(ends, first), i \in v[1]..v[2] PROVE v = word_(x)
    <3>1. PICK y \in ends : v = word_(y)
      BY <1>1
    <3>2. Max(Starts(y)) <= i /\ i <= y /\ y \in Int /\ Max(Starts(y)) \in Int
      BY <1>2, <2>5, <3>1
    <3>3. x <= y
      BY <2>1, <3>2
    <3>4. x = y
      BY <1>2, <2>2, <3>2, <3>3
    <3> QED
      BY <3>1, <3>4
  <2> QED
    BY <2>4, <2>5
<1> QED
  BY <1>3, <1>4 DEF Tiles

(* CutByDag's words from a place on, for every place.                      *)
WordsFrom(dags, first, last, f) ==
  [i \in first..(last + 1) |->
    IF i > last THEN {} ELSE {<<i, dags[i + 1 - first].end>>} \cup f[dags[i + 1 - first].end + 1]]

LEMMA WordsExist ==
  ASSUME NEW dags, NEW first \in Int, NEW last \in Int, first <= last + 1,
         \A i \in first..last : dags[i + 1 - first].end \in i..last
  PROVE  \E f : /\ f = WordsFrom(dags, first, last, f)
                /\ CutByDag(dags, first, last) = f[first]
<1> DEFINE P == first..(last + 1)
           F == [P -> SUBSET (Int \X Int)]
           G == [f \in F |-> WordsFrom(dags, first, last, f)]
<1>1. ASSUME NEW f \in F PROVE WordsFrom(dags, first, last, f) \in F
  <2>1. ASSUME NEW i \in P, i <= last
        PROVE  {<<i, dags[i + 1 - first].end>>} \cup f[dags[i + 1 - first].end + 1]
                 \in SUBSET (Int \X Int)
    <3>1. dags[i + 1 - first].end \in i..last /\ i \in Int
      <4>1. i \in first..last /\ i \in Int
        BY <2>1
      <4>2. dags[i + 1 - first].end \in i..last
        BY <4>1
      <4> QED
        BY <4>1, <4>2
    <3>2. dags[i + 1 - first].end + 1 \in P
      BY <3>1
    <3> QED
      BY <3>1, <3>2
  <2>2. ASSUME NEW i \in P PROVE WordsFrom(dags, first, last, f)[i] \in SUBSET (Int \X Int)
    <3> DEFINE W == {<<i, dags[i + 1 - first].end>>} \cup f[dags[i + 1 - first].end + 1]
    <3>1. WordsFrom(dags, first, last, f)[i] = IF i > last THEN {} ELSE W
      BY DEF WordsFrom
    <3>2. i <= last => W \in SUBSET (Int \X Int)
      BY <2>1
    <3>3. i > last \/ i <= last
      OBVIOUS
    <3> HIDE DEF W
    <3> QED
      BY <3>1, <3>2, <3>3
  <2> QED
    BY <2>2 DEF WordsFrom
<1>2. FunctionsOn(P, F, G)
  <2>1. G \in [F -> F]
    BY <1>1
  <2>2. [i \in P |-> {}] \in F
    OBVIOUS
  <2> QED
    BY <2>1, <2>2 DEF FunctionsOn
<1>3. ByLaterPlaces(first, last + 1, F, G)
  <2> SUFFICES ASSUME NEW f \in F, NEW g \in F, NEW i \in P, \A j \in (i + 1)..(last + 1) : f[j] = g[j]
               PROVE  G[f][i] = G[g][i]
    BY DEF ByLaterPlaces
  <2>1. CASE i > last
    BY <2>1 DEF WordsFrom
  <2>2. CASE ~(i > last)
    <3>1. dags[i + 1 - first].end \in i..last
      <4>1. i \in first..last
        BY <2>2
      <4> QED
        BY <4>1
    <3>2. f[dags[i + 1 - first].end + 1] = g[dags[i + 1 - first].end + 1]
      BY <3>1
    <3>3. WordsFrom(dags, first, last, f)[i] = WordsFrom(dags, first, last, g)[i]
      BY <3>2 DEF WordsFrom
    <3> QED
      BY <3>3
  <2> QED
    BY <2>1, <2>2
<1>4. \E f \in F : f = G[f]
  <2>1. last + 1 \in Int
    OBVIOUS
  <2> HIDE DEF F, G
  <2> QED
    BY <1>2, <1>3, <2>1, FromTheEnd
<1> DEFINE words == CHOOSE f : f = WordsFrom(dags, first, last, f)
<1>5. words = WordsFrom(dags, first, last, words)
  BY <1>4, Zenon
<1>6. CutByDag(dags, first, last) = words[first]
  BY Zenon DEF CutByDag, WordsFrom
<1> HIDE DEF words
<1> QED
  BY <1>5, <1>6

LEMMA MPCutTiles ==
  ASSUME NEW s, NEW first \in Int, NEW last \in Int, first <= last + 1
  PROVE  /\ Tiles(MPCut(s, first, last), first..last)
         /\ \A w \in MPCut(s, first, last) : w[2] = CalcDP(s, first, last)[w[1] + 1 - first].end
<1> DEFINE P == first..(last + 1)
           dags == CalcDP(s, first, last)
           EndAt(i) == dags[i + 1 - first].end
<1>1. \A i \in first..last : EndAt(i) \in i..last
  <2> SUFFICES ASSUME NEW i \in first..last PROVE EndAt(i) \in i..last
    OBVIOUS
  <2>1. EndAt(i) \in Nexts(s, i, last)
    BY CalcDPIsBest DEF IsBest
  <2>2. i \in Int /\ i <= last
    OBVIOUS
  <2> HIDE DEF EndAt
  <2> QED
    BY <2>1, <2>2, NextsFacts
<1>2. PICK f : f = WordsFrom(dags, first, last, f) /\ MPCut(s, first, last) = f[first]
  <2> HIDE DEF dags
  <2>1. \E f : f = WordsFrom(dags, first, last, f) /\ CutByDag(dags, first, last) = f[first]
    BY <1>1, WordsExist
  <2> QED
    BY <2>1 DEF MPCut, dags
<1> DEFINE Good(i) == Tiles(f[i], i..last) /\ \A w \in f[i] : w[2] = EndAt(w[1])
           T == {i \in P : Good(i)}
<1>3. ASSUME NEW i \in P, \A j \in (i + 1)..(last + 1) : j \in T PROVE i \in T
  <2>0. f[i] = WordsFrom(dags, first, last, f)[i]
    <3> HIDE DEF P, T, dags
    <3> QED
      BY <1>2, Zenon
  <2>1. CASE i > last
    <3>1. f[i] = {} /\ i..last = {}
      BY <2>0, <2>1 DEF WordsFrom
    <3>2. Good(i)
      BY <3>1, TilesNothing
    <3> QED
      BY <3>2
  <2>2. CASE ~(i > last)
    <3>1. i \in first..last /\ i \in Int
      BY <2>2
    <3>2. EndAt(i) \in i..last
      <4> HIDE DEF EndAt
      <4> QED
        BY <1>1, <3>1
    <3>3. f[i] = {<<i, EndAt(i)>>} \cup f[EndAt(i) + 1]
      BY <2>0, <2>2 DEF WordsFrom
    <3> DEFINE e == EndAt(i)
    <3> HIDE DEF EndAt
    <3>4. Good(e + 1)
      <4>1. e + 1 \in (i + 1)..(last + 1)
        BY <3>1, <3>2
      <4> QED
        BY <1>3, <4>1
    <3>5. Tiles({<<i, e>>}, i..e)
      BY <3>1, <3>2, TilesOne
    <3>6. (i..e) \cap ((e + 1)..last) = {} /\ (i..e) \cup ((e + 1)..last) = i..last
      BY <3>1, <3>2
    <3>7. Tiles(f[i], i..last)
      <4> HIDE DEF e
      <4>1. Tiles({<<i, e>>} \cup f[e + 1], (i..e) \cup ((e + 1)..last))
        BY <3>4, <3>5, <3>6, TilesBoth
      <4> QED
        BY <3>3, <3>6, <4>1 DEF e
    <3>8. \A w \in f[i] : w[2] = EndAt(w[1])
      BY <3>3, <3>4
    <3> QED
      BY <3>7, <3>8
  <2> QED
    BY <2>1, <2>2
<1>4. \A i \in P : i \in T
  <2>1. last + 1 \in Int
    OBVIOUS
  <2> HIDE DEF T
  <2> QED
    BY <1>3, <2>1, Downwards
<1>5. Good(first)
  BY <1>4
<1> QED
  BY <1>2, <1>5

LEMMA MPCutWords ==
  ASSUME NEW s, NEW first \in Int, NEW last \in Int, first <= last + 1
  PROVE  \A w \in MPCut(s, first, last) : w[1] \in first..last /\ w[2] \in Nexts(s, w[1], last)
<1> SUFFICES ASSUME NEW w \in MPCut(s, first, last)
             PROVE  w[1] \in first..last /\ w[2] \in Nexts(s, w[1], last)
  OBVIOUS
<1>1. w[1] \in first..last
  <2>1. w[1] \in Int /\ w[2] \in Int /\ w[1] <= w[2] /\ w[1]..w[2] \subseteq first..last
    BY MPCutTiles DEF Tiles
  <2> QED
    BY <2>1
<1>2. w[2] = CalcDP(s, first, last)[w[1] + 1 - first].end
  BY MPCutTiles
<1> QED
  BY <1>1, <1>2, CalcDPIsBest DEF IsBest

-----------------------------------------------------------------------------
(* The HMM.                                                                *)

MaxOr(S, f, d) == Max({d} \cup {f[j] : j \in S})

LEMMA MaxWith ==
  ASSUME NEW S, IsFiniteSet(S), NEW f \in [S -> Int], NEW d \in Int
  PROVE  /\ MaxOr(S, f, d) \in Int /\ d <= MaxOr(S, f, d)
         /\ \A i \in S : f[i] <= MaxOr(S, f, d)
         /\ MaxOr(S, f, d) = d \/ \E i \in S : f[i] = MaxOr(S, f, d)
<1> DEFINE V == {f[j] : j \in S}
           W == {d} \cup V
<1>1. f \in Surjection(S, V)
  BY DEF Surjection
<1>2. W \subseteq Int /\ W # {} /\ d \in W
  OBVIOUS
<1>3. IsFiniteSet(W)
  <2>1. IsFiniteSet(V)
    <3> HIDE DEF V
    <3> QED
      BY <1>1, FS_Surjection
  <2>2. W = V \cup {d}
    OBVIOUS
  <2> HIDE DEF V, W
  <2> QED
    BY <2>1, <2>2, FS_AddElement
<1>4. Max(W) \in W /\ \A v \in W : v <= Max(W)
  <2> HIDE DEF W
  <2>1. PICK low, high \in Int : W \subseteq low..high
    BY <1>2, <1>3, FiniteIsBounded
  <2>2. \A v \in W : v <= high
    BY <2>1
  <2> QED
    BY <1>2, <2>2, MaxOf
<1> DEFINE max == Max(W)
<1> HIDE DEF max
<1>5. max \in W /\ \A v \in W : v <= max
  BY <1>4 DEF max
<1>6. /\ max \in Int /\ d <= max /\ \A i \in S : f[i] <= max
      /\ max = d \/ \E i \in S : f[i] = max
  BY <1>5
<1>7. MaxOr(S, f, d) = max
  BY DEF max, MaxOr
<1> QED
  BY <1>6, <1>7

LEMMA StatusIsFinite == IsFiniteSet(Status)
<1>1. IsFiniteSet({})
  BY FS_EmptySet
<1>2. IsFiniteSet({} \cup {"B"})
  BY <1>1, FS_AddElement
<1>3. IsFiniteSet(({} \cup {"B"}) \cup {"E"})
  BY <1>2, FS_AddElement
<1>4. IsFiniteSet((({} \cup {"B"}) \cup {"E"}) \cup {"M"})
  BY <1>3, FS_AddElement
<1>5. IsFiniteSet(((({} \cup {"B"}) \cup {"E"}) \cup {"M"}) \cup {"S"})
  BY <1>4, FS_AddElement
<1>6. Status = ((({} \cup {"B"}) \cup {"E"}) \cup {"M"}) \cup {"S"}
  BY DEF Status
<1> QED
  BY <1>5, <1>6

LEMMA WeightTypes ==
  /\ Floor \in Int /\ Floor < 0
  /\ \A y \in Status : StartProb[y] \in Int /\ Floor <= StartProb[y] /\ StartProb[y] <= 0
  /\ \A y, z \in Status : TransProb[y][z] \in Int /\ Floor <= TransProb[y][z] /\ TransProb[y][z] <= 0
  /\ \A y \in Status : \A rune :
       GetEmitProb(y, rune) \in Int /\ Floor <= GetEmitProb(y, rune) /\ GetEmitProb(y, rune) <= 0
<1>1. Floor \in Int /\ Floor < 0
  BY SegmenterAssumption
<1>2. \A v \in Weights \cup {Floor} : v \in Int /\ Floor <= v /\ v <= 0
  BY <1>1 DEF Weights
<1>3. \A y \in Status : StartProb[y] \in Weights \cup {Floor}
  BY SegmenterAssumption
<1>4. \A y, z \in Status : TransProb[y][z] \in Weights \cup {Floor}
  BY SegmenterAssumption
<1>5. \A y \in Status : \A rune : GetEmitProb(y, rune) \in Weights \cup {Floor}
  BY SegmenterAssumption DEF GetEmitProb
<1> HIDE DEF Weights
<1> QED
  BY <1>1, <1>2, <1>3, <1>4, <1>5

LEMMA PlusType ==
  ASSUME NEW a \in Int, NEW b \in Int
  PROVE  Plus(a, b) \in Int
<1>1. Floor \in Int /\ Floor < 0
  BY WeightTypes
<1>2. ASSUME NEW c \in Int PROVE Floors(c) \in Int
  <2>1. -c \in Int /\ -Floor \in Int /\ -Floor > 0
    BY <1>1
  <2>2. (-c) \div (-Floor) \in Int
    BY <2>1
  <2> QED
    BY <2>2 DEF Floors
<1>3. Floors(a) + Floors(b) \in Int
  BY <1>2
<1>4. Floor * (Floors(a) + Floors(b)) \in Int
  BY <1>1, <1>3
<1> QED
  BY <1>4 DEF Plus

Row == [Status -> [weight : Int, path : Status]]

StepAt(old, y, rune) ==
  LET emit == GetEmitProb(y, rune)
      best == Max({Floor} \cup {Transition(old, preY, y, emit) : preY \in Status})
      preYs == {i \in 1..4 : Transition(old, Order[i], y, emit) = best}
  IN  [weight |-> best, path |-> IF best = Floor THEN "E" ELSE Order[Min(preYs)]]

LEMMA StepIs ==
  ASSUME NEW old, NEW rune
  PROVE  Step(old, rune) = [y \in Status |-> StepAt(old, y, rune)]
BY DEF Step, StepAt, Status

LEMMA TransitionType ==
  ASSUME NEW old \in Row, NEW preY \in Status, NEW y \in Status, NEW emit \in Int
  PROVE  Transition(old, preY, y, emit) \in Int
<1>1. old[preY].weight \in Int
  BY DEF Row
<1>2. TransProb[preY][y] \in Int
  BY WeightTypes
<1> QED
  BY <1>1, <1>2, PlusType DEF Transition

LEMMA StepAtIsBest ==
  ASSUME NEW old \in Row, NEW rune, NEW y \in Status
  PROVE  LET new == StepAt(old, y, rune)
             emit == GetEmitProb(y, rune)
         IN  /\ new \in [weight : Int, path : Status]
             /\ Floor <= new.weight
             /\ \A preY \in Status : Transition(old, preY, y, emit) <= new.weight
             /\ new.weight # Floor => Transition(old, new.path, y, emit) = new.weight
<1> DEFINE emit == GetEmitProb(y, rune)
           f == [preY \in Status |-> Transition(old, preY, y, emit)]
           best == Max({Floor} \cup {Transition(old, preY, y, emit) : preY \in Status})
           preYs == {i \in 1..4 : Transition(old, Order[i], y, emit) = best}
           path == IF best = Floor THEN "E" ELSE Order[Min(preYs)]
<1>1. emit \in Int /\ Floor \in Int
  BY WeightTypes
<1>2. f \in [Status -> Int]
  BY <1>1, TransitionType
<1>3. best = MaxOr(Status, f, Floor)
  <2>1. {f[preY] : preY \in Status} = {Transition(old, preY, y, emit) : preY \in Status}
    OBVIOUS
  <2> QED
    BY <2>1 DEF MaxOr
<1> HIDE DEF best
<1>4. /\ best \in Int /\ Floor <= best /\ \A preY \in Status : f[preY] <= best
      /\ best = Floor \/ \E preY \in Status : f[preY] = best
  <2> HIDE DEF f
  <2> QED
    BY <1>1, <1>2, <1>3, StatusIsFinite, MaxWith
<1>5. ASSUME best # Floor
      PROVE  Order[Min(preYs)] \in Status /\ Transition(old, Order[Min(preYs)], y, emit) = best
  <2>1. PICK preY \in Status : Transition(old, preY, y, emit) = best
    BY <1>4, <1>5
  <2>2. PICK i \in 1..4 : Order[i] = preY
    BY DEF Status, Order
  <2>3. /\ preYs # {}
        /\ preYs \subseteq Int /\ 1 \in Int
        /\ \A n \in preYs : 1 <= n
    BY <2>1, <2>2
  <2>4. Min(preYs) \in preYs
    <3> HIDE DEF preYs
    <3> QED
      BY <2>3, MinOf
  <2>5. \A n \in 1..4 : Order[n] \in Status
    BY DEF Status, Order
  <2> QED
    BY <2>4, <2>5
<1>6. "E" \in Status
  BY DEF Status
<1>7. StepAt(old, y, rune) = [weight |-> best, path |-> path]
  BY DEF StepAt, best
<1> HIDE DEF emit, preYs
<1>8. path \in Status /\ (best # Floor => Transition(old, path, y, emit) = best)
  BY <1>5, <1>6
<1> HIDE DEF path
<1>9. \A preY \in Status : Transition(old, preY, y, emit) <= best
  BY <1>4
<1> QED
  BY <1>4, <1>7, <1>8, <1>9 DEF emit

LEMMA StepType ==
  ASSUME NEW old \in Row, NEW rune
  PROVE  Step(old, rune) \in Row
<1>1. \A y \in Status : StepAt(old, y, rune) \in [weight : Int, path : Status]
  BY StepAtIsBest
<1> QED
  BY <1>1, StepIs DEF Row

LEMMA StartType ==
  ASSUME NEW rune
  PROVE  Start(rune) \in Row
<1>1. \A y \in Status : Plus(StartProb[y], GetEmitProb(y, rune)) \in Int
  BY WeightTypes, PlusType
<1>2. "E" \in Status
  BY DEF Status
<1> QED
  BY <1>1, <1>2 DEF Start, Row

(* Viterbi's rows up to a place, for every place.                          *)
Rows(first, x) == {rows \in Seq(Row) : Len(rows) = x + 1 - first}

RowsUpTo(s, first, last, f) ==
  [x \in first..last |->
    IF x = first THEN <<Start(s[x])>> ELSE Append(f[x - 1], Step(f[x - 1][x - first], s[x]))]

LEMMA NextRows ==
  ASSUME NEW s, NEW first \in Int, NEW x \in Int, first < x, NEW before \in Rows(first, x - 1)
  PROVE  /\ before[x - first] \in Row
         /\ Append(before, Step(before[x - first], s[x])) \in Rows(first, x)
<1>1. before \in Seq(Row) /\ Len(before) = x - first /\ x - first \in 1..Len(before)
  BY DEF Rows
<1>2. before[x - first] \in Row
  BY <1>1, ElementOfSeq
<1>3. Step(before[x - first], s[x]) \in Row
  BY <1>2, StepType
<1>4. /\ Append(before, Step(before[x - first], s[x])) \in Seq(Row)
      /\ Len(Append(before, Step(before[x - first], s[x]))) = Len(before) + 1
  BY <1>1, <1>3
<1> QED
  BY <1>1, <1>2, <1>4 DEF Rows

LEMMA RowsExist ==
  ASSUME NEW s, NEW first \in Int, NEW last \in Int, first <= last
  PROVE  \E f : /\ f = RowsUpTo(s, first, last, f)
                /\ Viterbi(s, first, last) = Backwards(f[last], first, last)
<1> DEFINE P == first..last
           F == {f \in [P -> Seq(Row)] : \A x \in P : f[x] \in Rows(first, x)}
           G == [f \in F |-> RowsUpTo(s, first, last, f)]
<1>1. ASSUME NEW f \in F PROVE RowsUpTo(s, first, last, f) \in F
  <2>1. ASSUME NEW x \in P PROVE RowsUpTo(s, first, last, f)[x] \in Rows(first, x)
    <3>1. CASE x = first
      <4>1. <<Start(s[x])>> \in Seq(Row) /\ Len(<<Start(s[x])>>) = 1
        BY StartType
      <4>2. RowsUpTo(s, first, last, f)[x] = <<Start(s[x])>>
        BY <3>1 DEF RowsUpTo
      <4> QED
        BY <3>1, <4>1, <4>2 DEF Rows
    <3>2. CASE x # first
      <4>1. x - 1 \in P /\ first < x /\ x \in Int
        BY <3>2
      <4>2. f[x - 1] \in Rows(first, x - 1)
        BY <4>1
      <4>3. Append(f[x - 1], Step(f[x - 1][x - first], s[x])) \in Rows(first, x)
        BY <4>1, <4>2, NextRows
      <4> QED
        BY <3>2, <4>3 DEF RowsUpTo
    <3> QED
      BY <3>1, <3>2
  <2>2. RowsUpTo(s, first, last, f) \in [P -> Seq(Row)]
    BY <2>1 DEF RowsUpTo, Rows
  <2> QED
    BY <2>1, <2>2
<1>2. FunctionsOn(P, F, G)
  <2>1. G \in [F -> F]
    BY <1>1
  <2> DEFINE some == [x \in P |-> [k \in 1..(x + 1 - first) |-> Start(s[first])]]
  <2>2. ASSUME NEW x \in P PROVE some[x] \in Rows(first, x)
    <3>1. x + 1 - first \in Nat
      OBVIOUS
    <3> QED
      BY <3>1, StartType DEF Rows
  <2>3. some \in F
    BY <2>2 DEF Rows
  <2> QED
    BY <2>1, <2>3 DEF FunctionsOn
<1>3. ByEarlierPlaces(first, last, F, G)
  <2> SUFFICES ASSUME NEW f \in F, NEW g \in F, NEW x \in P, \A y \in first..(x - 1) : f[y] = g[y]
               PROVE  G[f][x] = G[g][x]
    BY DEF ByEarlierPlaces
  <2>1. CASE x = first
    BY <2>1 DEF RowsUpTo
  <2>2. CASE x # first
    <3>1. f[x - 1] = g[x - 1]
      <4>1. x - 1 \in first..(x - 1)
        BY <2>2
      <4> QED
        BY <4>1
    <3>2. RowsUpTo(s, first, last, f)[x] = RowsUpTo(s, first, last, g)[x]
      BY <3>1 DEF RowsUpTo
    <3> QED
      BY <3>2
  <2> QED
    BY <2>1, <2>2
<1>4. \E f \in F : f = G[f]
  <2> HIDE DEF F, G
  <2> QED
    BY <1>2, <1>3, FromTheFront
<1> DEFINE rows == CHOOSE f : f = RowsUpTo(s, first, last, f)
<1>5. rows = RowsUpTo(s, first, last, rows)
  BY <1>4, Zenon
<1>6. Viterbi(s, first, last) = Backwards(rows[last], first, last)
  BY Zenon DEF Viterbi, RowsUpTo
<1> HIDE DEF rows
<1> QED
  BY <1>5, <1>6

(* Viterbi's rows: the first is the start, and each other is a step from   *)
(* the one before.                                                         *)
ViterbiRows(s, first, last, rows) ==
  /\ rows \in Rows(first, last)
  /\ rows[1] = Start(s[first])
  /\ \A x \in (first + 1)..last : rows[x + 1 - first] = Step(rows[x - first], s[x])

LEMMA ViterbiHasRows ==
  ASSUME NEW s, NEW first \in Int, NEW last \in Int, first <= last
  PROVE  \E rows : /\ ViterbiRows(s, first, last, rows)
                   /\ Viterbi(s, first, last) = Backwards(rows, first, last)
<1> DEFINE P == first..last
<1>1. PICK f : /\ f = RowsUpTo(s, first, last, f)
               /\ Viterbi(s, first, last) = Backwards(f[last], first, last)
  BY RowsExist
<1> DEFINE T == {x \in P : ViterbiRows(s, first, x, f[x])}
<1>2. ASSUME NEW x \in P, \A y \in first..(x - 1) : y \in T PROVE x \in T
  <2>0. f[x] = RowsUpTo(s, first, last, f)[x]
    <3> HIDE DEF P, T
    <3> QED
      BY <1>1, Zenon
  <2>1. CASE x = first
    <3>1. f[x] = <<Start(s[x])>>
      BY <2>0, <2>1 DEF RowsUpTo
    <3>2. f[x] \in Seq(Row) /\ Len(f[x]) = 1 /\ f[x][1] = Start(s[x])
      BY <3>1, StartType
    <3>3. ViterbiRows(s, first, x, f[x])
      BY <2>1, <3>2 DEF ViterbiRows, Rows
    <3> QED
      BY <3>3
  <2>2. CASE x # first
    <3>1. x - 1 \in P /\ x - 1 \in first..(x - 1) /\ first < x /\ x \in Int
      BY <2>2
    <3>2. ViterbiRows(s, first, x - 1, f[x - 1])
      BY <1>2, <3>1
    <3> DEFINE before == f[x - 1]
               row == Step(before[x - first], s[x])
    <3>3. f[x] = Append(before, row)
      BY <2>0, <2>2 DEF RowsUpTo
    <3>4. before \in Rows(first, x - 1) /\ before \in Seq(Row) /\ Len(before) = x - first
      BY <3>1, <3>2 DEF ViterbiRows, Rows
    <3>5. f[x] \in Rows(first, x) /\ row \in Row
      BY <3>1, <3>3, <3>4, NextRows, StepType
    <3> HIDE DEF before, row
    <3>6. f[x][x + 1 - first] = row /\ \A k \in 1..(x - first) : f[x][k] = before[k]
      BY <3>1, <3>3, <3>4, <3>5, AppendProperties
    <3>7. f[x][1] = Start(s[first])
      BY <3>1, <3>2, <3>6 DEF ViterbiRows, before
    <3>8. ASSUME NEW y \in (first + 1)..x PROVE f[x][y + 1 - first] = Step(f[x][y - first], s[y])
      <4>1. y - first \in 1..(x - first) /\ y \in Int
        BY <3>1
      <4>2. f[x][y - first] = before[y - first]
        BY <3>6, <4>1
      <4>3. CASE y = x
        BY <3>6, <4>2, <4>3 DEF row
      <4>4. CASE y # x
        <5>1. y + 1 - first \in 1..(x - first) /\ y \in (first + 1)..(x - 1)
          BY <3>1, <4>4
        <5>2. f[x][y + 1 - first] = before[y + 1 - first]
          BY <3>6, <5>1
        <5>3. before[y + 1 - first] = Step(before[y - first], s[y])
          BY <3>2, <5>1 DEF ViterbiRows, before
        <5> QED
          BY <4>2, <5>2, <5>3
      <4> QED
        BY <4>3, <4>4
    <3>9. ViterbiRows(s, first, x, f[x])
      BY <3>5, <3>7, <3>8 DEF ViterbiRows
    <3> QED
      BY <3>9
  <2> QED
    BY <2>1, <2>2
<1>3. \A x \in P : x \in T
  <2> HIDE DEF T
  <2> QED
    BY <1>2, Upwards
<1>4. last \in T
  BY <1>3
<1> QED
  BY <1>1, <1>4

(* The statuses that Backwards reads off the rows.                         *)
StatusFrom(rows, first, last, f) ==
  [x \in first..last |->
    IF x = last THEN EndStatus(rows[x + 1 - first]) ELSE rows[x + 2 - first][f[x + 1]].path]

LEMMA BackwardsIs ==
  ASSUME NEW first \in Int, NEW last \in Int, first <= last, NEW rows \in Rows(first, last)
  PROVE  LET status == Backwards(rows, first, last) IN
         /\ status \in [first..last -> Status]
         /\ status[last] = EndStatus(rows[last + 1 - first])
         /\ \A x \in first..(last - 1) : status[x] = rows[x + 2 - first][status[x + 1]].path
<1> DEFINE P == first..last
           F == [P -> Status]
           G == [f \in F |-> StatusFrom(rows, first, last, f)]
           OfRow(x, y) == rows[x + 2 - first][y].path
<1>1. \A x \in first..(last - 1) : \A y \in Status : OfRow(x, y) \in Status
  <2> SUFFICES ASSUME NEW x \in first..(last - 1), NEW y \in Status PROVE OfRow(x, y) \in Status
    OBVIOUS
  <2>1. rows \in Seq(Row) /\ x + 2 - first \in 1..Len(rows)
    BY DEF Rows
  <2>2. rows[x + 2 - first] \in Row
    BY <2>1, ElementOfSeq
  <2> QED
    BY <2>2 DEF Row
<1>2. \A row : EndStatus(row) \in Status
  BY DEF EndStatus, Status
<1> HIDE DEF OfRow
<1>3. \A f : StatusFrom(rows, first, last, f) =
             [x \in P |-> IF x = last THEN EndStatus(rows[x + 1 - first]) ELSE OfRow(x, f[x + 1])]
  BY DEF StatusFrom, OfRow
<1>4. ASSUME NEW f \in F PROVE StatusFrom(rows, first, last, f) \in F
  <2>1. ASSUME NEW x \in P, x # last PROVE OfRow(x, f[x + 1]) \in Status
    <3>1. x \in first..(last - 1) /\ x + 1 \in P
      BY <2>1
    <3>2. f[x + 1] \in Status
      BY <3>1
    <3> QED
      BY <1>1, <3>1, <3>2
  <2> QED
    BY <1>2, <1>3, <2>1
<1>5. FunctionsOn(P, F, G)
  <2>1. G \in [F -> F]
    BY <1>4
  <2>2. [x \in P |-> "E"] \in F
    BY DEF Status
  <2> QED
    BY <2>1, <2>2 DEF FunctionsOn
<1>6. ByLaterPlaces(first, last, F, G)
  <2> SUFFICES ASSUME NEW f \in F, NEW g \in F, NEW x \in P, \A y \in (x + 1)..last : f[y] = g[y]
               PROVE  G[f][x] = G[g][x]
    BY DEF ByLaterPlaces
  <2>1. x # last => f[x + 1] = g[x + 1]
    <3>1. x # last => x + 1 \in (x + 1)..last
      OBVIOUS
    <3> QED
      BY <3>1
  <2>2. StatusFrom(rows, first, last, f)[x] = StatusFrom(rows, first, last, g)[x]
    BY <1>3, <2>1
  <2> QED
    BY <2>2
<1>7. \E f \in F : f = G[f]
  <2> HIDE DEF F, G
  <2> QED
    BY <1>5, <1>6, FromTheEnd
<1> DEFINE status == CHOOSE f : f = StatusFrom(rows, first, last, f)
<1>8. status = StatusFrom(rows, first, last, status)
  BY <1>7, Zenon
<1>9. Backwards(rows, first, last) = status
  BY Zenon DEF Backwards, StatusFrom
<1> HIDE DEF status
<1>10. /\ status[last] = EndStatus(rows[last + 1 - first])
       /\ \A x \in first..(last - 1) : status[x] = OfRow(x, status[x + 1])
       /\ status = [x \in P |-> status[x]]
  <2>1. \A x \in P : status[x] = IF x = last THEN EndStatus(rows[x + 1 - first])
                                ELSE OfRow(x, status[x + 1])
    BY <1>3, <1>8
  <2>2. last \in P /\ \A x \in first..(last - 1) : x \in P /\ x # last
    OBVIOUS
  <2>3. status = [x \in P |-> status[x]]
    BY <1>8 DEF StatusFrom
  <2> QED
    BY <2>1, <2>2, <2>3
<1> DEFINE T == {x \in P : status[x] \in Status}
<1>11. ASSUME NEW x \in P, \A y \in (x + 1)..last : y \in T PROVE x \in T
  <2>1. CASE x = last
    BY <1>2, <1>10, <2>1
  <2>2. CASE x # last
    <3>1. x \in first..(last - 1) /\ x + 1 \in (x + 1)..last
      BY <2>2
    <3>2. status[x + 1] \in Status
      BY <1>11, <3>1
    <3> QED
      BY <1>1, <1>10, <3>1, <3>2
  <2> QED
    BY <2>1, <2>2
<1>12. \A x \in P : status[x] \in Status
  <2>1. \A x \in P : x \in T
    <3> HIDE DEF T
    <3> QED
      BY <1>11, Downwards
  <2> QED
    BY <2>1
<1> QED
  BY <1>9, <1>10, <1>12 DEF OfRow

LEMMA InternalCutTiles ==
  ASSUME NEW s, NEW first \in Int, NEW last \in Int, first <= last
  PROVE  Tiles(InternalCut(s, first, last), first..last)
<1> DEFINE status == Viterbi(s, first, last)
           ends == {x \in first..last : status[x] \in {"E", "S"}}
<1>1. PICK rows : /\ rows \in Rows(first, last)
                  /\ status = Backwards(rows, first, last)
  BY ViterbiHasRows DEF ViterbiRows
<1>2. status[last] = EndStatus(rows[last + 1 - first])
  BY <1>1, BackwardsIs
<1>3. last \in ends
  BY <1>2 DEF EndStatus
<1>4. InternalCut(s, first, last) = WordsThatEnd(ends, first)
  BY DEF InternalCut
<1>5. ends \subseteq first..last
  OBVIOUS
<1> HIDE DEF ends
<1> QED
  BY <1>3, <1>4, <1>5, WordsThatEndTile

LEMMA StretchIs ==
  ASSUME NEW s, NEW i \in Int, NEW last \in Int, i <= last, NEW R, s[i] \in R
  PROVE  Stretch(s, i, last, R) \in i..last
<1> DEFINE S == {j \in (i - 1)..last : \A k \in i..j : s[k] \in R}
<1>1. S \subseteq Int /\ \A n \in S : n <= last
  OBVIOUS
<1>2. i \in S
  OBVIOUS
<1>3. Max(S) \in S /\ i <= Max(S)
  <2> HIDE DEF S
  <2> QED
    BY <1>1, <1>2, MaxOf
<1>4. Stretch(s, i, last, R) = Max(S)
  BY DEF Stretch
<1> QED
  BY <1>3, <1>4

LEMMA AsciiEndIs ==
  ASSUME NEW s, NEW i \in Int, NEW last \in Int, i <= last
  PROVE  AsciiEnd(s, i, last) \in i..last
<1>1. CASE s[i] \in Letters
  BY <1>1, StretchIs DEF AsciiEnd
<1>2. CASE s[i] \notin Letters /\ s[i] \in Digits
  BY <1>2, StretchIs DEF AsciiEnd
<1>3. CASE s[i] \notin Letters /\ s[i] \notin Digits
  BY <1>3 DEF AsciiEnd
<1> QED
  BY <1>1, <1>2, <1>3

(* HMMCut's words from a place on, for every place.                        *)
NotAsciiEnd(s, i, last) == Max({j \in i..last : \A k \in i..j : s[k] \notin Ascii})

HMMWordsFrom(s, first, last, f) ==
  [i \in first..(last + 1) |->
    IF i > last THEN {}
    ELSE IF s[i] \in Ascii
      THEN {<<i, AsciiEnd(s, i, last)>>} \cup f[AsciiEnd(s, i, last) + 1]
      ELSE InternalCut(s, i, NotAsciiEnd(s, i, last)) \cup f[NotAsciiEnd(s, i, last) + 1]]

LEMMA NotAsciiEndIs ==
  ASSUME NEW s, NEW i \in Int, NEW last \in Int, i <= last, s[i] \notin Ascii
  PROVE  NotAsciiEnd(s, i, last) \in i..last
<1> DEFINE S == {j \in i..last : \A k \in i..j : s[k] \notin Ascii}
<1>1. S \subseteq Int /\ \A n \in S : n <= last
  OBVIOUS
<1>2. i \in S
  OBVIOUS
<1>3. Max(S) \in S
  <2> HIDE DEF S
  <2> QED
    BY <1>1, <1>2, MaxOf
<1>4. NotAsciiEnd(s, i, last) = Max(S)
  BY DEF NotAsciiEnd
<1> QED
  BY <1>3, <1>4

(* What HMMCut makes of one stretch: where it ends, and its words.         *)
HMMEnd(s, i, last) == IF s[i] \in Ascii THEN AsciiEnd(s, i, last) ELSE NotAsciiEnd(s, i, last)

HMMWords(s, i, last) ==
  IF s[i] \in Ascii THEN {<<i, AsciiEnd(s, i, last)>>}
  ELSE InternalCut(s, i, NotAsciiEnd(s, i, last))

LEMMA HMMWordsTile ==
  ASSUME NEW s, NEW i \in Int, NEW last \in Int, i <= last
  PROVE  /\ HMMEnd(s, i, last) \in i..last
         /\ Tiles(HMMWords(s, i, last), i..HMMEnd(s, i, last))
<1>1. CASE s[i] \in Ascii
  <2>1. AsciiEnd(s, i, last) \in i..last
    BY AsciiEndIs
  <2>2. Tiles({<<i, AsciiEnd(s, i, last)>>}, i..AsciiEnd(s, i, last))
    BY <2>1, TilesOne
  <2> QED
    BY <1>1, <2>1, <2>2 DEF HMMEnd, HMMWords
<1>2. CASE s[i] \notin Ascii
  <2>1. NotAsciiEnd(s, i, last) \in i..last
    BY <1>2, NotAsciiEndIs
  <2>2. Tiles(InternalCut(s, i, NotAsciiEnd(s, i, last)), i..NotAsciiEnd(s, i, last))
    BY <2>1, InternalCutTiles
  <2> QED
    BY <1>2, <2>1, <2>2 DEF HMMEnd, HMMWords
<1> QED
  BY <1>1, <1>2

LEMMA HMMCutTiles ==
  ASSUME NEW s, NEW first \in Int, NEW last \in Int, first <= last + 1
  PROVE  Tiles(HMMCut(s, first, last), first..last)
<1> DEFINE P == first..(last + 1)
           F == [P -> SUBSET (Int \X Int)]
           G == [f \in F |-> HMMWordsFrom(s, first, last, f)]
           End(i) == HMMEnd(s, i, last)
           Here(i) == HMMWords(s, i, last)
<1>1. \A f : HMMWordsFrom(s, first, last, f) =
             [i \in P |-> IF i > last THEN {} ELSE Here(i) \cup f[End(i) + 1]]
  BY DEF HMMWordsFrom, HMMEnd, HMMWords
<1>2. \A i \in first..last : End(i) \in i..last /\ Tiles(Here(i), i..End(i))
  BY HMMWordsTile
<1> HIDE DEF End, Here
<1>3. ASSUME NEW f \in F PROVE HMMWordsFrom(s, first, last, f) \in F
  <2>1. ASSUME NEW i \in P, ~(i > last) PROVE Here(i) \cup f[End(i) + 1] \in SUBSET (Int \X Int)
    <3>1. End(i) \in i..last /\ Tiles(Here(i), i..End(i))
      BY <1>2, <2>1
    <3>2. End(i) + 1 \in P
      BY <3>1
    <3>3. Here(i) \subseteq Int \X Int
      BY <3>1 DEF Tiles
    <3> QED
      BY <3>2, <3>3
  <2> QED
    BY <1>1, <2>1
<1>4. FunctionsOn(P, F, G)
  <2>1. G \in [F -> F]
    BY <1>3
  <2>2. [i \in P |-> {}] \in F
    OBVIOUS
  <2> QED
    BY <2>1, <2>2 DEF FunctionsOn
<1>5. ByLaterPlaces(first, last + 1, F, G)
  <2> SUFFICES ASSUME NEW f \in F, NEW g \in F, NEW i \in P, \A j \in (i + 1)..(last + 1) : f[j] = g[j]
               PROVE  G[f][i] = G[g][i]
    BY DEF ByLaterPlaces
  <2>1. ~(i > last) => f[End(i) + 1] = g[End(i) + 1]
    <3>1. ~(i > last) => End(i) + 1 \in (i + 1)..(last + 1)
      BY <1>2
    <3> QED
      BY <3>1
  <2>2. HMMWordsFrom(s, first, last, f)[i] = HMMWordsFrom(s, first, last, g)[i]
    <3>1. HMMWordsFrom(s, first, last, f) =
            [x \in P |-> IF x > last THEN {} ELSE Here(x) \cup f[End(x) + 1]]
      BY <1>1
    <3>2. HMMWordsFrom(s, first, last, g) =
            [x \in P |-> IF x > last THEN {} ELSE Here(x) \cup g[End(x) + 1]]
      BY <1>1
    <3> QED
      BY <2>1, <3>1, <3>2
  <2> QED
    BY <2>2
<1>6. \E f \in F : f = G[f]
  <2>1. last + 1 \in Int
    OBVIOUS
  <2> HIDE DEF F, G
  <2> QED
    BY <1>4, <1>5, <2>1, FromTheEnd
<1> DEFINE words == CHOOSE f : f = HMMWordsFrom(s, first, last, f)
<1>7. words = HMMWordsFrom(s, first, last, words)
  BY <1>6, Zenon
<1>8. HMMCut(s, first, last) = words[first]
  BY Zenon DEF HMMCut, HMMWordsFrom, NotAsciiEnd
<1> HIDE DEF words
<1>9. \A i \in P : words[i] = IF i > last THEN {} ELSE Here(i) \cup words[End(i) + 1]
  BY <1>1, <1>7
<1> DEFINE T == {i \in P : Tiles(words[i], i..last)}
<1>10. ASSUME NEW i \in P, \A j \in (i + 1)..(last + 1) : j \in T PROVE i \in T
  <2>1. CASE i > last
    <3>1. /\ words[i] = {}
          /\ i..last = {}
      <4>1. words[i] = {}
        BY <1>9, <2>1
      <4>2. i..last = {}
        BY <2>1
      <4> QED
        BY <4>1, <4>2
    <3>2. Tiles(words[i], i..last)
      BY <3>1, TilesNothing
    <3> QED
      BY <3>2
  <2>2. CASE ~(i > last)
    <3> DEFINE e == End(i)
    <3>1. e \in i..last /\ Tiles(Here(i), i..e) /\ i \in Int
      BY <1>2, <2>2
    <3>2. Tiles(words[e + 1], (e + 1)..last)
      <4>1. e + 1 \in (i + 1)..(last + 1)
        BY <3>1
      <4> HIDE DEF e
      <4> QED
        BY <1>10, <4>1
    <3>3. (i..e) \cap ((e + 1)..last) = {} /\ (i..e) \cup ((e + 1)..last) = i..last
      BY <3>1
    <3>4. words[i] = Here(i) \cup words[e + 1]
      BY <1>9, <2>2
    <3> HIDE DEF e
    <3>5. Tiles(Here(i) \cup words[e + 1], (i..e) \cup ((e + 1)..last))
      BY <3>1, <3>2, <3>3, TilesBoth
    <3>6. Tiles(words[i], i..last)
      BY <3>3, <3>4, <3>5
    <3> QED
      BY <3>6
  <2> QED
    BY <2>1, <2>2
<1>11. \A i \in P : i \in T
  <2>1. last + 1 \in Int
    OBVIOUS
  <2> HIDE DEF T
  <2> QED
    BY <1>10, <2>1, Downwards
<1>12. first \in T
  BY <1>11
<1> QED
  BY <1>8, <1>12

-----------------------------------------------------------------------------
(* The whole cut.                                                          *)

LEMMA RecutTiles ==
  ASSUME NEW s, NEW first \in Int, NEW last \in Int,
         NEW words, Tiles(words, first..last)
  PROVE  Tiles(Recut(s, words), first..last)
<1> DEFINE singles == {w \in words : w[1] = w[2] /\ ~IsUserDictSingle(s[w[1]])}
           P == {w[1] : w \in singles}
           H == [p \in Stretches(P) |-> HMMCut(s, p[1], p[2])]
<1>1. /\ singles \subseteq words
      /\ \A w \in singles : w[1] \in Int /\ w[1] = w[2] /\ w[1] \in first..last
  BY DEF Tiles
<1>2. P = UNION {w[1]..w[2] : w \in singles}
  <2>1. \A w \in singles : w[1]..w[2] = {w[1]}
    BY <1>1
  <2> HIDE DEF singles
  <2> QED
    BY <2>1
<1>3. Tiles(words \ singles, (first..last) \ P)
  <2> HIDE DEF singles, P
  <2> QED
    BY <1>1, <1>2, TilesRest
<1>4. P \subseteq first..last
  BY <1>1
<1>5. Tiles(Stretches(P), P)
  <2> HIDE DEF P
  <2> QED
    BY <1>4, StretchesTile
<1>6. ASSUME NEW p \in Stretches(P) PROVE Tiles(H[p], p[1]..p[2])
  <2>1. p[1] \in Int /\ p[2] \in Int /\ p[1] <= p[2]
    <3> HIDE DEF P
    <3> QED
      BY <1>5 DEF Tiles
  <2>2. H[p] = HMMCut(s, p[1], p[2])
    OBVIOUS
  <2>3. p[1] <= p[2] + 1
    BY <2>1
  <2> QED
    BY <2>1, <2>2, <2>3, HMMCutTiles
<1>7. Recut(s, words) = (words \ singles) \cup UNION {H[p] : p \in Stretches(P)}
  BY DEF Recut
<1> HIDE DEF H, P, singles
<1>8. Tiles(UNION {H[p] : p \in Stretches(P)}, P)
  BY <1>5, <1>6, TilesEach
<1>9. Tiles((words \ singles) \cup UNION {H[p] : p \in Stretches(P)}, ((first..last) \ P) \cup P)
  BY <1>3, <1>8, TilesBoth
<1>10. ((first..last) \ P) \cup P = first..last
  BY <1>4
<1> QED
  BY <1>7, <1>9, <1>10

LEMMA PiecesTile ==
  ASSUME NEW s, Len(s) \in Nat
  PROVE  Tiles(Pieces(s), 1..Len(s))
<1> DEFINE seps == {i \in 1..Len(s) : s[i] \in Separators}
           rest == (1..Len(s)) \ seps
<1>1. Tiles({<<i, i>> : i \in seps}, seps)
  <2> DEFINE C == {<<i, i>> : i \in seps}
  <2>1. \A i \in seps : i \in Int /\ i..i = {i}
    OBVIOUS
  <2> HIDE DEF seps
  <2>2. C \subseteq Int \X Int
    BY <2>1
  <2>3. \A w \in C : w[1] <= w[2] /\ w[1]..w[2] \subseteq seps
    BY <2>1
  <2>4. ASSUME NEW i \in seps
        PROVE  \E w \in C : i \in w[1]..w[2] /\ \A v \in C : i \in v[1]..v[2] => v = w
    <3>1. <<i, i>> \in C /\ i \in <<i, i>>[1]..<<i, i>>[2]
      BY <2>1
    <3>2. \A v \in C : i \in v[1]..v[2] => v = <<i, i>>
      BY <2>1
    <3> HIDE DEF C
    <3> QED
      BY <3>1, <3>2
  <2> HIDE DEF C
  <2>5. Tiles(C, seps)
    BY <2>2, <2>3, <2>4 DEF Tiles
  <2> QED
    BY <2>5 DEF C
<1>2. Tiles(Stretches(rest), rest)
  <2>1. rest \subseteq 1..Len(s) /\ 1 \in Int /\ Len(s) \in Int
    OBVIOUS
  <2> HIDE DEF rest
  <2> QED
    BY <2>1, StretchesTile
<1>3. seps \cap rest = {} /\ seps \cup rest = 1..Len(s)
  OBVIOUS
<1>4. Pieces(s) = {<<i, i>> : i \in seps} \cup Stretches(rest)
  BY DEF Pieces
<1> HIDE DEF seps, rest
<1>5. Tiles({<<i, i>> : i \in seps} \cup Stretches(rest), seps \cup rest)
  BY <1>1, <1>2, <1>3, TilesBoth
<1> QED
  BY <1>3, <1>4, <1>5

LEMMA CutTiles ==
  ASSUME NEW s, Len(s) \in Nat
  PROVE  Tiles(Cut(s), 1..Len(s))
<1> DEFINE H == [p \in Pieces(s) |-> MixCut(s, p[1], p[2])]
<1>1. Tiles(Pieces(s), 1..Len(s))
  BY PiecesTile
<1>2. ASSUME NEW p \in Pieces(s) PROVE Tiles(H[p], p[1]..p[2])
  <2>1. p[1] \in Int /\ p[2] \in Int /\ p[1] <= p[2]
    BY <1>1 DEF Tiles
  <2>2. p[1] <= p[2] + 1
    BY <2>1
  <2>3. Tiles(MPCut(s, p[1], p[2]), p[1]..p[2])
    BY <2>1, <2>2, MPCutTiles
  <2>4. Tiles(MixCut(s, p[1], p[2]), p[1]..p[2])
    BY <2>1, <2>3, RecutTiles DEF MixCut
  <2> QED
    BY <2>4
<1>3. Cut(s) = UNION {H[p] : p \in Pieces(s)}
  BY DEF Cut
<1> HIDE DEF H
<1> QED
  BY <1>1, <1>2, <1>3, TilesEach

LEMMA TextLen ==
  ASSUME NEW t, IsSeq(t)
  PROVE  Len(t) \in Nat
BY LenProperties DEF IsSeq

-----------------------------------------------------------------------------
(* What is searched for is a text.                                         *)
KeyIsText == keyWords = << >> \/ keyWords \in Keys

LEMMA KeyIsAlwaysText == Spec => []KeyIsText
<1>1. Init => KeyIsText
  BY DEF Init, KeyIsText
<1>2. KeyIsText /\ [Next]_vars => KeyIsText'
  <2> SUFFICES ASSUME KeyIsText, [Next]_vars PROVE KeyIsText'
    OBVIOUS
  <2>1. CASE UNCHANGED vars
    BY <2>1 DEF KeyIsText, vars
  <2>2. ASSUME NEW text \in Questions, InsertQuestion(text) PROVE KeyIsText'
    BY <2>2 DEF KeyIsText, InsertQuestion, BecomeTables
  <2>3. ASSUME NEW entries \in Files, UpdateDataBase(entries) PROVE KeyIsText'
    BY <2>3 DEF KeyIsText, UpdateDataBase, BecomeTables
  <2>4. ASSUME NEW key \in Keys, QueryQuestion(key) PROVE KeyIsText'
    BY <2>4 DEF KeyIsText, QueryQuestion
  <2> QED
    BY <2>1, <2>2, <2>3, <2>4 DEF Next
<1> QED
  BY <1>1, <1>2, PTL DEF Spec

LEMMA KeyLen == KeyIsText => Len(keyWords) \in Nat
<1>1. Len(<< >>) \in Nat
  OBVIOUS
<1> QED
  BY <1>1, QuestionSearchAssumption, TextLen DEF KeyIsText

(* A cut covers its text without gaps or overlaps, whatever is in the      *)
(* dictionaries and in the model: MPSegment's words tile what PreFilter    *)
(* leaves between separators, from CalcDP's ends; and so do HMMSegment's   *)
(* what is left single, as EndStatus ends the last word with the text.     *)
THEOREM CutCoversHolds == Spec => []CutCovers
<1>1. KeyIsText => CutCovers
  <2> SUFFICES ASSUME KeyIsText PROVE CutCovers
    OBVIOUS
  <2>1. Tiles(Cut(keyWords), 1..Len(keyWords))
    BY KeyLen, CutTiles
  <2> QED
    BY <2>1 DEF CutCovers, Tiles
<1> QED
  BY <1>1, KeyIsAlwaysText, PTL

-----------------------------------------------------------------------------
(* The weight of a cut.                                                    *)

WeightsFrom(s, C, first, last, f) ==
  [i \in first..(last + 1) |-> IF i > last THEN 0 ELSE WeightAt(s, C, i) + f[i + 1]]

LEMMA WeightAtType ==
  ASSUME NEW s, NEW C, NEW i
  PROVE  WeightAt(s, C, i) \in Int
BY UnitWeightType DEF WeightAt

(* What the words of a cut from a place on weigh, for every place.         *)
SumsWeights(s, C, first, last, f) ==
  /\ \A i \in first..(last + 1) : f[i] \in Int
  /\ f[last + 1] = 0
  /\ \A i \in first..last : f[i] = WeightAt(s, C, i) + f[i + 1]

LEMMA WeightsExist ==
  ASSUME NEW s, NEW C, NEW first \in Int, NEW last \in Int, first <= last + 1
  PROVE  \E f : CutWeight(s, C, first, last) = f[first] /\ SumsWeights(s, C, first, last, f)
<1> DEFINE P == first..(last + 1)
           F == [P -> Int]
           G == [f \in F |-> WeightsFrom(s, C, first, last, f)]
<1>1. ASSUME NEW f \in F PROVE WeightsFrom(s, C, first, last, f) \in F
  <2>1. ASSUME NEW i \in P, ~(i > last) PROVE WeightAt(s, C, i) + f[i + 1] \in Int
    <3>1. i + 1 \in P
      BY <2>1
    <3> QED
      BY <3>1, WeightAtType
  <2> QED
    BY <2>1 DEF WeightsFrom
<1>2. FunctionsOn(P, F, G)
  <2>1. G \in [F -> F]
    BY <1>1
  <2>2. [i \in P |-> 0] \in F
    OBVIOUS
  <2> QED
    BY <2>1, <2>2 DEF FunctionsOn
<1>3. ByLaterPlaces(first, last + 1, F, G)
  <2> SUFFICES ASSUME NEW f \in F, NEW g \in F, NEW i \in P, \A j \in (i + 1)..(last + 1) : f[j] = g[j]
               PROVE  G[f][i] = G[g][i]
    BY DEF ByLaterPlaces
  <2>1. ~(i > last) => f[i + 1] = g[i + 1]
    <3>1. ~(i > last) => i + 1 \in (i + 1)..(last + 1)
      OBVIOUS
    <3> QED
      BY <3>1
  <2>2. WeightsFrom(s, C, first, last, f)[i] = WeightsFrom(s, C, first, last, g)[i]
    BY <2>1 DEF WeightsFrom
  <2> QED
    BY <2>2
<1>4. \E f \in F : f = G[f]
  <2>1. last + 1 \in Int
    OBVIOUS
  <2> HIDE DEF F, G
  <2> QED
    BY <1>2, <1>3, <2>1, FromTheEnd
<1> DEFINE weight == CHOOSE f : f = WeightsFrom(s, C, first, last, f)
<1>5. weight = WeightsFrom(s, C, first, last, weight)
  BY <1>4, Zenon
<1>6. CutWeight(s, C, first, last) = weight[first]
  BY Zenon DEF CutWeight, WeightsFrom
<1> HIDE DEF weight
<1>7. ASSUME NEW i \in P
      PROVE  weight[i] = IF i > last THEN 0 ELSE WeightAt(s, C, i) + weight[i + 1]
  <2>1. weight[i] = WeightsFrom(s, C, first, last, weight)[i]
    <3> HIDE DEF P
    <3> QED
      BY <1>5, Zenon
  <2> QED
    BY <2>1 DEF WeightsFrom
<1> DEFINE T == {i \in P : weight[i] \in Int}
<1>8. ASSUME NEW i \in P, \A j \in (i + 1)..(last + 1) : j \in T PROVE i \in T
  <2>1. CASE i > last
    BY <1>7, <2>1
  <2>2. CASE ~(i > last)
    <3>1. i + 1 \in (i + 1)..(last + 1)
      BY <2>2
    <3>2. weight[i + 1] \in Int
      BY <1>8, <3>1
    <3>3. WeightAt(s, C, i) \in Int
      BY WeightAtType
    <3> QED
      BY <1>7, <2>2, <3>2, <3>3
  <2> QED
    BY <2>1, <2>2
<1>9. \A i \in P : i \in T
  <2>1. last + 1 \in Int
    OBVIOUS
  <2> HIDE DEF T
  <2> QED
    BY <1>8, <2>1, Downwards
<1>10. weight[last + 1] = 0
  <2>1. last + 1 \in P /\ last + 1 > last
    OBVIOUS
  <2> QED
    BY <1>7, <2>1
<1>11. \A i \in first..last : weight[i] = WeightAt(s, C, i) + weight[i + 1]
  <2>1. \A i \in first..last : i \in P /\ ~(i > last)
    OBVIOUS
  <2> QED
    BY <1>7, <2>1
<1> QED
  BY <1>6, <1>9, <1>10, <1>11 DEF SumsWeights

(* In a cut one word follows the other.                                    *)
LEMMA TileAt ==
  ASSUME NEW C, NEW first \in Int, NEW last \in Int, Tiles(C, first..last),
         NEW v \in C, NEW w \in C, NEW i \in Int, i \in v[1]..v[2], i \in w[1]..w[2]
  PROVE  v = w
<1>1. i \in first..last
  BY DEF Tiles
<1> QED
  BY <1>1 DEF Tiles

LEMMA TileEnds ==
  ASSUME NEW C, NEW first \in Int, NEW last \in Int, Tiles(C, first..last), NEW w \in C
  PROVE  w[1] \in Int /\ w[2] \in Int /\ first <= w[1] /\ w[1] <= w[2] /\ w[2] <= last
<1>1. w[1] \in Int /\ w[2] \in Int /\ w[1] <= w[2] /\ w[1]..w[2] \subseteq first..last
  BY DEF Tiles
<1>2. w[1] \in first..last /\ w[2] \in first..last
  BY <1>1
<1> QED
  BY <1>1, <1>2

LEMMA NextWord ==
  ASSUME NEW C, NEW first \in Int, NEW last \in Int, Tiles(C, first..last),
         NEW i \in first..last, i = first \/ \E w \in C : i = w[2] + 1
  PROVE  \E v \in C : v[1] = i
<1>1. PICK v \in C : i \in v[1]..v[2]
  BY DEF Tiles
<1>2. v[1] \in Int /\ v[2] \in Int /\ first <= v[1] /\ v[1] <= i /\ i <= v[2]
  BY <1>1, TileEnds
<1>3. CASE i = first
  BY <1>2, <1>3
<1>4. ASSUME NEW w \in C, i = w[2] + 1 PROVE v[1] = i
  <2>1. w[1] \in Int /\ w[2] \in Int /\ w[1] <= w[2]
    BY TileEnds
  <2>2. SUFFICES ASSUME v[1] < i PROVE FALSE
    BY <1>2
  <2>3. w[2] \in v[1]..v[2] /\ w[2] \in w[1]..w[2]
    BY <1>2, <1>4, <2>1, <2>2
  <2>4. v = w
    BY <2>1, <2>3, TileAt
  <2> QED
    BY <1>2, <1>4, <2>1, <2>4
<1> QED
  BY <1>1, <1>3, <1>4

LEMMA WeightOfWord ==
  ASSUME NEW s, NEW C, NEW first \in Int, NEW last \in Int, Tiles(C, first..last),
         NEW f, SumsWeights(s, C, first, last, f),
         NEW w \in C
  PROVE  f[w[1]] = UnitWeight(s, w[1], w[2]) + f[w[2] + 1]
<1>0. /\ \A i \in first..(last + 1) : f[i] \in Int
      /\ \A i \in first..last : f[i] = WeightAt(s, C, i) + f[i + 1]
  BY DEF SumsWeights
<1>1. w[1] \in Int /\ w[2] \in Int /\ first <= w[1] /\ w[1] <= w[2] /\ w[2] <= last
  BY TileEnds
<1>2. \A v \in C : v[1] \in w[1]..w[2] => v = w
  <2> SUFFICES ASSUME NEW v \in C, v[1] \in w[1]..w[2] PROVE v = w
    OBVIOUS
  <2>1. v[1] \in Int /\ v[1] \in v[1]..v[2]
    BY TileEnds
  <2> QED
    BY <2>1, TileAt
<1>3. WeightAt(s, C, w[1]) = UnitWeight(s, w[1], w[2])
  <2>1. w[1] \in w[1]..w[2]
    BY <1>1
  <2>2. \A v \in C : v[1] = w[1] => v = w
    BY <1>2, <2>1
  <2>3. (CHOOSE v \in C : v[1] = w[1]) = w
    BY <2>2
  <2> QED
    BY <2>3 DEF WeightAt
<1>4. \A i \in (w[1] + 1)..w[2] : WeightAt(s, C, i) = 0
  <2> SUFFICES ASSUME NEW i \in (w[1] + 1)..w[2] PROVE WeightAt(s, C, i) = 0
    OBVIOUS
  <2>1. ~ \E v \in C : v[1] = i
    <3>1. i \in w[1]..w[2] /\ i # w[1]
      BY <1>1
    <3> QED
      BY <1>2, <3>1
  <2> QED
    BY <2>1 DEF WeightAt
<1> DEFINE a == w[1] + 1
           b == w[2] + 1
           T == {i \in a..b : f[i] = f[b]}
<1>5. ASSUME NEW i \in a..b, \A j \in (i + 1)..b : j \in T PROVE i \in T
  <2>1. CASE i = b
    BY <2>1
  <2>2. CASE i # b
    <3>1. /\ i \in (w[1] + 1)..w[2] /\ i \in first..last
          /\ i + 1 \in (i + 1)..b /\ i + 1 \in first..(last + 1)
      <4>1. i \in Int /\ w[1] + 1 <= i /\ i <= w[2] + 1 /\ i # w[2] + 1
        BY <1>1, <2>2
      <4>2. i <= w[2] /\ first <= i /\ i <= last
        BY <1>1, <4>1
      <4> QED
        BY <1>1, <4>1, <4>2
    <3>2. f[i + 1] = f[b]
      BY <1>5, <3>1
    <3>3. f[i] = WeightAt(s, C, i) + f[i + 1] /\ WeightAt(s, C, i) = 0 /\ f[i + 1] \in Int
      BY <1>0, <1>4, <3>1
    <3> QED
      BY <3>2, <3>3
  <2> QED
    BY <2>1, <2>2
<1>6. \A i \in a..b : i \in T
  <2>1. a \in Int /\ b \in Int
    BY <1>1
  <2> HIDE DEF T, a, b
  <2> QED
    BY <1>5, <2>1, Downwards
<1>7. a \in a..b /\ w[1] \in first..last
  BY <1>1
<1>8. f[a] = f[b]
  BY <1>6, <1>7
<1>9. f[w[1]] = WeightAt(s, C, w[1]) + f[a]
  BY <1>0, <1>7
<1> QED
  BY <1>3, <1>8, <1>9

(* The weights that CalcDP finds, in terms of each other.                  *)
DagWeight(s, first, last, i) == IF i > last THEN 0 ELSE CalcDP(s, first, last)[i + 1 - first].weight

LEMMA DagWeightIsBest ==
  ASSUME NEW s, NEW first \in Int, NEW last \in Int, NEW i \in first..last
  PROVE  /\ DagWeight(s, first, last, i) \in Int
         /\ LET end == CalcDP(s, first, last)[i + 1 - first].end IN
            DagWeight(s, first, last, i) = UnitWeight(s, i, end) + DagWeight(s, first, last, end + 1)
         /\ \A j \in Nexts(s, i, last) :
              UnitWeight(s, i, j) + DagWeight(s, first, last, j + 1) <= DagWeight(s, first, last, i)
<1> DEFINE dags == CalcDP(s, first, last)
           D(j) == DagWeight(s, first, last, j)
<1>1. dags \in Seq(Dag) /\ Len(dags) = last + 1 - first
  BY CalcDPIsBest DEF Dags
<1>2. PICK rest \in Dags(i + 1, last) :
        /\ IsBest(dags[i + 1 - first], s, i, last, rest)
        /\ \A j \in (i + 1)..last : rest[j - i] = dags[j + 1 - first]
  <2>1. first <= last + 1
    OBVIOUS
  <2> QED
    BY <2>1, CalcDPIsBest
<1>3. D(i) = dags[i + 1 - first].weight /\ D(i) \in Int
  <2>1. i + 1 - first \in 1..Len(dags)
    BY <1>1
  <2>2. dags[i + 1 - first] \in Dag
    BY <1>1, <2>1, ElementOfSeq
  <2>3. ~(i > last)
    OBVIOUS
  <2> QED
    BY <2>2, <2>3 DEF DagWeight, Dag
<1>4. ASSUME NEW j \in i..last
      PROVE  ValueOf(s, i, j, last, rest) = UnitWeight(s, i, j) + D(j + 1)
  <2>1. CASE j = last
    <3>1. j + 1 > last
      BY <2>1
    <3> QED
      BY <2>1, <3>1 DEF ValueOf, DagWeight
  <2>2. CASE j # last
    <3>1. j + 1 \in (i + 1)..last /\ ~(j + 1 > last)
      BY <2>2
    <3>2. rest[(j + 1) - i] = dags[(j + 1) + 1 - first]
      BY <1>2, <3>1
    <3>3. D(j + 1) = dags[(j + 1) + 1 - first].weight
      BY <3>1 DEF DagWeight
    <3> QED
      BY <2>2, <3>2, <3>3 DEF ValueOf
  <2> QED
    BY <2>1, <2>2
<1>5. Nexts(s, i, last) \subseteq i..last
  <2>1. i \in Int /\ i <= last
    OBVIOUS
  <2> QED
    BY <2>1, NextsFacts
<1>6. D(i) = UnitWeight(s, i, dags[i + 1 - first].end) + D(dags[i + 1 - first].end + 1)
  BY <1>2, <1>3, <1>4, <1>5 DEF IsBest
<1>7. \A j \in Nexts(s, i, last) : UnitWeight(s, i, j) + D(j + 1) <= D(i)
  BY <1>2, <1>3, <1>4, <1>5 DEF IsBest
<1> QED
  BY <1>3, <1>6, <1>7

LEMMA CutIsLighter ==
  ASSUME NEW s, NEW first \in Int, NEW last \in Int, first <= last, NEW C, Tiles(C, first..last),
         \A w \in C : w[2] \in Nexts(s, w[1], last)
  PROVE  /\ CutWeight(s, C, first, last) <= DagWeight(s, first, last, first)
         /\ (\A w \in C : w[2] = CalcDP(s, first, last)[w[1] + 1 - first].end)
               => CutWeight(s, C, first, last) = DagWeight(s, first, last, first)
<1> DEFINE D(j) == DagWeight(s, first, last, j)
           End(j) == CalcDP(s, first, last)[j + 1 - first].end
           Best == \A w \in C : w[2] = End(w[1])
           P == first..(last + 1)
<1>0. PICK f : CutWeight(s, C, first, last) = f[first] /\ SumsWeights(s, C, first, last, f)
  <2>1. first <= last + 1
    OBVIOUS
  <2> QED
    BY <2>1, WeightsExist
<1>1. f[last + 1] = 0 /\ \A i \in P : f[i] \in Int
  BY <1>0 DEF SumsWeights
<1>2. ASSUME NEW w \in C
      PROVE  /\ w[1] \in first..last /\ w[2] + 1 \in (w[1] + 1)..(last + 1) /\ w[2] + 1 \in P
             /\ f[w[1]] = UnitWeight(s, w[1], w[2]) + f[w[2] + 1]
             /\ w[2] + 1 = last + 1 \/ \E v \in C : v[1] = w[2] + 1
             /\ D(w[1]) \in Int /\ D(w[2] + 1) \in Int /\ f[w[2] + 1] \in Int
             /\ UnitWeight(s, w[1], w[2]) + D(w[2] + 1) <= D(w[1])
             /\ Best => D(w[1]) = UnitWeight(s, w[1], w[2]) + D(w[2] + 1)
  <2>1. w[1] \in Int /\ w[2] \in Int /\ first <= w[1] /\ w[1] <= w[2] /\ w[2] <= last
    BY TileEnds
  <2>2. w[1] \in first..last /\ w[2] + 1 \in (w[1] + 1)..(last + 1) /\ w[2] + 1 \in P
    BY <2>1
  <2>3. f[w[1]] = UnitWeight(s, w[1], w[2]) + f[w[2] + 1]
    BY <1>0, WeightOfWord
  <2>4. w[2] + 1 = last + 1 \/ \E v \in C : v[1] = w[2] + 1
    <3>1. w[2] + 1 # last + 1 => w[2] + 1 \in first..last
      BY <2>1
    <3> QED
      BY <3>1, NextWord
  <2>5. D(w[1]) \in Int
    BY <2>2, DagWeightIsBest
  <2>6. D(w[2] + 1) \in Int
    <3>1. CASE w[2] = last
      <4>1. w[2] + 1 > last
        BY <3>1
      <4> QED
        BY <4>1 DEF DagWeight
    <3>2. CASE w[2] # last
      <4>1. w[2] + 1 \in first..last
        BY <2>1, <3>2
      <4> QED
        BY <4>1, DagWeightIsBest
    <3> QED
      BY <3>1, <3>2
  <2>7. UnitWeight(s, w[1], w[2]) + D(w[2] + 1) <= D(w[1])
    BY <2>2, DagWeightIsBest
  <2>8. Best => D(w[1]) = UnitWeight(s, w[1], w[2]) + D(w[2] + 1)
    <3>1. D(w[1]) = UnitWeight(s, w[1], End(w[1])) + D(End(w[1]) + 1)
      BY <2>2, DagWeightIsBest
    <3> HIDE DEF End, D
    <3> QED
      BY <3>1
  <2> HIDE DEF Best, D
  <2> QED
    BY <1>1, <2>2, <2>3, <2>4, <2>5, <2>6, <2>7, <2>8
<1>3. D(last + 1) = 0
  <2>1. last + 1 > last
    OBVIOUS
  <2> QED
    BY <2>1 DEF DagWeight
<1> HIDE DEF D, Best
<1> DEFINE Starts(i) == i = last + 1 \/ \E w \in C : w[1] = i
           T == {i \in P : Starts(i) => f[i] <= D(i) /\ (Best => f[i] = D(i))}
<1>4. ASSUME NEW i \in P, \A j \in (i + 1)..(last + 1) : j \in T PROVE i \in T
  <2>1. CASE i = last + 1
    BY <1>1, <1>3, <2>1
  <2>2. ASSUME NEW w \in C, w[1] = i PROVE f[i] <= D(i) /\ (Best => f[i] = D(i))
    <3> DEFINE j == w[2] + 1
    <3>1. j \in T /\ Starts(j)
      BY <1>2, <1>4, <2>2
    <3>2. f[j] <= D(j) /\ (Best => f[j] = D(j))
      BY <3>1
    <3>3. /\ f[i] = UnitWeight(s, w[1], w[2]) + f[j]
          /\ D(i) \in Int /\ D(j) \in Int /\ f[j] \in Int
          /\ UnitWeight(s, w[1], w[2]) + D(j) <= D(i)
          /\ Best => D(i) = UnitWeight(s, w[1], w[2]) + D(j)
      BY <1>2, <2>2
    <3>4. UnitWeight(s, w[1], w[2]) \in Int
      BY UnitWeightType
    <3> HIDE DEF j
    <3> QED
      BY <3>2, <3>3, <3>4
  <2> QED
    BY <2>1, <2>2
<1>5. \A i \in P : i \in T
  <2>1. last + 1 \in Int
    OBVIOUS
  <2> HIDE DEF T
  <2> QED
    BY <1>4, <2>1, Downwards
<1>6. Starts(first) /\ first \in P
  <2>1. first \in first..last
    OBVIOUS
  <2> QED
    BY <2>1, NextWord
<1>7. f[first] <= D(first) /\ (Best => f[first] = D(first))
  BY <1>5, <1>6
<1> QED
  BY <1>0, <1>7 DEF D, Best

LEMMA AllCutsTile ==
  ASSUME NEW s, NEW first \in Int, NEW last \in Int, NEW C
  PROVE  C \in AllCuts(s, first, last) <=>
           Tiles(C, first..last) /\ \A w \in C : w[2] \in Nexts(s, w[1], last)
<1>1. ASSUME C \in AllCuts(s, first, last)
      PROVE  Tiles(C, first..last) /\ \A w \in C : w[2] \in Nexts(s, w[1], last)
  <2>1. /\ C \subseteq (first..last) \X (first..last)
        /\ \A w \in C : w[2] \in Nexts(s, w[1], last)
        /\ \A i \in first..last : \E w \in C : i \in w[1]..w[2]
        /\ \A v, w \in C : v # w => v[2] < w[1] \/ w[2] < v[1]
    BY <1>1 DEF AllCuts
  <2>2. ASSUME NEW w \in C
        PROVE  /\ w[1] \in first..last /\ w[2] \in first..last
               /\ w[1] <= w[2] /\ w[1]..w[2] \subseteq first..last
    <3>1. w[1] \in first..last /\ w[2] \in first..last
      BY <2>1
    <3>2. w[2] \in w[1]..last
      <4>1. w[1] \in Int /\ w[1] <= last
        BY <3>1
      <4> QED
        BY <2>1, <4>1, NextsFacts
    <3> QED
      BY <3>1, <3>2
  <2>3. C \subseteq Int \X Int
    BY <2>1
  <2>4. ASSUME NEW i \in first..last
        PROVE  \E w \in C : i \in w[1]..w[2] /\ \A v \in C : i \in v[1]..v[2] => v = w
    <3>1. PICK w \in C : i \in w[1]..w[2]
      BY <2>1
    <3>2. ASSUME NEW v \in C, i \in v[1]..v[2] PROVE v = w
      <4>1. /\ v[1] \in Int /\ v[2] \in Int /\ w[1] \in Int /\ w[2] \in Int
            /\ v[1] <= i /\ i <= v[2] /\ w[1] <= i /\ i <= w[2]
        BY <2>2, <3>1, <3>2
      <4>2. ~(v[2] < w[1]) /\ ~(w[2] < v[1])
        BY <4>1
      <4> QED
        BY <2>1, <4>2
    <3> QED
      BY <3>1, <3>2
  <2>5. Tiles(C, first..last)
    BY <2>2, <2>3, <2>4 DEF Tiles
  <2> QED
    BY <2>1, <2>5
<1>2. ASSUME Tiles(C, first..last), \A w \in C : w[2] \in Nexts(s, w[1], last)
      PROVE  C \in AllCuts(s, first, last)
  <2>1. ASSUME NEW w \in C PROVE w \in (first..last) \X (first..last)
    <3>1. w[1] \in Int /\ w[2] \in Int /\ first <= w[1] /\ w[1] <= w[2] /\ w[2] <= last
      BY <1>2, TileEnds
    <3>2. w[1] \in first..last /\ w[2] \in first..last /\ w = <<w[1], w[2]>>
      BY <1>2, <3>1 DEF Tiles
    <3> QED
      BY <3>2
  <2>2. \A i \in first..last : \E w \in C : i \in w[1]..w[2]
    BY <1>2 DEF Tiles
  <2>3. ASSUME NEW v \in C, NEW w \in C, v # w PROVE v[2] < w[1] \/ w[2] < v[1]
    <3>1. /\ v[1] \in Int /\ v[2] \in Int /\ v[1] <= v[2]
          /\ w[1] \in Int /\ w[2] \in Int /\ w[1] <= w[2]
      BY <1>2, TileEnds
    <3>2. SUFFICES ASSUME w[1] <= v[2], v[1] <= w[2] PROVE FALSE
      BY <3>1
    <3> DEFINE i == IF v[1] <= w[1] THEN w[1] ELSE v[1]
    <3>3. i \in Int /\ i \in v[1]..v[2] /\ i \in w[1]..w[2]
      BY <3>1, <3>2
    <3> HIDE DEF i
    <3> QED
      BY <1>2, <2>3, <3>3, TileAt
  <2> QED
    BY <1>2, <2>1, <2>2, <2>3 DEF AllCuts
<1> QED
  BY <1>1, <1>2

(* No way to cut what is between separators into words of the dictionary   *)
(* and single runes weighs more than the one MPSegment takes.  From the    *)
(* end to the front CalcDP's weight for a place is the greatest of those   *)
(* of all words there with the weights for the places after them, so that  *)
(* no cut of the places from there on weighs more; and CutByDag follows    *)
(* the words that give it.                                                 *)
THEOREM CutIsHeaviestHolds == Spec => []CutIsHeaviest
<1>1. KeyIsText => CutIsHeaviest
  <2> SUFFICES ASSUME KeyIsText, NEW p \in Pieces(keyWords)
               PROVE  LET all == AllCuts(keyWords, p[1], p[2])
                          cut == MPCut(keyWords, p[1], p[2])
                      IN  /\ cut \in all
                          /\ \A C \in all : CutWeight(keyWords, C, p[1], p[2])
                                              <= CutWeight(keyWords, cut, p[1], p[2])
    BY DEF CutIsHeaviest
  <2> DEFINE cut == MPCut(keyWords, p[1], p[2])
             D == DagWeight(keyWords, p[1], p[2], p[1])
  <2>1. p[1] \in Int /\ p[2] \in Int /\ p[1] <= p[2] /\ p[1] <= p[2] + 1
    <3>1. p[1] \in Int /\ p[2] \in Int /\ p[1] <= p[2]
      BY KeyLen, PiecesTile DEF Tiles
    <3> QED
      BY <3>1
  <2>2. Tiles(cut, p[1]..p[2]) /\ \A w \in cut : w[2] \in Nexts(keyWords, w[1], p[2])
    BY <2>1, MPCutTiles, MPCutWords
  <2>3. cut \in AllCuts(keyWords, p[1], p[2])
    <3> HIDE DEF cut
    <3> QED
      BY <2>1, <2>2, AllCutsTile
  <2>4. CutWeight(keyWords, cut, p[1], p[2]) = D
    <3>1. \A w \in cut : w[2] = CalcDP(keyWords, p[1], p[2])[w[1] + 1 - p[1]].end
      BY <2>1, MPCutTiles
    <3> HIDE DEF cut
    <3> QED
      BY <2>1, <2>2, <3>1, CutIsLighter
  <2>5. ASSUME NEW C \in AllCuts(keyWords, p[1], p[2])
        PROVE  CutWeight(keyWords, C, p[1], p[2]) <= D
    <3>1. Tiles(C, p[1]..p[2]) /\ \A w \in C : w[2] \in Nexts(keyWords, w[1], p[2])
      BY <2>1, AllCutsTile
    <3> QED
      BY <2>1, <3>1, CutIsLighter
  <2> QED
    BY <2>3, <2>4, <2>5
<1> QED
  BY <1>1, KeyIsAlwaysText, PTL

-----------------------------------------------------------------------------
(* Sequences.                                                              *)

LEMMA IsSeqFacts ==
  ASSUME NEW q, IsSeq(q)
  PROVE  /\ Len(q) \in Nat /\ DOMAIN q = 1..Len(q)
         /\ \A i \in 1..Len(q) : q[i] \in Range(q)
         /\ \A x \in Range(q) : \E i \in 1..Len(q) : q[i] = x
BY LenProperties DEF IsSeq, Range

LEMMA SeqIsSeq ==
  ASSUME NEW X, NEW q \in Seq(X)
  PROVE  IsSeq(q)
BY SeqOfRange DEF IsSeq

LEMMA FunctionIsSeq ==
  ASSUME NEW n \in Nat, NEW q, q = [i \in 1..n |-> q[i]]
  PROVE  IsSeq(q) /\ Len(q) = n
<1> DEFINE X == {q[i] : i \in 1..n}
<1>1. q \in [1..n -> X]
  OBVIOUS
<1>2. q \in Seq(X) /\ Len(q) = n
  BY <1>1
<1> QED
  BY <1>2, SeqIsSeq

LEMMA ConcatIsSeq ==
  ASSUME NEW p, NEW q, IsSeq(p), IsSeq(q)
  PROVE  /\ IsSeq(p \o q)
         /\ Len(p \o q) = Len(p) + Len(q)
         /\ Range(p \o q) = Range(p) \cup Range(q)
<1> DEFINE X == Range(p) \cup Range(q)
<1>1. p \in Seq(X) /\ q \in Seq(X)
  BY SeqMonotonic DEF IsSeq
<1> HIDE DEF X
<1>2. p \o q \in Seq(X) /\ Len(p \o q) = Len(p) + Len(q)
  BY <1>1, ConcatProperties
<1>3. Range(p \o q) = Range(p) \cup Range(q)
  BY <1>1, RangeConcatenation
<1> QED
  BY <1>2, <1>3, SeqIsSeq

LEMMA SubSeqIsSeq ==
  ASSUME NEW q, NEW m \in Int, NEW n \in Int
  PROVE  /\ IsSeq(SubSeq(q, m, n))
         /\ Len(SubSeq(q, m, n)) = IF m <= n THEN n - m + 1 ELSE 0
         /\ \A i \in 1..(n - m + 1) : SubSeq(q, m, n)[i] = q[m + i - 1]
<1> DEFINE X == {q[i] : i \in m..n}
<1>1. \A i \in m..n : q[i] \in X
  OBVIOUS
<1> HIDE DEF X
<1>2. /\ SubSeq(q, m, n) \in Seq(X)
      /\ Len(SubSeq(q, m, n)) = IF m <= n THEN n - m + 1 ELSE 0
      /\ \A i \in 1..(n - m + 1) : SubSeq(q, m, n)[i] = q[m + i - 1]
  BY <1>1, SubSeqProperties
<1> QED
  BY <1>2, SeqIsSeq

LEMMA AppendIsSeq ==
  ASSUME NEW q, IsSeq(q), NEW x
  PROVE  /\ IsSeq(Append(q, x))
         /\ Len(Append(q, x)) = Len(q) + 1
         /\ Append(q, x)[Len(q) + 1] = x
         /\ \A i \in 1..Len(q) : Append(q, x)[i] = q[i]
<1> DEFINE X == Range(q) \cup {x}
<1>1. q \in Seq(X) /\ x \in X
  BY SeqMonotonic DEF IsSeq
<1> HIDE DEF X
<1>2. /\ Append(q, x) \in Seq(X)
      /\ Len(Append(q, x)) = Len(q) + 1
      /\ \A i \in 1..Len(q) : Append(q, x)[i] = q[i]
      /\ Append(q, x)[Len(q) + 1] = x
  BY <1>1, AppendProperties
<1> QED
  BY <1>2, SeqIsSeq

(* FlattenSeq's concatenations, of the first i for every i.                *)
FlattenUpTo(seqs, f) ==
  [i \in 1..Len(seqs) |-> IF i = 1 THEN seqs[i] ELSE f[i - 1] \o seqs[i]]

LEMMA FlattenExists ==
  ASSUME NEW seqs, IsSeq(seqs), Len(seqs) # 0, \A i \in 1..Len(seqs) : IsSeq(seqs[i])
  PROVE  \E f : f = FlattenUpTo(seqs, f) /\ FlattenSeq(seqs) = f[Len(seqs)]
<1> DEFINE n == Len(seqs)
           P == 1..n
           X == UNION {Range(seqs[i]) : i \in P}
           F == [P -> Seq(X)]
           G == [f \in F |-> FlattenUpTo(seqs, f)]
<1>0. n \in Nat
  BY IsSeqFacts
<1>1. \A i \in P : seqs[i] \in Seq(X)
  <2> SUFFICES ASSUME NEW i \in P PROVE seqs[i] \in Seq(X)
    OBVIOUS
  <2>1. Range(seqs[i]) \subseteq X /\ seqs[i] \in Seq(Range(seqs[i]))
    BY DEF IsSeq
  <2> HIDE DEF X
  <2> QED
    BY <2>1, SeqMonotonic
<1> HIDE DEF X
<1>2. ASSUME NEW f \in F PROVE FlattenUpTo(seqs, f) \in F
  <2>1. ASSUME NEW i \in P, i # 1 PROVE f[i - 1] \o seqs[i] \in Seq(X)
    <3>1. i - 1 \in P
      BY <1>0, <2>1
    <3> QED
      BY <1>1, <3>1, ConcatProperties
  <2> QED
    BY <1>1, <2>1 DEF FlattenUpTo
<1>3. FunctionsOn(P, F, G)
  <2>1. G \in [F -> F]
    BY <1>2
  <2>2. [i \in P |-> << >>] \in F
    BY EmptySeq
  <2> QED
    BY <2>1, <2>2 DEF FunctionsOn
<1>4. ByEarlierPlaces(1, n, F, G)
  <2> SUFFICES ASSUME NEW f \in F, NEW g \in F, NEW i \in P, \A j \in 1..(i - 1) : f[j] = g[j]
               PROVE  G[f][i] = G[g][i]
    BY DEF ByEarlierPlaces
  <2>1. i # 1 => f[i - 1] = g[i - 1]
    <3>1. i # 1 => i - 1 \in 1..(i - 1)
      BY <1>0
    <3> QED
      BY <3>1
  <2>2. FlattenUpTo(seqs, f)[i] = FlattenUpTo(seqs, g)[i]
    BY <2>1 DEF FlattenUpTo
  <2> QED
    BY <2>2
<1>5. \E f \in F : f = G[f]
  <2>1. 1 \in Int /\ n \in Int
    BY <1>0
  <2> HIDE DEF F, G
  <2> QED
    BY <1>3, <1>4, <2>1, FromTheFront
<1> DEFINE flatten == CHOOSE f : f = FlattenUpTo(seqs, f)
<1>6. flatten = FlattenUpTo(seqs, flatten)
  BY <1>5, Zenon
<1>7. FlattenSeq(seqs) = flatten[Len(seqs)]
  BY Zenon DEF FlattenSeq, FlattenUpTo
<1> HIDE DEF flatten
<1> QED
  BY <1>6, <1>7

LEMMA FlattenIsSeq ==
  ASSUME NEW seqs, IsSeq(seqs), \A i \in 1..Len(seqs) : IsSeq(seqs[i])
  PROVE  IsSeq(FlattenSeq(seqs))
<1>1. CASE Len(seqs) = 0
  BY <1>1 DEF FlattenSeq
<1>2. CASE Len(seqs) # 0
  <2> DEFINE n == Len(seqs)
             P == 1..n
  <2>0. n \in Nat
    BY IsSeqFacts
  <2>1. PICK f : f = FlattenUpTo(seqs, f) /\ FlattenSeq(seqs) = f[n]
    BY <1>2, FlattenExists
  <2>2. ASSUME NEW i \in P PROVE f[i] = IF i = 1 THEN seqs[i] ELSE f[i - 1] \o seqs[i]
    <3>1. f[i] = FlattenUpTo(seqs, f)[i]
      <4> HIDE DEF P
      <4> QED
        BY <2>1, Zenon
    <3> QED
      BY <3>1 DEF FlattenUpTo
  <2> DEFINE T == {i \in P : IsSeq(f[i])}
  <2>3. ASSUME NEW i \in P, \A j \in 1..(i - 1) : j \in T PROVE i \in T
    <3>1. CASE i = 1
      BY <2>2, <3>1
    <3>2. CASE i # 1
      <4>1. i - 1 \in 1..(i - 1)
        BY <2>0, <3>2
      <4>2. IsSeq(f[i - 1]) /\ IsSeq(seqs[i])
        BY <2>3, <4>1
      <4>3. IsSeq(f[i])
        BY <2>2, <3>2, <4>2, ConcatIsSeq
      <4> QED
        BY <4>3
    <3> QED
      BY <3>1, <3>2
  <2>4. \A i \in P : i \in T
    <3>1. 1 \in Int /\ n \in Int
      BY <2>0
    <3> HIDE DEF T
    <3> QED
      BY <2>3, <3>1, Upwards
  <2>5. n \in P
    BY <1>2, <2>0
  <2> QED
    BY <2>1, <2>4, <2>5
<1> QED
  BY <1>1, <1>2

(* The numbers of a finite set in their order.                             *)
LEMMA InOrderIs ==
  ASSUME NEW S, S \subseteq Int, IsFiniteSet(S)
  PROVE  /\ IsSeq(InOrder(S)) /\ Len(InOrder(S)) = Cardinality(S) /\ Cardinality(S) \in Nat
         /\ \A k \in 1..Cardinality(S) :
              /\ InOrder(S)[k] \in S
              /\ Cardinality({j \in S : j < InOrder(S)[k]}) = k - 1
<1>1. Cardinality(S) \in Nat
  BY FS_CardinalityType
<1>2. IsSeq(InOrder(S)) /\ Len(InOrder(S)) = Cardinality(S)
  <2>1. InOrder(S) = [k \in 1..Cardinality(S) |-> InOrder(S)[k]]
    <3> DEFINE q == InOrder(S)
    <3>1. q = [k \in 1..Cardinality(S) |-> CHOOSE i \in S : Cardinality({j \in S : j < i}) = k - 1]
      BY DEF InOrder
    <3> QED
      BY <3>1, Zenon
  <2> QED
    BY <1>1, <2>1, FunctionIsSeq
<1>3. ASSUME NEW k \in 1..Cardinality(S)
      PROVE  /\ InOrder(S)[k] \in S
             /\ Cardinality({j \in S : j < InOrder(S)[k]}) = k - 1
  <2> DEFINE f == [i \in S |-> i]
  <2>1. f \in [S -> Int]
    OBVIOUS
  <2>2. PICK i \in S : /\ Cardinality(PlacesBelow(S, f, f[i])) < k
                       /\ Cardinality(PlacesUpTo(S, f, f[i])) >= k
    <3> HIDE DEF f
    <3> QED
      BY <2>1, Ranked
  <2> DEFINE B == {j \in S : j < i}
  <2>3. PlacesBelow(S, f, f[i]) = B
    BY DEF PlacesBelow
  <2>4. PlacesUpTo(S, f, f[i]) = B \cup {i}
    <3>1. f[i] = i /\ \A j \in S : f[j] = j /\ j \in Int
      OBVIOUS
    <3>2. \A j \in S : f[j] <= f[i] <=> (j < i \/ j = i)
      BY <3>1
    <3> HIDE DEF f
    <3>3. \A j : j \in PlacesUpTo(S, f, f[i]) <=> j \in B \cup {i}
      BY <3>2 DEF PlacesUpTo
    <3> QED
      BY <3>3
  <2>5. IsFiniteSet(B) /\ Cardinality(B) \in Nat /\ i \notin B
    <3>1. B \subseteq S /\ i \notin B
      OBVIOUS
    <3> HIDE DEF B
    <3> QED
      BY <3>1, FS_Subset, FS_CardinalityType
  <2>6. Cardinality(B \cup {i}) = Cardinality(B) + 1
    <3> HIDE DEF B
    <3> QED
      BY <2>5, FS_AddElement
  <2>7. Cardinality(B) = k - 1
    <3> HIDE DEF B, f
    <3> QED
      BY <1>1, <2>2, <2>3, <2>4, <2>5, <2>6
  <2>8. \E l \in S : Cardinality({j \in S : j < l}) = k - 1
    BY <2>7
  <2>9. InOrder(S)[k] = CHOOSE l \in S : Cardinality({j \in S : j < l}) = k - 1
    BY DEF InOrder
  <2> QED
    BY <2>8, <2>9, Zenon
<1> QED
  BY <1>1, <1>2, <1>3

LEMMA KeptIsSeq ==
  ASSUME NEW q, NEW n \in Int, NEW S, S \subseteq 1..n
  PROVE  IsSeq(Kept(q, S))
<1>1. IsFiniteSet(S) /\ S \subseteq Int
  <2>1. 1 \in Int
    OBVIOUS
  <2>2. 1..n \subseteq Int
    OBVIOUS
  <2>3. S \subseteq Int
    BY <2>2
  <2> QED
    BY <2>1, <2>3, IntervalIsFinite
<1>2. Len(InOrder(S)) \in Nat
  BY <1>1, InOrderIs
<1> DEFINE kept == Kept(q, S)
<1>3. kept = [k \in 1..Len(InOrder(S)) |-> q[InOrder(S)[k]]]
  BY DEF Kept
<1>4. kept = [k \in 1..Len(InOrder(S)) |-> kept[k]]
  BY <1>3, Zenon
<1> HIDE DEF kept
<1>5. IsSeq(kept)
  BY <1>2, <1>4, FunctionIsSeq
<1> QED
  BY <1>5 DEF kept

-----------------------------------------------------------------------------
(* The words of a text.                                                    *)

LEMMA OrderedIs ==
  ASSUME NEW ranges, NEW a \in Int, NEW b \in Int, \A w \in ranges : w[1] \in a..b
  PROVE  /\ IsSeq(Ordered(ranges))
         /\ \A k \in 1..Len(Ordered(ranges)) : Ordered(ranges)[k] \in ranges
<1> DEFINE S == {w[1] : w \in ranges}
           order == Ordered(ranges)
           n == Len(InOrder(S))
<1>1. S \subseteq Int /\ IsFiniteSet(S)
  <2>1. S \subseteq a..b
    OBVIOUS
  <2>2. a..b \subseteq Int
    OBVIOUS
  <2> HIDE DEF S
  <2>3. S \subseteq Int
    BY <2>1, <2>2
  <2> QED
    BY <2>1, <2>3, IntervalIsFinite
<1>2. n \in Nat /\ \A k \in 1..n : InOrder(S)[k] \in S
  <2> HIDE DEF S
  <2> QED
    BY <1>1, InOrderIs
<1>3. order = [k \in 1..n |-> CHOOSE w \in ranges : w[1] = InOrder(S)[k]]
  BY DEF Ordered
<1>4. order = [k \in 1..n |-> order[k]]
  BY <1>3, Zenon
<1>5. IsSeq(order) /\ Len(order) = n
  <2> HIDE DEF order, n
  <2> QED
    BY <1>2, <1>4, FunctionIsSeq
<1>6. ASSUME NEW k \in 1..n PROVE order[k] \in ranges
  <2>1. \E w \in ranges : w[1] = InOrder(S)[k]
    BY <1>2
  <2>2. order[k] = CHOOSE w \in ranges : w[1] = InOrder(S)[k]
    BY <1>3
  <2> QED
    BY <2>1, <2>2, Zenon
<1> QED
  BY <1>5, <1>6

LEMMA PartsAreSeq ==
  ASSUME NEW s, NEW w, w[1] \in Int, w[2] \in Int
  PROVE  IsSeq(Parts(s, w))
<1> DEFINE Of(n) == {<<i, i + n - 1>> : i \in {j \in w[1]..(w[2] - n + 1) : InTrie(s, j, j + n - 1)}}
           OfLength(n) == IF w[2] - w[1] + 1 <= n THEN << >> ELSE Ordered(Of(n))
<1>1. ASSUME NEW n \in Int PROVE IsSeq(OfLength(n))
  <2>1. IsSeq(<< >>)
    BY EmptySeq, SeqIsSeq
  <2>2. \A v \in Of(n) : v[1] \in w[1]..(w[2] - n + 1)
    OBVIOUS
  <2>3. w[2] - n + 1 \in Int
    OBVIOUS
  <2> HIDE DEF Of
  <2>4. IsSeq(Ordered(Of(n)))
    BY <2>2, <2>3, OrderedIs
  <2> QED
    BY <2>1, <2>4
<1>2. IsSeq(<<w>>)
  <2>1. <<w>> \in Seq({w})
    OBVIOUS
  <2> QED
    BY <2>1, SeqIsSeq
<1>3. Parts(s, w) = OfLength(2) \o OfLength(3) \o <<w>>
  BY DEF Parts
<1> HIDE DEF OfLength
<1>4. IsSeq(OfLength(2)) /\ IsSeq(OfLength(3))
  BY <1>1
<1>5. IsSeq(OfLength(2) \o OfLength(3))
  BY <1>4, ConcatIsSeq
<1>6. IsSeq((OfLength(2) \o OfLength(3)) \o <<w>>)
  BY <1>2, <1>5, ConcatIsSeq
<1> QED
  BY <1>3, <1>6

LEMMA WordsAreSeq ==
  ASSUME NEW s, IsSeq(s)
  PROVE  IsSeq(CutForSearch(s))
<1> DEFINE cut == Ordered(Cut(s))
           parts == [i \in 1..Len(cut) |-> Parts(s, cut[i])]
           ranges == WithParts(s, cut)
<1>1. Len(s) \in Nat
  BY IsSeqFacts
<1>2. \A w \in Cut(s) : w[1] \in Int /\ w[2] \in Int /\ w[1] \in 1..Len(s)
  <2>1. 1 \in Int /\ Len(s) \in Int /\ Tiles(Cut(s), 1..Len(s))
    BY <1>1, CutTiles
  <2> SUFFICES ASSUME NEW w \in Cut(s) PROVE w[1] \in Int /\ w[2] \in Int /\ w[1] \in 1..Len(s)
    OBVIOUS
  <2>2. w[1] \in Int /\ w[2] \in Int /\ 1 <= w[1] /\ w[1] <= w[2] /\ w[2] <= Len(s)
    BY <2>1, TileEnds
  <2> QED
    BY <2>1, <2>2
<1>3. IsSeq(cut) /\ \A k \in 1..Len(cut) : cut[k] \in Cut(s)
  <2>1. 1 \in Int /\ Len(s) \in Int
    BY <1>1
  <2> QED
    BY <1>2, <2>1, OrderedIs
<1> HIDE DEF cut
<1>4. Len(cut) \in Nat
  BY <1>3, IsSeqFacts
<1>5. IsSeq(parts) /\ Len(parts) = Len(cut)
  <2>1. parts = [i \in 1..Len(cut) |-> parts[i]]
    BY Zenon
  <2> HIDE DEF parts
  <2> QED
    BY <1>4, <2>1, FunctionIsSeq
<1>6. \A i \in 1..Len(parts) : IsSeq(parts[i])
  <2> SUFFICES ASSUME NEW i \in 1..Len(cut) PROVE IsSeq(Parts(s, cut[i]))
    BY <1>5
  <2> QED
    BY <1>2, <1>3, PartsAreSeq
<1>7. ranges = FlattenSeq(parts)
  BY DEF WithParts
<1> HIDE DEF parts, ranges
<1>8. IsSeq(ranges)
  BY <1>5, <1>6, <1>7, FlattenIsSeq
<1>9. Len(ranges) \in Nat
  BY <1>8, IsSeqFacts
<1> DEFINE words == WordsAt(s, ranges)
<1>10. words = [i \in 1..Len(ranges) |-> words[i]]
  <2>1. words = [i \in 1..Len(ranges) |-> SubSeq(s, ranges[i][1], ranges[i][2])]
    BY DEF WordsAt
  <2> QED
    BY <2>1, Zenon
<1> HIDE DEF words
<1>11. IsSeq(words)
  BY <1>9, <1>10, FunctionIsSeq
<1> QED
  BY <1>11 DEF CutForSearch, words, ranges, cut

LEMMA IndexWordsAreSeq ==
  ASSUME NEW text, IsSeq(text)
  PROVE  IsSeq(IndexWords(text))
<1> DEFINE words == CutForSearch(text)
<1>1. Len(words) \in Int
  BY WordsAreSeq, IsSeqFacts
<1> HIDE DEF words
<1>2. IsSeq(Kept(words, {i \in 1..Len(words) : ~IsStopWord(words[i])}))
  BY <1>1, KeptIsSeq
<1> QED
  BY <1>2 DEF IndexWords, words

-----------------------------------------------------------------------------
(* The crawler's file.                                                     *)

LEMMA RangeIsSeq ==
  ASSUME NEW n \in Int, NEW q, q = [i \in 1..n |-> q[i]]
  PROVE  IsSeq(q) /\ Len(q) = IF n > 0 THEN n ELSE 0
<1>1. CASE n > 0
  BY <1>1, FunctionIsSeq
<1>2. CASE ~(n > 0)
  <2>1. 1..n = 1..0
    BY <1>2
  <2>2. q = [i \in 1..0 |-> q[i]]
    BY <2>1
  <2>3. 0 \in Nat
    OBVIOUS
  <2>4. IsSeq(q) /\ Len(q) = 0
    BY <2>2, <2>3, FunctionIsSeq
  <2> QED
    BY <1>2, <2>4
<1> QED
  BY <1>1, <1>2

LEMMA LinesAreSeq ==
  ASSUME NEW content, IsSeq(content)
  PROVE  /\ IsSeq(Lines(content)) /\ Len(Lines(content)) \in Nat \ {0}
         /\ \A k \in 1..Len(Lines(content)) : IsSeq(Lines(content)[k])
<1> DEFINE S == {n \in 1..Len(content) : content[n] = LF}
           ends == Places(content, LF, 1, Len(content))
           first(k) == IF k = 1 THEN 1 ELSE ends[k - 1] + 1
           last(k) == IF k > Len(ends) THEN Len(content) ELSE ends[k] - 1
           lines == Lines(content)
<1>1. Len(content) \in Nat
  BY IsSeqFacts
<1>2. Len(ends) \in Nat /\ \A k \in 1..Len(ends) : ends[k] \in Int
  <2>1. S \subseteq Int /\ S \subseteq 1..Len(content)
    OBVIOUS
  <2>2. ends = InOrder(S)
    BY DEF Places
  <2> HIDE DEF S, ends
  <2>a. 1 \in Int /\ Len(content) \in Int
    BY <1>1
  <2>3. IsFiniteSet(S)
    BY <2>a, <2>1, IntervalIsFinite
  <2> QED
    BY <2>1, <2>2, <2>3, InOrderIs
<1>3. lines = [k \in 1..(Len(ends) + 1) |-> SubSeq(content, first(k), last(k))]
  BY DEF Lines
<1> HIDE DEF ends
<1>4. \A k \in 1..(Len(ends) + 1) : first(k) \in Int /\ last(k) \in Int
  BY <1>1, <1>2
<1> HIDE DEF first, last
<1>5. \A k \in 1..(Len(ends) + 1) : IsSeq(lines[k])
  BY <1>3, <1>4, SubSeqIsSeq
<1>6. lines = [k \in 1..(Len(ends) + 1) |-> lines[k]]
  BY <1>3, Zenon
<1>7. Len(ends) + 1 \in Nat \ {0}
  BY <1>2
<1> HIDE DEF lines
<1>8. IsSeq(lines) /\ Len(lines) = Len(ends) + 1
  BY <1>6, <1>7, FunctionIsSeq
<1> QED
  BY <1>5, <1>7, <1>8 DEF lines

LEMMA EndOfIs ==
  ASSUME NEW lines, Len(lines) \in Nat, NEW i \in Int, NEW end
  PROVE  LET e == EndOf(lines, i, end) IN
         \/ e \in i..Len(lines) /\ lines[e] = end /\ \A k \in i..(e - 1) : lines[k] # end
         \/ e = Len(lines) + 1 /\ \A k \in i..Len(lines) : lines[k] # end
<1> DEFINE K == {k \in i..Len(lines) : lines[k] = end}
           M == K \cup {Len(lines) + 1}
           e == EndOf(lines, i, end)
           low == IF i <= Len(lines) THEN i ELSE Len(lines) + 1
<1>1. M \subseteq Int /\ M # {} /\ low \in Int /\ \A n \in M : low <= n
  OBVIOUS
<1>2. Min(M) \in M /\ \A n \in M : Min(M) <= n
  <2> HIDE DEF M, low
  <2> QED
    BY <1>1, MinOf
<1>3. e = Min(M)
  BY DEF EndOf
<1> HIDE DEF e
<1>4. e \in M /\ \A n \in K : e <= n
  BY <1>2, <1>3
<1>5. CASE e \in K
  <2>1. e \in i..Len(lines) /\ lines[e] = end
    BY <1>5
  <2>2. \A k \in i..(e - 1) : lines[k] # end
    <3> SUFFICES ASSUME NEW k \in i..(e - 1), lines[k] = end PROVE FALSE
      OBVIOUS
    <3>1. k \in K /\ k < e
      BY <2>1
    <3> QED
      BY <1>4, <2>1, <3>1
  <2> QED
    BY <2>1, <2>2 DEF e
<1>6. CASE e \notin K
  <2>1. e = Len(lines) + 1
    BY <1>4, <1>6
  <2>2. \A k \in i..Len(lines) : lines[k] # end
    <3> SUFFICES ASSUME NEW k \in i..Len(lines), lines[k] = end PROVE FALSE
      OBVIOUS
    <3>1. k \in K
      OBVIOUS
    <3>2. e <= k
      BY <1>4, <3>1
    <3> QED
      BY <2>1, <3>2
  <2> QED
    BY <2>1, <2>2 DEF e
<1> QED
  BY <1>5, <1>6

LEMMA EndOfBounds ==
  ASSUME NEW lines, Len(lines) \in Nat, NEW i \in Int, NEW end
  PROVE  /\ EndOf(lines, i, end) \in Int
         /\ EndOf(lines, i, end) <= Len(lines) + 1
         /\ i <= EndOf(lines, i, end) \/ EndOf(lines, i, end) = Len(lines) + 1
<1>1. EndOf(lines, i, end) \in i..Len(lines) \/ EndOf(lines, i, end) = Len(lines) + 1
  BY EndOfIs
<1> QED
  BY <1>1

LEMMA AfterIs ==
  ASSUME NEW lines, Len(lines) \in Nat, NEW k \in Int
  PROVE  After(lines, k) = (IF k <= Len(lines) THEN k ELSE Len(lines)) + 1
<1> DEFINE M == {k, Len(lines)}
           low == IF k <= Len(lines) THEN k ELSE Len(lines)
<1>1. /\ M \subseteq Int /\ low \in Int
      /\ M # {}
      /\ \A n \in M : low <= n
  OBVIOUS
<1>2. Min(M) \in M /\ \A n \in M : Min(M) <= n
  <2> HIDE DEF M, low
  <2> QED
    BY <1>1, MinOf
<1>3. After(lines, k) = Min(M) + 1
  BY DEF After
<1> DEFINE m == Min(M)
<1> HIDE DEF m
<1>4. (m = k \/ m = Len(lines)) /\ m <= k /\ m <= Len(lines)
  BY <1>2 DEF m
<1>5. m = low
  BY <1>4
<1> QED
  BY <1>3, <1>5 DEF m

LEMMA TextIsSeq ==
  ASSUME NEW lines, Len(lines) \in Nat, \A k \in 1..Len(lines) : IsSeq(lines[k]),
         NEW i \in Int, NEW k \in Int, 1 <= i, k <= Len(lines)
  PROVE  IsSeq(Text(lines, i, k)) /\ IsSeq(WithoutLast(Text(lines, i, k)))
<1> DEFINE q == [n \in 1..(k + 1 - i) |-> Append(lines[i + n - 1], LF)]
           text == Text(lines, i, k)
<1>1. q = [n \in 1..(k + 1 - i) |-> q[n]]
  BY Zenon
<1>2. \A n \in 1..(k + 1 - i) : IsSeq(q[n])
  <2> SUFFICES ASSUME NEW n \in 1..(k + 1 - i) PROVE IsSeq(Append(lines[i + n - 1], LF))
    OBVIOUS
  <2>1. i + n - 1 \in 1..Len(lines)
    OBVIOUS
  <2> QED
    BY <2>1, AppendIsSeq
<1>3. text = FlattenSeq(q)
  BY DEF Text
<1> HIDE DEF q
<1>4. IsSeq(q) /\ Len(q) = IF k + 1 - i > 0 THEN k + 1 - i ELSE 0
  <2>1. k + 1 - i \in Int
    OBVIOUS
  <2> QED
    BY <1>1, <2>1, RangeIsSeq
<1>5. IsSeq(text)
  <2>1. \A n \in 1..Len(q) : IsSeq(q[n])
    BY <1>2, <1>4
  <2> HIDE DEF text
  <2> QED
    BY <1>3, <1>4, <2>1, FlattenIsSeq
<1> HIDE DEF text
<1>6. IsSeq(WithoutLast(text))
  <2>1. IsSeq(<< >>)
    BY EmptySeq, SeqIsSeq
  <2>2. Len(text) - 1 \in Int /\ 1 \in Int
    BY <1>5, IsSeqFacts
  <2>3. IsSeq(SubSeq(text, 1, Len(text) - 1))
    BY <2>2, SubSeqIsSeq
  <2> QED
    BY <2>1, <2>3 DEF WithoutLast, Front
<1> QED
  BY <1>5, <1>6 DEF text

(* What Entries finds at a line, and where it goes on.                     *)
QuestionAt(lines, i) == ParseQuestion(lines, i).question
AnswersAt(lines, i) == ParseAnswers(lines, ParseQuestion(lines, i).next).answers
NextAt(lines, i) == ParseAnswers(lines, ParseQuestion(lines, i).next).next

LEMMA QuestionAtIsSeq ==
  ASSUME NEW lines, Len(lines) \in Nat, \A k \in 1..Len(lines) : IsSeq(lines[k]),
         NEW i \in 1..Len(lines)
  PROVE  IsSeq(QuestionAt(lines, i))
<1> DEFINE e == EndOf(lines, i, <<CR>>)
<1>1. e \in Int /\ e - 1 <= Len(lines) /\ i \in Int /\ 1 <= i /\ e - 1 \in Int
  BY EndOfBounds
<1> HIDE DEF e
<1>2. IsSeq(Text(lines, i, e - 1)) /\ IsSeq(WithoutLast(Text(lines, i, e - 1)))
  BY <1>1, TextIsSeq
<1> QED
  BY <1>2 DEF QuestionAt, ParseQuestion, e

LEMMA NextAtIs ==
  ASSUME NEW lines, Len(lines) \in Nat, NEW i \in 1..Len(lines)
  PROVE  /\ ParseQuestion(lines, i).next \in (i + 1)..(Len(lines) + 1)
         /\ NextAt(lines, i) \in (i + 1)..(Len(lines) + 1)
<1> DEFINE e == EndOf(lines, i, <<CR>>)
           d == EndOf(lines, e + 1, <<CR>>)
           next == ParseQuestion(lines, i).next
           end == EndOf(lines, next, <<CR, CR>>)
<1>1. e \in Int /\ e <= Len(lines) + 1 /\ i <= e /\ e + 1 \in Int
  <2>1. /\ e \in Int /\ e <= Len(lines) + 1
        /\ i <= e \/ e = Len(lines) + 1
    BY EndOfBounds
  <2> HIDE DEF e
  <2> QED
    BY <2>1
<1> HIDE DEF e
<1>2. d \in Int /\ d <= Len(lines) + 1 /\ i <= d
  <2>1. /\ d \in Int /\ d <= Len(lines) + 1
        /\ e + 1 <= d \/ d = Len(lines) + 1
    BY <1>1, EndOfBounds
  <2> HIDE DEF d
  <2> QED
    BY <1>1, <2>1
<1>3. next = After(lines, d)
  BY DEF ParseQuestion, e
<1> HIDE DEF d
<1>4. next \in (i + 1)..(Len(lines) + 1)
  <2>1. After(lines, d) = (IF d <= Len(lines) THEN d ELSE Len(lines)) + 1
    BY <1>2, AfterIs
  <2> QED
    BY <1>2, <1>3, <2>1
<1>5. NextAt(lines, i) = After(lines, end)
  BY DEF NextAt, ParseAnswers
<1> HIDE DEF next
<1>6. end \in Int /\ i <= end
  <2>1. next \in Int
    BY <1>4
  <2>2. /\ end \in Int /\ end <= Len(lines) + 1
        /\ next <= end \/ end = Len(lines) + 1
    BY <2>1, EndOfBounds
  <2> HIDE DEF end
  <2> QED
    BY <1>4, <2>2
<1> HIDE DEF end
<1>7. After(lines, end) = (IF end <= Len(lines) THEN end ELSE Len(lines)) + 1
  BY <1>6, AfterIs
<1> QED
  BY <1>4, <1>5, <1>6, <1>7 DEF next

(* The entries from a line on, for every line.                             *)
IsEntry(lines, i) == QuestionAt(lines, i) # << >> /\ AnswersAt(lines, i) # << >>
EntryAt(lines, i) == [question |-> QuestionAt(lines, i), answers |-> AnswersAt(lines, i)]

EntriesFrom(lines, f) ==
  [i \in 1..(Len(lines) + 1) |->
    IF i > Len(lines) THEN << >>
    ELSE IF QuestionAt(lines, i) = << >> \/ AnswersAt(lines, i) = << >> THEN f[NextAt(lines, i)]
         ELSE <<EntryAt(lines, i)>> \o f[NextAt(lines, i)]]

LEMMA EntriesExist ==
  ASSUME NEW content, NEW lines, lines = Lines(content), Len(lines) \in Nat
  PROVE  \E f : f = EntriesFrom(lines, f) /\ Entries(content) = f[1]
<1> DEFINE n == Len(lines)
           P == 1..(n + 1)
           X == {EntryAt(lines, i) : i \in 1..n}
           F == [P -> Seq(X)]
           G == [f \in F |-> EntriesFrom(lines, f)]
<1>1. ASSUME NEW f \in F PROVE EntriesFrom(lines, f) \in F
  <2>1. ASSUME NEW i \in P, ~(i > n)
        PROVE  f[NextAt(lines, i)] \in Seq(X) /\ <<EntryAt(lines, i)>> \o f[NextAt(lines, i)] \in Seq(X)
    <3>1. i \in 1..n
      BY <2>1
    <3>2. NextAt(lines, i) \in (i + 1)..(n + 1)
      BY <3>1, NextAtIs
    <3>3. NextAt(lines, i) \in P
      BY <3>1, <3>2
    <3>4. f[NextAt(lines, i)] \in Seq(X)
      BY <3>3
    <3>5. EntryAt(lines, i) \in X
      BY <3>1
    <3> HIDE DEF X
    <3>6. <<EntryAt(lines, i)>> \in Seq(X)
      BY <3>5
    <3> QED
      BY <3>4, <3>6, ConcatProperties
  <2>2. << >> \in Seq(X)
    BY EmptySeq
  <2> HIDE DEF X
  <2> QED
    BY <2>1, <2>2 DEF EntriesFrom
<1>2. FunctionsOn(P, F, G)
  <2>1. G \in [F -> F]
    BY <1>1
  <2>2. [i \in P |-> << >>] \in F
    <3> HIDE DEF X
    <3> QED
      BY EmptySeq
  <2> QED
    BY <2>1, <2>2 DEF FunctionsOn
<1>3. ByLaterPlaces(1, n + 1, F, G)
  <2> SUFFICES ASSUME NEW f \in F, NEW g \in F, NEW i \in P, \A j \in (i + 1)..(n + 1) : f[j] = g[j]
               PROVE  G[f][i] = G[g][i]
    BY DEF ByLaterPlaces
  <2>1. ~(i > n) => f[NextAt(lines, i)] = g[NextAt(lines, i)]
    <3>1. ~(i > n) => i \in 1..n
      OBVIOUS
    <3> QED
      BY <3>1, NextAtIs
  <2>2. EntriesFrom(lines, f)[i] = EntriesFrom(lines, g)[i]
    BY <2>1 DEF EntriesFrom
  <2> QED
    BY <2>2
<1>4. \E f \in F : f = G[f]
  <2>1. 1 \in Int /\ n + 1 \in Int
    OBVIOUS
  <2> HIDE DEF F, G
  <2> QED
    BY <1>2, <1>3, <2>1, FromTheEnd
<1> DEFINE from == CHOOSE f : f = EntriesFrom(lines, f)
<1>5. from = EntriesFrom(lines, from)
  BY <1>4, Zenon
<1>6. Entries(content) = from[1]
  BY Zenon DEF Entries, EntriesFrom, EntryAt, QuestionAt, AnswersAt, NextAt
<1> HIDE DEF from
<1> QED
  BY <1>5, <1>6

(* Entries whose questions are texts.                                      *)
AreEntries(entries) == IsSeq(entries) /\ \A e \in Range(entries) : IsSeq(e.question)

LEMMA NothingIsSeq == IsSeq(<< >>) /\ Range(<< >>) = {}
<1>1. << >> \in Seq({})
  OBVIOUS
<1>2. IsSeq(<< >>)
  BY <1>1, SeqIsSeq
<1>3. Range(<< >>) = {}
  BY DEF Range
<1> QED
  BY <1>2, <1>3

LEMMA NoEntries == AreEntries(<< >>)
BY NothingIsSeq DEF AreEntries

LEMMA OneMoreEntry ==
  ASSUME NEW e, IsSeq(e.question), NEW rest, AreEntries(rest)
  PROVE  AreEntries(<<e>> \o rest)
<1>1. <<e>> \in Seq({e})
  OBVIOUS
<1>2. IsSeq(<<e>>) /\ IsSeq(rest)
  BY <1>1, SeqIsSeq DEF AreEntries
<1>3. Range(<<e>>) = {e}
  BY DEF Range
<1>4. IsSeq(<<e>> \o rest) /\ Range(<<e>> \o rest) = {e} \cup Range(rest)
  BY <1>2, <1>3, ConcatIsSeq
<1> QED
  BY <1>4 DEF AreEntries

LEMMA EntriesAre ==
  ASSUME NEW content, IsSeq(content)
  PROVE  AreEntries(Entries(content))
<1> DEFINE lines == Lines(content)
           n == Len(lines)
<1>1. n \in Nat /\ n > 0 /\ \A k \in 1..n : IsSeq(lines[k])
  BY LinesAreSeq
<1>2. PICK f : f = EntriesFrom(lines, f) /\ Entries(content) = f[1]
  BY <1>1, EntriesExist
<1> HIDE DEF lines
<1> DEFINE T == {i \in 1..(n + 1) : AreEntries(f[i])}
<1>3. ASSUME NEW i \in 1..(n + 1), \A j \in (i + 1)..(n + 1) : j \in T
      PROVE  i \in T
  <2>1. f[i] = EntriesFrom(lines, f)[i]
    BY <1>2, Zenon
  <2>2. CASE i > n
    <3>1. f[i] = << >>
      BY <2>1, <2>2 DEF EntriesFrom
    <3> QED
      BY <3>1, NoEntries
  <2>3. CASE ~(i > n)
    <3>1. i \in 1..n
      BY <1>1, <2>3
    <3>2. NextAt(lines, i) \in (i + 1)..(n + 1)
      BY <1>1, <3>1, NextAtIs
    <3>3. AreEntries(f[NextAt(lines, i)])
      BY <1>3, <3>2
    <3>4. IsSeq(EntryAt(lines, i).question)
      BY <1>1, <3>1, QuestionAtIsSeq DEF EntryAt
    <3>5. AreEntries(<<EntryAt(lines, i)>> \o f[NextAt(lines, i)])
      BY <3>3, <3>4, OneMoreEntry
    <3>6. \/ f[i] = f[NextAt(lines, i)]
          \/ f[i] = <<EntryAt(lines, i)>> \o f[NextAt(lines, i)]
      BY <2>1, <2>3 DEF EntriesFrom
    <3> QED
      BY <3>3, <3>5, <3>6
  <2> QED
    BY <2>2, <2>3
<1>4. 1 \in Int /\ n + 1 \in Int /\ 1 \in 1..(n + 1)
  BY <1>1
<1>5. \A i \in 1..(n + 1) : i \in T
  <2> HIDE DEF T, n
  <2> QED
    BY <1>3, <1>4, Downwards
<1> QED
  BY <1>2, <1>4, <1>5

LEMMA WrittenIsSeq ==
  ASSUME NEW c, IsSeq(c.title), IsSeq(c.detail), IsSeq(c.answers),
         \A a \in Range(c.answers) : IsSeq(a)
  PROVE  IsSeq(Written(c))
<1>1. EndOfText \in Seq({CR, LF}) /\ <<CR, CR, LF>> \in Seq({CR, LF})
  BY DEF EndOfText
<1>2. IsSeq(EndOfText) /\ IsSeq(<<CR, CR, LF>>)
  BY <1>1, SeqIsSeq
<1> DEFINE answers == [i \in 1..Len(c.answers) |-> c.answers[i] \o EndOfText]
<1>3. Len(c.answers) \in Nat /\ \A i \in 1..Len(c.answers) : IsSeq(c.answers[i])
  BY IsSeqFacts
<1>4. \A i \in 1..Len(c.answers) : IsSeq(answers[i])
  BY <1>2, <1>3, ConcatIsSeq
<1>5. answers = [i \in 1..Len(c.answers) |-> answers[i]]
  OBVIOUS
<1> HIDE DEF answers
<1>6. IsSeq(answers) /\ Len(answers) = Len(c.answers)
  BY <1>3, <1>5, FunctionIsSeq
<1>7. IsSeq(FlattenSeq(answers))
  BY <1>4, <1>6, FlattenIsSeq
<1>8. IsSeq(c.title \o EndOfText)
  BY <1>2, ConcatIsSeq
<1>9. IsSeq(c.title \o EndOfText \o c.detail)
  BY <1>8, ConcatIsSeq
<1>10. IsSeq(c.title \o EndOfText \o c.detail \o EndOfText)
  BY <1>2, <1>9, ConcatIsSeq
<1>11. IsSeq(c.title \o EndOfText \o c.detail \o EndOfText \o FlattenSeq(answers))
  BY <1>7, <1>10, ConcatIsSeq
<1> QED
  BY <1>2, <1>11, ConcatIsSeq DEF Written, answers

LEMMA ContentsIsSeq == IsSeq(Contents(Crawled))
<1>1. IsSeq(Crawled)
  BY QuestionSearchAssumption
<1>2. Len(Crawled) \in Nat /\ \A i \in 1..Len(Crawled) : Crawled[i] \in Range(Crawled)
  BY <1>1, IsSeqFacts
<1> DEFINE parts == [i \in 1..Len(Crawled) |-> Written(Crawled[i])]
<1>3. \A i \in 1..Len(Crawled) : IsSeq(parts[i])
  BY <1>2, WrittenIsSeq, QuestionSearchAssumption
<1>4. parts = [i \in 1..Len(Crawled) |-> parts[i]]
  OBVIOUS
<1> HIDE DEF parts
<1>5. IsSeq(parts) /\ Len(parts) = Len(Crawled)
  BY <1>2, <1>4, FunctionIsSeq
<1>6. IsSeq(FlattenSeq(parts))
  BY <1>3, <1>5, FlattenIsSeq
<1> QED
  BY <1>6 DEF Contents, parts

(* What is in the file, wherever it ends.                                  *)
LEMMA FilesAreEntries == \A entries \in Files : AreEntries(entries)
<1> SUFFICES ASSUME NEW n \in 0..Len(Contents(Crawled))
             PROVE  AreEntries(Entries(SubSeq(Contents(Crawled), 1, n)))
  BY DEF Files
<1>1. n \in Int
  BY ContentsIsSeq, IsSeqFacts
<1>2. 1 \in Int
  OBVIOUS
<1>3. IsSeq(SubSeq(Contents(Crawled), 1, n))
  BY <1>1, <1>2, SubSeqIsSeq
<1> QED
  BY <1>3, EntriesAre

-----------------------------------------------------------------------------
(* The tables, and what updateDataBase makes of them.                      *)

(* A word's rows name the questions whose texts it occurs in.              *)
RowsAreIndex(db) ==
  /\ IsSeq(db.question) /\ \A text \in Range(db.question) : IsSeq(text)
  /\ \A w \in DOMAIN db.word : IsSeq(db.word[w])
  /\ \A w : /\ Range(IdsOf(db.word, w)) \subseteq DOMAIN db.question
            /\ \A id \in DOMAIN db.question :
                 id \in Range(IdsOf(db.word, w)) <=> w \in Range(IndexWords(db.question[id]))

LEMMA IdsAreSeq ==
  ASSUME NEW rows, \A w \in DOMAIN rows : IsSeq(rows[w]), NEW w
  PROVE  IsSeq(IdsOf(rows, w))
BY NothingIsSeq DEF IdsOf

LEMMA CountIs ==
  ASSUME NEW words, IsSeq(words), NEW w
  PROVE  Count(words, w) \in Nat /\ (Count(words, w) > 0 <=> w \in Range(words))
<1> DEFINE S == {i \in DOMAIN words : words[i] = w}
<1>1. Len(words) \in Nat /\ DOMAIN words = 1..Len(words)
  BY IsSeqFacts
<1>2. S \subseteq 1..Len(words) /\ 1 \in Int /\ Len(words) \in Int
  BY <1>1
<1>3. IsFiniteSet(S) /\ Cardinality(S) \in Nat
  <2> HIDE DEF S
  <2> QED
    BY <1>2, IntervalIsFinite
<1>4. Cardinality(S) = 0 <=> S = {}
  <2> HIDE DEF S
  <2> QED
    BY <1>3, FS_EmptySet
<1>5. S = {} <=> w \notin Range(words)
  BY DEF Range
<1>6. Count(words, w) = Cardinality(S)
  BY DEF Count
<1> QED
  BY <1>3, <1>4, <1>5, <1>6

LEMMA NewIdsAre ==
  ASSUME NEW rows, \A w \in DOMAIN rows : IsSeq(rows[w]), NEW words, IsSeq(words),
         NEW w, w \in Range(words), NEW id
  PROVE  /\ IsSeq(NewIds(rows, words, w, id))
         /\ Range(NewIds(rows, words, w, id)) = Range(IdsOf(rows, w)) \cup {id}
<1> DEFINE n == Count(words, w)
           new == [i \in 1..n |-> id]
<1>1. n \in Nat /\ n > 0
  BY CountIs
<1>2. IsSeq(IdsOf(rows, w))
  BY IdsAreSeq
<1> HIDE DEF n
<1>3. new = [i \in 1..n |-> new[i]] /\ Range(new) = {id}
  BY <1>1 DEF Range
<1>4. NewIds(rows, words, w, id) = IdsOf(rows, w) \o new
  BY DEF NewIds, n
<1> HIDE DEF new
<1>5. IsSeq(new)
  BY <1>1, <1>3, FunctionIsSeq
<1> QED
  BY <1>2, <1>3, <1>4, <1>5, ConcatIsSeq

LEMMA InsertedIsIndex ==
  ASSUME NEW db, RowsAreIndex(db), NEW text, IsSeq(text), NEW answers
  PROVE  RowsAreIndex(Inserted(db, text, answers))
<1> DEFINE words == IndexWords(text)
           id == Len(db.question) + 1
           new == Inserted(db, text, answers)
<1>1. IsSeq(words)
  BY IndexWordsAreSeq
<1>2. IsSeq(db.question) /\ \A t \in Range(db.question) : IsSeq(t)
  BY DEF RowsAreIndex
<1>3. Len(db.question) \in Nat /\ DOMAIN db.question = 1..Len(db.question)
  BY <1>2, IsSeqFacts
<1>4. \A w \in DOMAIN db.word : IsSeq(db.word[w])
  BY DEF RowsAreIndex
<1>5. /\ new.question = Append(db.question, text)
      /\ new.word = [w \in DOMAIN db.word \cup Range(words) |->
                       IF w \in Range(words) THEN NewIds(db.word, words, w, id) ELSE db.word[w]]
  BY DEF Inserted, Stored, NextQuestionId
<1> HIDE DEF new, words
<1>6. /\ IsSeq(new.question) /\ Len(new.question) = id /\ new.question[id] = text
      /\ \A i \in 1..Len(db.question) : new.question[i] = db.question[i]
  BY <1>2, <1>5, AppendIsSeq
<1>7. DOMAIN new.question = DOMAIN db.question \cup {id} /\ id \notin DOMAIN db.question
  <2>1. DOMAIN new.question = 1..id
    BY <1>6, IsSeqFacts
  <2> QED
    BY <1>3, <2>1
<1>8. \A t \in Range(new.question) : IsSeq(t)
  <2>1. \A i \in DOMAIN db.question : IsSeq(db.question[i])
    BY <1>2 DEF Range
  <2> QED
    BY <1>3, <1>6, <1>7, <2>1 DEF Range
<1>9. \A w \in Range(words) : /\ IsSeq(NewIds(db.word, words, w, id))
                              /\ Range(NewIds(db.word, words, w, id)) = Range(IdsOf(db.word, w)) \cup {id}
  BY <1>1, <1>4, NewIdsAre
<1>10. \A w \in DOMAIN new.word : IsSeq(new.word[w])
  BY <1>4, <1>5, <1>9
<1>11. ASSUME NEW w
       PROVE  Range(IdsOf(new.word, w)) =
                Range(IdsOf(db.word, w)) \cup IF w \in Range(words) THEN {id} ELSE {}
  <2>1. CASE w \in Range(words)
    <3>1. IdsOf(new.word, w) = NewIds(db.word, words, w, id)
      BY <1>5, <2>1 DEF IdsOf
    <3> QED
      BY <1>9, <2>1, <3>1
  <2>2. CASE w \notin Range(words)
    <3>1. IdsOf(new.word, w) = IdsOf(db.word, w)
      BY <1>5, <2>2 DEF IdsOf
    <3> QED
      BY <2>2, <3>1
  <2> QED
    BY <2>1, <2>2
<1>12. ASSUME NEW w
       PROVE  /\ Range(IdsOf(new.word, w)) \subseteq DOMAIN new.question
              /\ \A i \in DOMAIN new.question :
                   i \in Range(IdsOf(new.word, w)) <=> w \in Range(IndexWords(new.question[i]))
  <2>1. /\ Range(IdsOf(db.word, w)) \subseteq DOMAIN db.question
        /\ \A i \in DOMAIN db.question :
             i \in Range(IdsOf(db.word, w)) <=> w \in Range(IndexWords(db.question[i]))
    BY DEF RowsAreIndex
  <2>2. Range(IdsOf(new.word, w)) =
          Range(IdsOf(db.word, w)) \cup IF w \in Range(words) THEN {id} ELSE {}
    BY <1>11
  <2>3. ASSUME NEW i \in DOMAIN db.question
        PROVE  i \in Range(IdsOf(new.word, w)) <=> w \in Range(IndexWords(new.question[i]))
    <3>1. new.question[i] = db.question[i] /\ i # id
      BY <1>3, <1>6
    <3> QED
      BY <2>1, <2>2, <3>1
  <2>4. id \in Range(IdsOf(new.word, w)) <=> w \in Range(IndexWords(new.question[id]))
    <3>1. id \notin Range(IdsOf(db.word, w))
      BY <1>7, <2>1
    <3>2. IndexWords(new.question[id]) = words
      BY <1>6 DEF words
    <3> QED
      BY <2>2, <3>1, <3>2
  <2>5. Range(IdsOf(new.word, w)) \subseteq DOMAIN new.question
    BY <1>7, <2>1, <2>2
  <2> QED
    BY <1>7, <2>3, <2>4, <2>5
<1>13. RowsAreIndex(new)
  BY <1>6, <1>8, <1>10, <1>12 DEF RowsAreIndex
<1> QED
  BY <1>13 DEF new

(* The tables after one more entry, and after every entry of a file.       *)
Added(db, e) ==
  IF e.question \in Range(db.question) THEN db ELSE Inserted(db, e.question, e.answers)

AddedUpTo(db, entries, f, n) ==
  [k \in 0..n |-> IF k = 0 THEN db ELSE Added(f[k - 1], entries[k])]

LEMMA AddedExist ==
  ASSUME NEW db, NEW entries, NEW n \in Nat
  PROVE  \E f : f = AddedUpTo(db, entries, f, n)
<1> DEFINE T == {k \in 0..n : \E f : f = AddedUpTo(db, entries, f, k)}
<1>1. ASSUME NEW k \in 0..n, \A j \in 0..(k - 1) : j \in T
      PROVE  k \in T
  <2>1. CASE k = 0
    <3> DEFINE f == [j \in 0..0 |-> db]
    <3>1. f = AddedUpTo(db, entries, f, 0)
      BY DEF AddedUpTo
    <3> QED
      BY <2>1, <3>1, Zenon
  <2>2. CASE k # 0
    <3>1. k - 1 \in 0..(k - 1) /\ k \in Int /\ k > 0
      BY <2>2
    <3>2. k - 1 \in T
      BY <1>1, <3>1
    <3>3. PICK f : f = AddedUpTo(db, entries, f, k - 1)
      BY <3>2
    <3> DEFINE g == [j \in 0..k |-> IF j = k THEN Added(f[k - 1], entries[k]) ELSE f[j]]
    <3>4. ASSUME NEW j \in 0..k
          PROVE  g[j] = IF j = 0 THEN db ELSE Added(g[j - 1], entries[j])
      <4>1. f[0] = db
        <5>1. 0 \in 0..(k - 1)
          BY <3>1
        <5>2. f[0] = AddedUpTo(db, entries, f, k - 1)[0]
          BY <3>3, Zenon
        <5> QED
          BY <5>1, <5>2 DEF AddedUpTo
      <4>2. CASE j = 0
        BY <2>2, <4>1, <4>2
      <4>3. CASE j = k
        <5>1. k - 1 \in 0..k /\ k - 1 # k
          BY <3>1
        <5>2. g[j - 1] = f[k - 1]
          BY <4>3, <5>1
        <5> QED
          BY <2>2, <4>3, <5>2
      <4>4. CASE j # 0 /\ j # k
        <5>1. j \in 0..(k - 1) /\ j - 1 \in 0..k /\ j - 1 # k
          BY <3>1, <4>4
        <5>2. f[j] = AddedUpTo(db, entries, f, k - 1)[j]
          BY <3>3, Zenon
        <5>3. f[j] = Added(f[j - 1], entries[j])
          BY <4>4, <5>1, <5>2 DEF AddedUpTo
        <5>4. g[j] = f[j] /\ g[j - 1] = f[j - 1]
          BY <4>4, <5>1
        <5> QED
          BY <4>4, <5>3, <5>4
      <4> QED
        BY <4>2, <4>3, <4>4
    <3>5. g = AddedUpTo(db, entries, g, k)
      <4>1. g = [j \in 0..k |-> g[j]]
        OBVIOUS
      <4> HIDE DEF g
      <4>2. [j \in 0..k |-> g[j]] = AddedUpTo(db, entries, g, k)
        BY <3>4 DEF AddedUpTo
      <4> QED
        BY <4>1, <4>2
    <3> HIDE DEF g
    <3> QED
      BY <3>5
  <2> QED
    BY <2>1, <2>2
<1>2. 0 \in Int /\ n \in Int /\ n \in 0..n
  OBVIOUS
<1>3. \A k \in 0..n : k \in T
  <2> HIDE DEF T
  <2> QED
    BY <1>1, <1>2, Upwards
<1> QED
  BY <1>2, <1>3

LEMMA AddedAreIndex ==
  ASSUME NEW db, RowsAreIndex(db), NEW entries, AreEntries(entries),
         NEW f, f = AddedUpTo(db, entries, f, Len(entries))
  PROVE  RowsAreIndex(f[Len(entries)])
<1> DEFINE n == Len(entries)
           T == {k \in 0..n : RowsAreIndex(f[k])}
<1>1. n \in Nat /\ \A k \in 1..n : IsSeq(entries[k].question)
  BY IsSeqFacts DEF AreEntries
<1>2. ASSUME NEW k \in 0..n, \A j \in 0..(k - 1) : j \in T
      PROVE  k \in T
  <2>1. f[k] = AddedUpTo(db, entries, f, n)[k]
    BY Zenon
  <2>2. f[k] = IF k = 0 THEN db ELSE Added(f[k - 1], entries[k])
    BY <2>1 DEF AddedUpTo
  <2>3. CASE k = 0
    BY <2>2, <2>3
  <2>4. CASE k # 0
    <3>1. k - 1 \in 0..(k - 1) /\ k \in 1..n
      BY <1>1, <2>4
    <3>2. RowsAreIndex(f[k - 1])
      BY <1>2, <3>1
    <3>3. RowsAreIndex(Inserted(f[k - 1], entries[k].question, entries[k].answers))
      BY <1>1, <3>1, <3>2, InsertedIsIndex
    <3> QED
      BY <2>2, <2>4, <3>2, <3>3 DEF Added
  <2> QED
    BY <2>3, <2>4
<1>3. 0 \in Int /\ n \in Int /\ n \in 0..n
  BY <1>1
<1>4. \A k \in 0..n : k \in T
  <2> HIDE DEF T, n
  <2> QED
    BY <1>2, <1>3, Upwards
<1> QED
  BY <1>3, <1>4

LEMMA UpdateIs ==
  ASSUME NEW entries, Len(entries) \in Nat, UpdateDataBase(entries)
  PROVE  \E f : f = AddedUpTo(Tables, entries, f, Len(entries)) /\ BecomeTables(f[Len(entries)])
<1> DEFINE after == CHOOSE f : f = AddedUpTo(Tables, entries, f, Len(entries))
<1>1. \E f : f = AddedUpTo(Tables, entries, f, Len(entries))
  BY AddedExist
<1>2. after = AddedUpTo(Tables, entries, after, Len(entries))
  BY <1>1, Zenon
<1>3. BecomeTables(after[Len(entries)])
  BY Zenon DEF UpdateDataBase, AddedUpTo, Added
<1> QED
  BY <1>2, <1>3

-----------------------------------------------------------------------------
(* What a search lists.                                                    *)

LEMMA ImageIsFinite ==
  ASSUME NEW S, IsFiniteSet(S), NEW f, f = [x \in S |-> f[x]]
  PROVE  IsFiniteSet({f[x] : x \in S})
<1> DEFINE T == {f[x] : x \in S}
<1>1. f \in [S -> T]
  BY Zenon
<1>2. \A y \in T : \E x \in S : f[x] = y
  OBVIOUS
<1> HIDE DEF T
<1>3. f \in Surjection(S, T)
  BY <1>1, <1>2 DEF Surjection
<1>4. IsFiniteSet(T)
  BY <1>3, FS_Surjection
<1> QED
  BY <1>4 DEF T

(* Every row of a word that names a question counts.                       *)
LEMMA MatchesIs ==
  ASSUME \A w \in DOMAIN word : IsSeq(word[w]), NEW words, IsSeq(words), NEW id
  PROVE  /\ Matches(words, id) \in Nat
         /\ Matches(words, id) > 0 <=> \E w \in Range(words) : id \in Range(IdsOf(word, w))
<1> DEFINE At(i) == {n \in DOMAIN IdsOf(word, words[i]) : IdsOf(word, words[i])[n] = id}
           pairs == [i \in 1..Len(words) |-> {<<i, k>> : k \in At(i)}]
           all == UNION {pairs[i] : i \in 1..Len(words)}
<1>1. Len(words) \in Nat /\ DOMAIN words = 1..Len(words)
  BY IsSeqFacts
<1>2. Matches(words, id) = Cardinality(all)
  <2> DEFINE sets == {{<<i, k>> : k \in At(i)} : i \in DOMAIN words}
  <2>1. Matches(words, id) = Cardinality(UNION sets)
    BY DEF Matches
  <2> HIDE DEF At
  <2>2. sets = {pairs[i] : i \in 1..Len(words)}
    BY <1>1
  <2> QED
    BY <2>1, <2>2
<1>3. ASSUME NEW i \in 1..Len(words)
      PROVE  IsFiniteSet(pairs[i])
  <2>1. IsSeq(IdsOf(word, words[i]))
    BY IdsAreSeq
  <2>2. Len(IdsOf(word, words[i])) \in Int /\ DOMAIN IdsOf(word, words[i]) = 1..Len(IdsOf(word, words[i]))
    BY <2>1, IsSeqFacts
  <2>3. At(i) \subseteq 1..Len(IdsOf(word, words[i])) /\ 1 \in Int
    BY <2>2
  <2> HIDE DEF At
  <2>4. IsFiniteSet(At(i))
    BY <2>2, <2>3, IntervalIsFinite
  <2>5. IsFiniteSet({i})
    BY FS_Singleton
  <2>6. IsFiniteSet({i} \X At(i))
    BY <2>4, <2>5, FS_Product
  <2>7. pairs[i] = {i} \X At(i)
    OBVIOUS
  <2> QED
    BY <2>6, <2>7
<1>4. IsFiniteSet(all)
  <2>1. pairs = [i \in 1..Len(words) |-> pairs[i]]
    OBVIOUS
  <2>2. IsFiniteSet(1..Len(words))
    BY <1>1, FS_Interval
  <2> HIDE DEF pairs
  <2>3. IsFiniteSet({pairs[i] : i \in 1..Len(words)})
    BY <2>1, <2>2, ImageIsFinite
  <2>4. \A P \in {pairs[i] : i \in 1..Len(words)} : IsFiniteSet(P)
    BY <1>3
  <2> QED
    BY <2>3, <2>4, FS_UNION
<1>5. Cardinality(all) \in Nat /\ (Cardinality(all) = 0 <=> all = {})
  <2> HIDE DEF all
  <2> QED
    BY <1>4, FS_CardinalityType, FS_EmptySet
<1>6. all # {} <=> \E w \in Range(words) : id \in Range(IdsOf(word, w))
  <2>1. all # {} <=> \E i \in 1..Len(words) : At(i) # {}
    <3>1. all # {} <=> \E i \in 1..Len(words) : pairs[i] # {}
      <4> HIDE DEF pairs
      <4> QED
        OBVIOUS
    <3>2. \A i \in 1..Len(words) : pairs[i] = {<<i, k>> : k \in At(i)}
      OBVIOUS
    <3> HIDE DEF pairs, all, At
    <3>3. ASSUME NEW i \in 1..Len(words)
          PROVE  pairs[i] # {} <=> At(i) # {}
      <4>1. pairs[i] = {<<i, k>> : k \in At(i)}
        BY <3>2
      <4>2. {<<i, k>> : k \in At(i)} # {} <=> At(i) # {}
        OBVIOUS
      <4> QED
        BY <4>1, <4>2, Zenon
    <3> QED
      BY <3>1, <3>3
  <2>2. \A i \in 1..Len(words) : At(i) # {} <=> id \in Range(IdsOf(word, words[i]))
    BY DEF Range
  <2>3. Range(words) = {words[i] : i \in 1..Len(words)}
    BY <1>1 DEF Range
  <2> HIDE DEF At, all
  <2> QED
    BY <2>1, <2>2, <2>3
<1> HIDE DEF all
<1> QED
  BY <1>2, <1>5, <1>6

LEMMA SeqOfSet ==
  ASSUME NEW S, IsFiniteSet(S), NEW q \in SetToSeqs(S)
  PROVE  /\ DOMAIN q = 1..Cardinality(S)
         /\ \A i \in DOMAIN q : q[i] \in S
         /\ \A x \in S : \E i \in DOMAIN q : q[i] = x
         /\ \A i, j \in DOMAIN q : q[i] = q[j] => i = j
<1> DEFINE D == 1..Cardinality(S)
<1>1. q \in [D -> S] /\ \A i, j \in D : i # j => q[i] # q[j]
  BY Zenon DEF SetToSeqs
<1>2. IsFiniteSet(D) /\ Cardinality(D) = Cardinality(S)
  BY FS_CardinalityType, FS_Interval
<1> HIDE DEF D
<1>3. q \in Injection(D, S)
  BY <1>1 DEF Injection, IsInjective
<1>4. q \in Surjection(D, S)
  BY <1>2, <1>3, FS_Injection
<1>5. \A x \in S : \E i \in D : q[i] = x
  BY <1>4 DEF Surjection
<1>6. DOMAIN q = D
  BY <1>1
<1> QED
  BY <1>1, <1>5, <1>6 DEF D

LEMMA QueryLists ==
  ASSUME RowsAreIndex(Tables), NEW key, IsSeq(key), QueryQuestion(key)
  PROVE  /\ {listed'[i][1] : i \in DOMAIN listed'} =
              {id \in DOMAIN question :
                 Range(IndexWords(question[id])) \cap Range(IndexWords(key)) # {}}
         /\ \A i, j \in DOMAIN listed' : listed'[i][1] = listed'[j][1] => i = j
<1> DEFINE words == IndexWords(key)
           count == [id \in 1..Len(question) |-> <<id, Matches(words, id)>>]
           idMap == {<<id, Matches(words, id)>> : id \in 1..Len(question)}
           found == {p \in idMap : p[2] > 0}
<1>1. /\ IsSeq(question) /\ \A w \in DOMAIN word : IsSeq(word[w])
      /\ \A w : \A id \in DOMAIN question :
           id \in Range(IdsOf(word, w)) <=> w \in Range(IndexWords(question[id]))
  BY DEF RowsAreIndex, Tables
<1>2. IsSeq(words)
  BY IndexWordsAreSeq
<1>3. Len(question) \in Nat /\ DOMAIN question = 1..Len(question)
  BY <1>1, IsSeqFacts
<1>4. listed' \in SetToSeqs(found)
  BY DEF QueryQuestion
<1> HIDE DEF words
<1>5. IsFiniteSet(found)
  <2>1. IsFiniteSet(1..Len(question))
    BY <1>3, FS_Interval
  <2>2. count = [id \in 1..Len(question) |-> count[id]]
    OBVIOUS
  <2>3. idMap = {count[id] : id \in 1..Len(question)}
    OBVIOUS
  <2> HIDE DEF count, idMap
  <2>4. IsFiniteSet(idMap)
    BY <2>1, <2>2, <2>3, ImageIsFinite
  <2>5. found \subseteq idMap
    OBVIOUS
  <2> QED
    BY <2>4, <2>5, FS_Subset
<1>6. \A id \in 1..Len(question) : Matches(words, id) > 0 <=>
        Range(IndexWords(question[id])) \cap Range(words) # {}
  <2> SUFFICES ASSUME NEW id \in 1..Len(question)
               PROVE  Matches(words, id) > 0 <=>
                        Range(IndexWords(question[id])) \cap Range(words) # {}
    OBVIOUS
  <2>1. Matches(words, id) > 0 <=> \E w \in Range(words) : id \in Range(IdsOf(word, w))
    BY <1>1, <1>2, MatchesIs
  <2>2. \A w : id \in Range(IdsOf(word, w)) <=> w \in Range(IndexWords(question[id]))
    BY <1>1, <1>3
  <2> QED
    BY <2>1, <2>2
<1>7. \A p \in found : p = <<p[1], Matches(words, p[1])>> /\ p[1] \in 1..Len(question)
                        /\ Matches(words, p[1]) > 0
  OBVIOUS
<1>8. \A id \in 1..Len(question) : Matches(words, id) > 0 => <<id, Matches(words, id)>> \in found
  OBVIOUS
<1> HIDE DEF found, idMap, count
<1>9. /\ \A i \in DOMAIN listed' : listed'[i] \in found
      /\ \A x \in found : \E i \in DOMAIN listed' : listed'[i] = x
      /\ \A i, j \in DOMAIN listed' : listed'[i] = listed'[j] => i = j
  <2> DEFINE q == listed'
  <2>1. q \in SetToSeqs(found)
    BY <1>4
  <2> HIDE DEF q
  <2>2. /\ \A i \in DOMAIN q : q[i] \in found
        /\ \A x \in found : \E i \in DOMAIN q : q[i] = x
        /\ \A i, j \in DOMAIN q : q[i] = q[j] => i = j
    BY <1>5, <2>1, SeqOfSet
  <2> QED
    BY <2>2 DEF q
<1>10. \A i, j \in DOMAIN listed' : listed'[i][1] = listed'[j][1] => i = j
  BY <1>7, <1>9
<1>11. {listed'[i][1] : i \in DOMAIN listed'} = {id \in 1..Len(question) : Matches(words, id) > 0}
  <2>1. \A i \in DOMAIN listed' :
          listed'[i][1] \in 1..Len(question) /\ Matches(words, listed'[i][1]) > 0
    BY <1>7, <1>9
  <2>2. \A id \in 1..Len(question) : Matches(words, id) > 0 =>
          \E i \in DOMAIN listed' : listed'[i][1] = id
    <3> SUFFICES ASSUME NEW id \in 1..Len(question), Matches(words, id) > 0
                 PROVE  \E i \in DOMAIN listed' : listed'[i][1] = id
      OBVIOUS
    <3>1. PICK i \in DOMAIN listed' : listed'[i] = <<id, Matches(words, id)>>
      BY <1>8, <1>9
    <3> QED
      BY <3>1
  <2> QED
    BY <2>1, <2>2
<1> QED
  BY <1>3, <1>6, <1>10, <1>11 DEF words

ListedInv == RowsAreIndex(Tables) /\ ListedShareAWord

LEMMA InitListed == Init => ListedInv
<1> SUFFICES ASSUME Init PROVE ListedInv
  OBVIOUS
<1>1. question = << >> /\ word = << >> /\ keyWords = << >>
  BY DEF Init
<1>2. \A w : IdsOf(word, w) = << >>
  BY <1>1 DEF IdsOf
<1>3. DOMAIN question = {} /\ DOMAIN word = {}
  BY <1>1
<1>4. RowsAreIndex(Tables)
  BY <1>1, <1>2, <1>3, NothingIsSeq DEF RowsAreIndex, Tables
<1> QED
  BY <1>1, <1>4 DEF ListedInv, ListedShareAWord

LEMMA BecomeListed ==
  ASSUME NEW db, RowsAreIndex(db), BecomeTables(db)
  PROVE  ListedInv'
<1>1. question' = db.question /\ word' = db.word /\ keyWords' = << >>
  BY DEF BecomeTables
<1>2. RowsAreIndex(Tables)'
  BY <1>1 DEF RowsAreIndex, Tables, IdsOf
<1> QED
  BY <1>1, <1>2 DEF ListedInv, ListedShareAWord

LEMMA NextListed == ListedInv /\ [Next]_vars => ListedInv'
<1> SUFFICES ASSUME ListedInv, [Next]_vars PROVE ListedInv'
  OBVIOUS
<1>1. RowsAreIndex(Tables)
  BY DEF ListedInv
<1>2. ASSUME NEW text \in Questions, InsertQuestion(text)
      PROVE  ListedInv'
  <2>1. IsSeq(text)
    BY QuestionSearchAssumption
  <2>2. RowsAreIndex(Inserted(Tables, text, << >>))
    BY <1>1, <2>1, InsertedIsIndex
  <2> QED
    BY <1>2, <2>2, BecomeListed DEF InsertQuestion
<1>3. ASSUME NEW entries \in Files, UpdateDataBase(entries)
      PROVE  ListedInv'
  <2>1. AreEntries(entries)
    BY FilesAreEntries
  <2>2. Len(entries) \in Nat
    BY <2>1, IsSeqFacts DEF AreEntries
  <2>3. PICK f : f = AddedUpTo(Tables, entries, f, Len(entries)) /\ BecomeTables(f[Len(entries)])
    BY <1>3, <2>2, UpdateIs
  <2>4. RowsAreIndex(f[Len(entries)])
    BY <1>1, <2>1, <2>3, AddedAreIndex
  <2> QED
    BY <2>3, <2>4, BecomeListed
<1>4. ASSUME NEW key \in Keys, QueryQuestion(key)
      PROVE  ListedInv'
  <2>1. IsSeq(key)
    BY QuestionSearchAssumption
  <2>2. /\ {listed'[i][1] : i \in DOMAIN listed'} =
             {id \in DOMAIN question :
                Range(IndexWords(question[id])) \cap Range(IndexWords(key)) # {}}
        /\ \A i, j \in DOMAIN listed' : listed'[i][1] = listed'[j][1] => i = j
    BY <1>1, <1>4, <2>1, QueryLists
  <2>3. keyWords' = key /\ question' = question /\ word' = word
    BY <1>4 DEF QueryQuestion, tables
  <2>4. RowsAreIndex(Tables)'
    BY <1>1, <2>3 DEF RowsAreIndex, Tables, IdsOf
  <2>5. ListedShareAWord'
    BY <2>2, <2>3 DEF ListedShareAWord
  <2> QED
    BY <2>4, <2>5 DEF ListedInv
<1>5. CASE UNCHANGED vars
  <2>1. question' = question /\ word' = word /\ keyWords' = keyWords /\ listed' = listed
    BY <1>5 DEF vars, tables
  <2> QED
    BY <1>1, <2>1 DEF ListedInv, ListedShareAWord, RowsAreIndex, Tables, IdsOf
<1> QED
  BY <1>2, <1>3, <1>4, <1>5 DEF Next

(* A search lists every question that has a word in common with what was   *)
(* searched for, and only those, each once.                                *)
THEOREM ListedShareAWordHolds == Spec => []ListedShareAWord
<1>1. ListedInv => ListedShareAWord
  BY DEF ListedInv
<1> QED
  BY InitListed, NextListed, <1>1, PTL DEF Spec

-----------------------------------------------------------------------------
(* Weights above Floor are sums of weights above Floor: no weight is       *)
(* greater than 0.                                                         *)

LEMMA FloorsIs ==
  ASSUME NEW a \in Int
  PROVE  /\ Floors(a) \in Nat
         /\ a <= Floor => Floors(a) >= 1
<1> DEFINE c == -a
           d == -Floor
<1>1. c \in Int /\ d \in Int /\ d > 0
  BY WeightTypes
<1>2. a <= Floor <=> c >= d
  BY WeightTypes
<1>3. Floors(a) = IF c >= d THEN c \div d ELSE 0
  BY <1>2 DEF Floors
<1> HIDE DEF c, d
<1>4. c >= d => c \div d \in Int /\ c \div d >= 1
  BY <1>1
<1> QED
  BY <1>2, <1>3, <1>4

LEMMA PlusAbove ==
  ASSUME NEW a \in Int, NEW b \in Int, a <= 0, b <= 0
  PROVE  /\ Plus(a, b) \in Int /\ Plus(a, b) <= 0
         /\ Plus(a, b) > Floor => a > Floor /\ b > Floor
         /\ a > Floor /\ b > Floor => Plus(a, b) = a + b
<1>1. Floor \in Int /\ Floor < 0
  BY WeightTypes
<1>2. CASE a <= Floor \/ b <= Floor
  <2> DEFINE n == Floors(a) + Floors(b)
  <2>1. n \in Nat /\ n >= 1
    BY <1>2, FloorsIs
  <2>2. Plus(a, b) = Floor * n
    BY <1>2 DEF Plus
  <2> HIDE DEF n
  <2>3. n - 1 \in Nat /\ Floor * n = Floor + Floor * (n - 1)
    BY <1>1, <2>1
  <2>4. Floor * (n - 1) \in Int /\ Floor * (n - 1) <= 0
    BY <1>1, <2>3
  <2> QED
    BY <1>1, <1>2, <2>2, <2>3, <2>4
<1>3. CASE ~(a <= Floor \/ b <= Floor)
  BY <1>1, <1>3 DEF Plus
<1> QED
  BY <1>2, <1>3

LEMMA PlusIsMonotone ==
  ASSUME NEW a \in Int, NEW b \in Int, NEW c \in Int, a <= c, b <= 0, c <= 0, Plus(a, b) > Floor
  PROVE  Plus(a, b) <= Plus(c, b)
<1>1. Floor \in Int
  BY WeightTypes
<1>2. a > Floor /\ b > Floor /\ Plus(a, b) = a + b
  <2>1. a <= 0
    OBVIOUS
  <2> QED
    BY <2>1, PlusAbove
<1>3. c > Floor
  BY <1>1, <1>2
<1>4. Plus(c, b) = c + b
  BY <1>2, <1>3, PlusAbove
<1> QED
  BY <1>2, <1>4

(* What a path weighs up to every rune.                                    *)
PathFrom(s, status, first, last, f) ==
  [x \in first..last |->
    IF x = first THEN Plus(StartProb[status[x]], GetEmitProb(status[x], s[x]))
    ELSE Plus(Plus(f[x - 1], TransProb[status[x - 1]][status[x]]), GetEmitProb(status[x], s[x]))]

PathWeights(s, status, first, last, f) ==
  /\ \A x \in first..last : f[x] \in Int /\ f[x] <= 0
  /\ f[first] = Plus(StartProb[status[first]], GetEmitProb(status[first], s[first]))
  /\ \A x \in (first + 1)..last :
       f[x] = Plus(Plus(f[x - 1], TransProb[status[x - 1]][status[x]]), GetEmitProb(status[x], s[x]))

LEMMA PathWeightsExist ==
  ASSUME NEW s, NEW first \in Int, NEW last \in Int, first <= last,
         NEW status \in [first..last -> Status]
  PROVE  \E f : PathWeight(s, status, first, last) = f[last] /\ PathWeights(s, status, first, last, f)
<1> DEFINE P == first..last
           Weight == {n \in Int : n <= 0}
           F == [P -> Weight]
           G == [f \in F |-> PathFrom(s, status, first, last, f)]
           Begin == Plus(StartProb[status[first]], GetEmitProb(status[first], s[first]))
           Onward(x, n) == Plus(Plus(n, TransProb[status[x - 1]][status[x]]), GetEmitProb(status[x], s[x]))
<1>1. Begin \in Weight
  <2>1. status[first] \in Status
    OBVIOUS
  <2> DEFINE a == StartProb[status[first]]
             b == GetEmitProb(status[first], s[first])
  <2>2. a \in Int /\ a <= 0 /\ b \in Int /\ b <= 0
    BY <2>1, WeightTypes
  <2> HIDE DEF a, b
  <2>3. Plus(a, b) \in Int /\ Plus(a, b) <= 0
    BY <2>2, PlusAbove
  <2> QED
    BY <2>3 DEF a, b
<1>2. \A x \in (first + 1)..last : \A n \in Weight : Onward(x, n) \in Weight
  <2> SUFFICES ASSUME NEW x \in (first + 1)..last, NEW n \in Weight PROVE Onward(x, n) \in Weight
    OBVIOUS
  <2>1. x - 1 \in P /\ x \in P
    OBVIOUS
  <2>2. status[x - 1] \in Status /\ status[x] \in Status
    BY <2>1
  <2> DEFINE a == TransProb[status[x - 1]][status[x]]
             b == GetEmitProb(status[x], s[x])
  <2>3. a \in Int /\ a <= 0 /\ b \in Int /\ b <= 0 /\ n \in Int /\ n <= 0
    BY <2>2, WeightTypes
  <2> HIDE DEF a, b
  <2>4. Plus(n, a) \in Int /\ Plus(n, a) <= 0
    BY <2>3, PlusAbove
  <2>5. Plus(Plus(n, a), b) \in Int /\ Plus(Plus(n, a), b) <= 0
    BY <2>3, <2>4, PlusAbove
  <2> QED
    BY <2>5 DEF a, b
<1>3. \A f : PathFrom(s, status, first, last, f) =
               [x \in P |-> IF x = first THEN Begin ELSE Onward(x, f[x - 1])]
  BY DEF PathFrom
<1> HIDE DEF Begin, Onward, Weight
<1>4. ASSUME NEW f \in F PROVE PathFrom(s, status, first, last, f) \in F
  <2>1. ASSUME NEW x \in P, x # first PROVE Onward(x, f[x - 1]) \in Weight
    <3>1. x - 1 \in P /\ x \in (first + 1)..last
      BY <2>1
    <3> QED
      BY <1>2, <3>1
  <2> QED
    BY <1>1, <1>3, <2>1
<1>5. FunctionsOn(P, F, G)
  <2>1. G \in [F -> F]
    BY <1>4
  <2>2. [x \in P |-> Begin] \in F
    BY <1>1
  <2> QED
    BY <2>1, <2>2 DEF FunctionsOn
<1>6. ByEarlierPlaces(first, last, F, G)
  <2> SUFFICES ASSUME NEW f \in F, NEW g \in F, NEW x \in P, \A y \in first..(x - 1) : f[y] = g[y]
               PROVE  G[f][x] = G[g][x]
    BY DEF ByEarlierPlaces
  <2>1. x # first => f[x - 1] = g[x - 1]
    <3>1. x # first => x - 1 \in first..(x - 1)
      OBVIOUS
    <3> QED
      BY <3>1
  <2>2. PathFrom(s, status, first, last, f)[x] = PathFrom(s, status, first, last, g)[x]
    BY <1>3, <2>1
  <2> QED
    BY <2>2
<1>7. \E f \in F : f = G[f]
  <2> HIDE DEF F, G
  <2> QED
    BY <1>5, <1>6, FromTheFront
<1> DEFINE weight == CHOOSE f : f = PathFrom(s, status, first, last, f)
<1>8. weight = PathFrom(s, status, first, last, weight)
  BY <1>7, Zenon
<1>9. PathWeight(s, status, first, last) = weight[last]
  BY Zenon DEF PathWeight, PathFrom
<1> HIDE DEF weight
<1>10. \A x \in P : weight[x] = IF x = first THEN Begin ELSE Onward(x, weight[x - 1])
  BY <1>3, <1>8
<1> DEFINE T == {x \in P : weight[x] \in Weight}
<1>11. ASSUME NEW x \in P, \A y \in first..(x - 1) : y \in T PROVE x \in T
  <2>1. CASE x = first
    BY <1>1, <1>10, <2>1
  <2>2. CASE x # first
    <3>1. x - 1 \in first..(x - 1) /\ x \in (first + 1)..last
      BY <2>2
    <3>2. weight[x - 1] \in Weight
      BY <1>11, <3>1
    <3> QED
      BY <1>2, <1>10, <2>2, <3>1, <3>2
  <2> QED
    BY <2>1, <2>2
<1>12. \A x \in P : x \in T
  <2> HIDE DEF T
  <2> QED
    BY <1>11, Upwards
<1>13. \A x \in P : weight[x] \in Int /\ weight[x] <= 0
  BY <1>12 DEF Weight
<1>14. weight[first] = Begin
  BY <1>10
<1>15. \A x \in (first + 1)..last : weight[x] = Onward(x, weight[x - 1])
  <2>1. \A x \in (first + 1)..last : x \in P /\ x # first
    OBVIOUS
  <2> QED
    BY <1>10, <2>1
<1> QED
  BY <1>9, <1>13, <1>14, <1>15 DEF PathWeights, Begin, Onward

(* What Viterbi's rows hold for the places first..last.                    *)
LEMMA RowsAre ==
  ASSUME NEW s, NEW first \in Int, NEW last \in Int, first <= last,
         NEW rows, ViterbiRows(s, first, last, rows), NEW x \in first..last
  PROVE  /\ rows[x + 1 - first] \in Row
         /\ \A y \in Status : rows[x + 1 - first][y].weight \in Int /\ rows[x + 1 - first][y].path \in Status
         /\ x # first => \A y \in Status :
              rows[x + 1 - first][y] = StepAt(rows[x - first], y, s[x])
<1>1. rows \in Seq(Row) /\ x + 1 - first \in 1..Len(rows)
  BY DEF ViterbiRows, Rows
<1>2. rows[x + 1 - first] \in Row
  BY <1>1, ElementOfSeq
<1>3. ASSUME x # first, NEW y \in Status
      PROVE  rows[x + 1 - first][y] = StepAt(rows[x - first], y, s[x])
  <2>1. x \in (first + 1)..last
    BY <1>3
  <2>2. rows[x + 1 - first] = Step(rows[x - first], s[x])
    BY <2>1 DEF ViterbiRows
  <2> DEFINE old == rows[x - first]
             new == rows[x + 1 - first]
  <2>3. new = [z \in Status |-> StepAt(old, z, s[x])]
    BY <2>2, StepIs
  <2> HIDE DEF old, new
  <2>4. new[y] = StepAt(old, y, s[x])
    BY <2>3
  <2> QED
    BY <2>4 DEF old, new
<1>4. \A y \in Status : rows[x + 1 - first][y].weight \in Int /\ rows[x + 1 - first][y].path \in Status
  BY <1>2 DEF Row
<1> QED
  BY <1>2, <1>3, <1>4

LEMMA FirstRowIs ==
  ASSUME NEW s, NEW first \in Int, NEW last \in Int,
         NEW rows, ViterbiRows(s, first, last, rows), NEW y \in Status
  PROVE  rows[1][y].weight = Plus(StartProb[y], GetEmitProb(y, s[first]))
BY DEF ViterbiRows, Start

(* No weight of a row is greater than 0.                                   *)
LEMMA RowsAreNegative ==
  ASSUME NEW s, NEW first \in Int, NEW last \in Int, first <= last,
         NEW rows, ViterbiRows(s, first, last, rows)
  PROVE  \A x \in first..last : \A y \in Status : rows[x + 1 - first][y].weight <= 0
<1> DEFINE T == {x \in first..last : \A y \in Status : rows[x + 1 - first][y].weight <= 0}
<1>1. ASSUME NEW x \in first..last, \A z \in first..(x - 1) : z \in T
      PROVE  x \in T
  <2> SUFFICES ASSUME NEW y \in Status PROVE rows[x + 1 - first][y].weight <= 0
    OBVIOUS
  <2> DEFINE emit == GetEmitProb(y, s[x])
  <2>1. emit \in Int /\ emit <= 0
    BY WeightTypes
  <2>2. CASE x = first
    <3>a. x + 1 - first = 1
      BY <2>2
    <3>1. rows[x + 1 - first][y].weight = Plus(StartProb[y], emit)
      BY <2>2, <3>a, FirstRowIs
    <3>2. StartProb[y] \in Int /\ StartProb[y] <= 0
      BY WeightTypes
    <3>3. Plus(StartProb[y], emit) <= 0
      <4> HIDE DEF emit
      <4> QED
        BY <2>1, <3>2, PlusAbove
    <3> QED
      BY <3>1, <3>3
  <2>3. CASE x # first
    <3> DEFINE old == rows[x - first]
               new == rows[x + 1 - first][y]
    <3>1. x - 1 \in first..(x - 1) /\ x - 1 \in first..last /\ x - 1 + 1 - first = x - first
      BY <2>3
    <3>2. old \in Row /\ \A z \in Status : old[z].weight \in Int /\ old[z].weight <= 0
      <4>1. /\ rows[x - 1 + 1 - first] \in Row
            /\ \A z \in Status : rows[x - 1 + 1 - first][z].weight \in Int
        BY <3>1, RowsAre
      <4>2. \A z \in Status : rows[x - 1 + 1 - first][z].weight <= 0
        BY <1>1, <3>1
      <4> QED
        BY <3>1, <4>1, <4>2
    <3>3. new = StepAt(old, y, s[x])
      BY <2>3, RowsAre
    <3> HIDE DEF emit, old, new
    <3>4. /\ new.weight \in Int /\ new.path \in Status
          /\ new.weight # Floor => Transition(old, new.path, y, emit) = new.weight
      BY <3>2, <3>3, StepAtIsBest DEF emit
    <3>5. CASE new.weight = Floor
      BY <3>5, WeightTypes DEF new
    <3>6. CASE new.weight # Floor
      <4> DEFINE a == old[new.path].weight
                 b == TransProb[new.path][y]
      <4>1. a \in Int /\ a <= 0 /\ b \in Int /\ b <= 0
        BY <3>2, <3>4, WeightTypes
      <4>2. new.weight = Plus(Plus(a, b), emit)
        BY <3>4, <3>6 DEF Transition
      <4> HIDE DEF a, b
      <4>3. Plus(a, b) \in Int /\ Plus(a, b) <= 0
        BY <4>1, PlusAbove
      <4>4. Plus(Plus(a, b), emit) <= 0
        BY <2>1, <4>3, PlusAbove DEF emit
      <4> QED
        BY <4>2, <4>4 DEF new
    <3> QED
      BY <3>5, <3>6
  <2> QED
    BY <2>2, <2>3
<1>2. \A x \in first..last : x \in T
  <2> HIDE DEF T
  <2> QED
    BY <1>1, Upwards
<1> QED
  BY <1>2

(* A row weighs at least as much as any path that ends in it.              *)
LEMMA RowsAreHeaviest ==
  ASSUME NEW s, NEW first \in Int, NEW last \in Int, first <= last,
         NEW rows, ViterbiRows(s, first, last, rows),
         NEW status \in [first..last -> Status],
         NEW f, PathWeights(s, status, first, last, f)
  PROVE  \A x \in first..last : f[x] > Floor => f[x] <= rows[x + 1 - first][status[x]].weight
<1> DEFINE T == {x \in first..last : f[x] > Floor => f[x] <= rows[x + 1 - first][status[x]].weight}
<1>1. ASSUME NEW x \in first..last, \A z \in first..(x - 1) : z \in T
      PROVE  x \in T
  <2> SUFFICES ASSUME f[x] > Floor PROVE f[x] <= rows[x + 1 - first][status[x]].weight
    OBVIOUS
  <2> DEFINE y == status[x]
             emit == GetEmitProb(y, s[x])
  <2>1. y \in Status /\ f[x] \in Int /\ Floor \in Int
    BY WeightTypes DEF PathWeights
  <2>2. emit \in Int /\ emit <= 0
    BY <2>1, WeightTypes
  <2>3. CASE x = first
    <3>1. f[x] = Plus(StartProb[y], emit)
      BY <2>3 DEF PathWeights
    <3>2. rows[x + 1 - first][y].weight = Plus(StartProb[y], emit)
      BY <2>1, <2>3, FirstRowIs
    <3> QED
      BY <2>1, <3>1, <3>2
  <2>4. CASE x # first
    <3> DEFINE pre == status[x - 1]
               old == rows[x - first]
               new == rows[x + 1 - first][y]
               a == f[x - 1]
               b == TransProb[pre][y]
               c == old[pre].weight
    <3>1. x - 1 \in first..(x - 1) /\ x - 1 \in first..last /\ x - 1 + 1 - first = x - first
      BY <2>4
    <3>2. pre \in Status /\ old \in Row /\ c \in Int
      <4>1. pre \in Status
        BY <3>1
      <4>2. /\ rows[x - 1 + 1 - first] \in Row
            /\ \A z \in Status : rows[x - 1 + 1 - first][z].weight \in Int
        BY <3>1, RowsAre
      <4> HIDE DEF pre
      <4> QED
        BY <3>1, <4>1, <4>2
    <3>3. c <= 0
      <4>1. \A z \in Status : rows[x - 1 + 1 - first][z].weight <= 0
        BY <3>1, RowsAreNegative
      <4> HIDE DEF pre
      <4> QED
        BY <3>1, <3>2, <4>1
    <3>4. a \in Int /\ a <= 0
      BY <3>1 DEF PathWeights
    <3>5. b \in Int /\ b <= 0
      BY <2>1, <3>2, WeightTypes
    <3>6. f[x] = Plus(Plus(a, b), emit)
      <4>1. x \in (first + 1)..last
        BY <2>4
      <4> QED
        BY <4>1 DEF PathWeights
    <3>7. a > Floor => a <= c
      BY <1>1, <3>1
    <3>8. new = StepAt(old, y, s[x])
      BY <2>1, <2>4, RowsAre
    <3>9. new.weight \in Int /\ Transition(old, pre, y, emit) <= new.weight
      <4> HIDE DEF new, old, pre, y
      <4> QED
        BY <2>1, <3>2, <3>8, StepAtIsBest
    <3>10. Transition(old, pre, y, emit) = Plus(Plus(c, b), emit)
      BY DEF Transition
    <3> HIDE DEF a, b, c, emit, new, old, pre, y
    <3>11. Plus(a, b) \in Int /\ Plus(a, b) <= 0 /\ Plus(c, b) \in Int /\ Plus(c, b) <= 0
      BY <3>2, <3>3, <3>4, <3>5, PlusAbove
    <3>12. Plus(a, b) > Floor
      BY <2>2, <3>6, <3>11, PlusAbove
    <3>13. a > Floor
      BY <3>4, <3>5, <3>12, PlusAbove
    <3>14. Plus(a, b) <= Plus(c, b)
      BY <3>2, <3>3, <3>4, <3>5, <3>7, <3>12, <3>13, PlusIsMonotone
    <3>15. Plus(Plus(a, b), emit) <= Plus(Plus(c, b), emit)
      BY <2>2, <3>6, <3>11, <3>14, PlusIsMonotone
    <3>16. Plus(Plus(a, b), emit) \in Int /\ Plus(Plus(c, b), emit) \in Int
      BY <2>2, <3>11, PlusAbove
    <3> QED
      BY <3>6, <3>9, <3>10, <3>15, <3>16 DEF new, y
  <2> QED
    BY <2>3, <2>4
<1>2. \A x \in first..last : x \in T
  <2> HIDE DEF T
  <2> QED
    BY <1>1, Upwards
<1> QED
  BY <1>2

(* Where the path that is followed back from the last row weighs more than *)
(* Floor, every step of it is the one its row was made from: it weighs     *)
(* what the last row says.                                                 *)
LEMMA FoundPathWeighs ==
  ASSUME NEW s, NEW first \in Int, NEW last \in Int, first <= last,
         NEW rows, ViterbiRows(s, first, last, rows),
         NEW status, status = Backwards(rows, first, last),
         NEW f, PathWeights(s, status, first, last, f),
         rows[last + 1 - first][status[last]].weight > Floor
  PROVE  f[last] = rows[last + 1 - first][status[last]].weight
<1> DEFINE At(x) == rows[x + 1 - first][status[x]].weight
           Between(x) == TransProb[status[x - 1]][status[x]]
           Emit(x) == GetEmitProb(status[x], s[x])
           Above == {x \in first..last : At(x) > Floor}
           Same == {x \in first..last : f[x] = At(x)}
<1>1. /\ status \in [first..last -> Status]
      /\ \A x \in first..(last - 1) : status[x] = rows[x + 2 - first][status[x + 1]].path
  <2>1. rows \in Rows(first, last)
    BY DEF ViterbiRows
  <2> QED
    BY <2>1, BackwardsIs
<1>2. \A x \in first..last : status[x] \in Status
  BY <1>1
<1>3. \A x \in first..last : At(x) \in Int /\ At(x) <= 0
  <2> SUFFICES ASSUME NEW x \in first..last PROVE At(x) \in Int /\ At(x) <= 0
    OBVIOUS
  <2>1. status[x] \in Status
    BY <1>2
  <2>2. \A y \in Status : rows[x + 1 - first][y].weight \in Int
    BY RowsAre
  <2>3. \A y \in Status : rows[x + 1 - first][y].weight <= 0
    BY RowsAreNegative
  <2> QED
    BY <2>1, <2>2, <2>3
<1>4. \A x \in (first + 1)..last : /\ Between(x) \in Int /\ Between(x) <= 0
                                   /\ Emit(x) \in Int /\ Emit(x) <= 0
  <2> SUFFICES ASSUME NEW x \in (first + 1)..last
               PROVE  /\ Between(x) \in Int /\ Between(x) <= 0
                      /\ Emit(x) \in Int /\ Emit(x) <= 0
    OBVIOUS
  <2>1. x \in first..last /\ x - 1 \in first..last
    OBVIOUS
  <2>2. status[x] \in Status /\ status[x - 1] \in Status
    BY <1>2, <2>1
  <2> QED
    BY <2>2, WeightTypes
<1>5. ASSUME NEW x \in (first + 1)..last, At(x) > Floor
      PROVE  At(x) = Plus(Plus(At(x - 1), Between(x)), Emit(x))
  <2> DEFINE old == rows[x - first]
             new == rows[x + 1 - first][status[x]]
             y == status[x]
             pre == status[x - 1]
  <2>1. /\ x \in first..last /\ x # first /\ x - 1 \in first..(last - 1) /\ x - 1 \in first..last
        /\ x - 1 + 2 - first = x + 1 - first /\ x - 1 + 1 = x /\ x - 1 + 1 - first = x - first
    OBVIOUS
  <2>2. y \in Status
    BY <1>2, <2>1
  <2>3. pre = new.path
    BY <1>1, <2>1
  <2>4. new = StepAt(old, y, s[x])
    <3>1. \A z \in Status : rows[x + 1 - first][z] = StepAt(rows[x - first], z, s[x])
      BY <2>1, RowsAre
    <3> QED
      BY <2>2, <3>1
  <2>5. old \in Row
    <3>1. rows[x - 1 + 1 - first] \in Row
      BY <2>1, RowsAre
    <3> QED
      BY <2>1, <3>1
  <2>6. new.weight # Floor => Transition(old, new.path, y, GetEmitProb(y, s[x])) = new.weight
    <3> HIDE DEF old, new, y
    <3> QED
      BY <2>2, <2>4, <2>5, StepAtIsBest
  <2>7. new.weight = At(x) /\ At(x) # Floor
    BY <1>3, <1>5, <2>1, WeightTypes
  <2>8. Transition(old, pre, y, GetEmitProb(y, s[x])) = At(x)
    BY <2>3, <2>6, <2>7
  <2>9. At(x - 1) = old[pre].weight
    BY <2>1
  <2> QED
    BY <2>8, <2>9 DEF Transition
<1>6. \A x \in (first + 1)..last : f[x] = Plus(Plus(f[x - 1], Between(x)), Emit(x))
  BY DEF PathWeights
<1>7. f[first] = At(first)
  <2>1. first \in first..last /\ first + 1 - first = 1
    OBVIOUS
  <2>2. status[first] \in Status
    BY <1>2, <2>1
  <2>3. rows[1][status[first]].weight = f[first]
    BY <2>2, FirstRowIs DEF PathWeights
  <2> QED
    BY <2>1, <2>3
<1>8. At(last) > Floor
  OBVIOUS
<1> HIDE DEF At, Between, Emit
<1>9. ASSUME NEW x \in first..last, \A z \in (x + 1)..last : z \in Above
      PROVE  x \in Above
  <2>1. CASE x = last
    BY <1>8, <2>1
  <2>2. CASE x # last
    <3> DEFINE z == x + 1
    <3>1. z \in (x + 1)..last /\ z \in (first + 1)..last /\ z \in first..last /\ z - 1 = x
      BY <2>2
    <3>2. At(z) > Floor
      BY <1>9, <3>1
    <3>3. At(z) = Plus(Plus(At(x), Between(z)), Emit(z))
      BY <1>5, <3>1, <3>2
    <3>4. /\ At(x) \in Int /\ At(x) <= 0
          /\ Between(z) \in Int /\ Between(z) <= 0 /\ Emit(z) \in Int /\ Emit(z) <= 0
      BY <1>3, <1>4, <3>1
    <3> HIDE DEF z
    <3>5. Plus(At(x), Between(z)) \in Int /\ Plus(At(x), Between(z)) <= 0
      BY <3>4, PlusAbove
    <3>6. Plus(At(x), Between(z)) > Floor
      BY <3>2, <3>3, <3>4, <3>5, PlusAbove
    <3>7. At(x) > Floor
      BY <3>4, <3>6, PlusAbove
    <3> QED
      BY <3>7
  <2> QED
    BY <2>1, <2>2
<1>10. \A x \in first..last : At(x) > Floor
  <2>1. \A x \in first..last : x \in Above
    <3> HIDE DEF Above
    <3> QED
      BY <1>9, Downwards
  <2> QED
    BY <2>1
<1>11. ASSUME NEW x \in first..last, \A z \in first..(x - 1) : z \in Same
       PROVE  x \in Same
  <2>1. CASE x = first
    BY <1>7, <2>1
  <2>2. CASE x # first
    <3>1. x - 1 \in first..(x - 1) /\ x \in (first + 1)..last
      BY <2>2
    <3>2. f[x - 1] = At(x - 1)
      BY <1>11, <3>1
    <3>3. f[x] = At(x)
      BY <1>5, <1>6, <1>10, <3>1, <3>2
    <3> QED
      BY <3>3
  <2> QED
    BY <2>1, <2>2
<1>12. \A x \in first..last : x \in Same
  <2> HIDE DEF Same
  <2> QED
    BY <1>11, Upwards
<1>13. f[last] = At(last)
  BY <1>12
<1> QED
  BY <1>13 DEF At

LEMMA ViterbiIsLikeliest ==
  ASSUME NEW s, NEW first \in Int, NEW last \in Int, first <= last,
         NEW status \in [first..last -> Status], status[last] \in {"E", "S"},
         PathWeight(s, status, first, last) > Floor
  PROVE  PathWeight(s, status, first, last)
           <= PathWeight(s, Viterbi(s, first, last), first, last)
<1> DEFINE found == Viterbi(s, first, last)
           Best == [y \in Status |-> 0]
<1>1. PICK rows : ViterbiRows(s, first, last, rows) /\ found = Backwards(rows, first, last)
  BY ViterbiHasRows
<1>2. found \in [first..last -> Status] /\ found[last] = EndStatus(rows[last + 1 - first])
  BY <1>1, BackwardsIs DEF ViterbiRows
<1>3. PICK f : PathWeight(s, status, first, last) = f[last] /\ PathWeights(s, status, first, last, f)
  BY PathWeightsExist
<1> HIDE DEF found
<1>4. PICK g : PathWeight(s, found, first, last) = g[last] /\ PathWeights(s, found, first, last, g)
  BY <1>2, PathWeightsExist
<1> DEFINE row == rows[last + 1 - first]
<1>5. last \in first..last
  OBVIOUS
<1>6. f[last] > Floor /\ f[last] \in Int
  BY <1>3, <1>5 DEF PathWeights
<1>7. f[last] <= row[status[last]].weight
  BY <1>1, <1>3, <1>5, <1>6, RowsAreHeaviest
<1>8. \A y \in Status : row[y].weight \in Int
  BY <1>1, <1>5, RowsAre
<1> HIDE DEF row
<1>9. row[status[last]].weight <= row[EndStatus(row)].weight
  <2>1. row["E"].weight \in Int /\ row["S"].weight \in Int
    BY <1>8 DEF Status
  <2> QED
    BY <2>1 DEF EndStatus
<1>10. found[last] = EndStatus(row) /\ EndStatus(row) \in Status
  BY <1>2 DEF row, EndStatus, Status
<1>11. status[last] \in Status
  BY <1>5
<1>12. row[found[last]].weight > Floor /\ f[last] <= row[found[last]].weight
  <2>1. Floor \in Int
    BY WeightTypes
  <2> QED
    BY <1>6, <1>7, <1>8, <1>9, <1>10, <1>11, <2>1
<1>13. g[last] = row[found[last]].weight
  BY <1>1, <1>4, <1>12, FoundPathWeighs DEF row
<1> QED
  BY <1>3, <1>4, <1>12, <1>13 DEF found

(* Viterbi finds the most probable statuses that end a word, whenever any  *)
(* are possible in the model at all, also where weights below Floor absorb *)
(* what is added to them.                                                  *)
THEOREM StatusIsLikeliestHolds == Spec => []StatusIsLikeliest
<1>1. KeyIsText => StatusIsLikeliest
  <2> DEFINE P == {i \in 1..Len(keyWords) : keyWords[i] \notin Ascii \cup Separators}
  <2> SUFFICES ASSUME KeyIsText, NEW p \in Stretches(P)
               PROVE  LET found == PathWeight(keyWords, Viterbi(keyWords, p[1], p[2]), p[1], p[2]) IN
                      \A status \in [p[1]..p[2] -> Status] :
                        LET other == PathWeight(keyWords, status, p[1], p[2]) IN
                        status[p[2]] \in {"E", "S"} /\ other > Floor => other <= found
    BY DEF StatusIsLikeliest
  <2>1. p[1] \in Int /\ p[2] \in Int /\ p[1] <= p[2]
    <3>1. P \subseteq 1..Len(keyWords) /\ 1 \in Int
      OBVIOUS
    <3>2. Len(keyWords) \in Int
      BY KeyLen
    <3> HIDE DEF P
    <3>3. Tiles(Stretches(P), P)
      BY <3>1, <3>2, StretchesTile
    <3> QED
      BY <3>3 DEF Tiles
  <2> QED
    BY <2>1, ViterbiIsLikeliest
<1> QED
  BY <1>1, KeyIsAlwaysText, PTL

-----------------------------------------------------------------------------
(* Numbers in their order: they rise, and none is missing.                 *)
LEMMA InOrderRises ==
  ASSUME NEW S, S \subseteq Int, IsFiniteSet(S)
  PROVE  /\ Cardinality(S) \in Nat
         /\ \A k \in 1..Cardinality(S) : InOrder(S)[k] \in S
         /\ \A k, m \in 1..Cardinality(S) : k < m => InOrder(S)[k] < InOrder(S)[m]
         /\ \A x \in S : \E k \in 1..Cardinality(S) : InOrder(S)[k] = x
<1> DEFINE n == Cardinality(S)
           q == InOrder(S)
           Below(x) == {j \in S : j < x}
<1>1. /\ n \in Nat /\ IsSeq(q) /\ Len(q) = n
      /\ \A k \in 1..n : q[k] \in S /\ Cardinality(Below(q[k])) = k - 1
  BY InOrderIs
<1> HIDE DEF n, q
<1>2. \A k, m \in 1..n : k < m => q[k] < q[m]
  <2> SUFFICES ASSUME NEW k \in 1..n, NEW m \in 1..n, k < m, ~(q[k] < q[m]) PROVE FALSE
    OBVIOUS
  <2>1. Below(q[m]) \subseteq Below(q[k])
    <3>1. q[k] \in Int /\ q[m] \in Int
      BY <1>1
    <3>2. q[m] <= q[k]
      BY <3>1
    <3>3. \A j \in S : j \in Int
      OBVIOUS
    <3>4. \A j \in S : j < q[m] => j < q[k]
      BY <3>1, <3>2, <3>3
    <3> QED
      BY <3>4
  <2>2. IsFiniteSet(Below(q[k]))
    <3>1. Below(q[k]) \subseteq S
      OBVIOUS
    <3> QED
      BY <3>1, FS_Subset
  <2>3. Cardinality(Below(q[k])) = k - 1 /\ Cardinality(Below(q[m])) = m - 1
    BY <1>1
  <2> HIDE DEF Below
  <2>4. Cardinality(Below(q[m])) <= Cardinality(Below(q[k]))
    BY <2>1, <2>2, FS_Subset
  <2> QED
    BY <2>3, <2>4
<1>3. \A x \in S : \E k \in 1..n : q[k] = x
  <2> DEFINE D == 1..n
  <2>1. q = [k \in D |-> q[k]]
    BY <1>1 DEF IsSeq
  <2>2. \A k \in D : q[k] \in S
    BY <1>1
  <2>3. \A k, m \in D : q[k] = q[m] => k = m
    <3> SUFFICES ASSUME NEW k \in D, NEW m \in D, q[k] = q[m], k # m PROVE FALSE
      OBVIOUS
    <3>1. k < m \/ m < k
      OBVIOUS
    <3>2. q[k] \in Int
      BY <1>1
    <3> QED
      BY <1>2, <3>1, <3>2
  <2>4. IsFiniteSet(D) /\ Cardinality(D) = n
    BY <1>1, FS_Interval
  <2> HIDE DEF D
  <2>5. q \in [D -> S]
    BY <2>1, <2>2
  <2>6. q \in Injection(D, S)
    BY <2>3, <2>5 DEF Injection, IsInjective
  <2>7. q \in Surjection(D, S)
    BY <2>4, <2>6, FS_Injection DEF n
  <2>8. \A x \in S : \E k \in D : q[k] = x
    BY <2>7 DEF Surjection
  <2> QED
    BY <2>8 DEF D
<1> QED
  BY <1>1, <1>2, <1>3 DEF n, q

(* The first of rising numbers.                                            *)
Rises(q, n) == \A k \in 1..n : q[k] \in Int /\ \A m \in 1..n : k < m => q[k] < q[m]

LEMMA FirstOf ==
  ASSUME NEW n \in Nat, NEW q, Rises(q, n), NEW T, IsFiniteSet(T),
         \A x \in T : \E k \in 1..n : q[k] = x,
         \A x \in T : \A k \in 1..n : q[k] <= x => q[k] \in T
  PROVE  /\ Cardinality(T) \in Nat
         /\ \A k \in 1..Cardinality(T) : k <= n /\ InOrder(T)[k] = q[k] /\ q[k] \in T
<1> DEFINE c == Cardinality(T)
           p == InOrder(T)
           Same == {k \in 1..c : k <= n /\ p[k] = q[k]}
<1>0. \A k \in 1..n : q[k] \in Int /\ \A m \in 1..n : k < m => q[k] < q[m]
  BY DEF Rises
<1>1. T \subseteq Int
  BY <1>0
<1>2. /\ c \in Nat /\ \A k \in 1..c : p[k] \in T
      /\ \A k, m \in 1..c : k < m => p[k] < p[m]
      /\ \A x \in T : \E k \in 1..c : p[k] = x
  BY <1>1, InOrderRises
<1> HIDE DEF c, p
<1>3. ASSUME NEW k \in 1..c, \A j \in 1..(k - 1) : j \in Same
      PROVE  k \in Same
  <2>1. p[k] \in T /\ p[k] \in Int
    BY <1>1, <1>2
  <2>2. PICK m \in 1..n : q[m] = p[k]
    BY <2>1
  <2>3. k <= m
    <3> SUFFICES ASSUME m < k PROVE FALSE
      BY <1>2
    <3>1. m \in 1..(k - 1) /\ m \in 1..c
      BY <1>2
    <3>2. p[m] = q[m]
      BY <1>3, <3>1
    <3>3. p[m] < p[k]
      BY <1>2, <3>1
    <3> QED
      BY <2>1, <2>2, <3>2, <3>3
  <2>4. k \in 1..n
    BY <1>2, <2>3
  <2>5. q[k] \in Int /\ q[k] <= p[k]
    <3>1. q[k] \in Int /\ q[m] \in Int /\ (k < m => q[k] < q[m])
      BY <1>0, <2>4
    <3> QED
      BY <2>2, <2>3, <3>1
  <2>6. q[k] \in T
    BY <2>1, <2>4, <2>5
  <2>7. PICK l \in 1..c : p[l] = q[k]
    BY <1>2, <2>6
  <2>8. k <= l
    <3> SUFFICES ASSUME l < k PROVE FALSE
      BY <1>2
    <3>1. l \in 1..(k - 1) /\ l \in 1..n
      BY <1>2, <2>4
    <3>2. p[l] = q[l]
      BY <1>3, <3>1
    <3>3. q[l] < q[k] /\ q[l] \in Int
      BY <1>0, <2>4, <3>1
    <3> QED
      BY <2>5, <2>7, <3>2, <3>3
  <2>9. p[k] <= p[l]
    <3>1. k < l => p[k] < p[l]
      BY <1>2
    <3>2. p[l] \in Int
      BY <2>5, <2>7
    <3> QED
      BY <2>1, <2>8, <3>1, <3>2
  <2> QED
    BY <2>1, <2>4, <2>5, <2>7, <2>9
<1>4. \A k \in 1..c : k \in Same
  <2>1. 1 \in Int /\ c \in Int
    BY <1>2
  <2> HIDE DEF Same
  <2> QED
    BY <1>3, <2>1, Upwards
<1>5. \A k \in 1..c : q[k] \in T
  BY <1>2, <1>4
<1> QED
  BY <1>2, <1>4, <1>5 DEF c, p

(* What a sequence keeps when it is cut short, and if then one that is not *)
(* kept is added, is the beginning of what the whole would keep.           *)
LEMMA NotEmptyOfPrefix ==
  ASSUME NEW short, IsSeq(short), NEW long, IsSeq(long), Len(short) <= Len(long) + 1,
         \A k \in 1..Len(short) : IF k <= Len(long) THEN short[k] = long[k] ELSE short[k] = << >>
  PROVE  IsPrefix(NotEmpty(short), NotEmpty(long))
<1> DEFINE S == {n \in 1..Len(short) : short[n] # << >>}
           L == {n \in 1..Len(long) : long[n] # << >>}
           p == InOrder(S)
           q == InOrder(L)
           m == Cardinality(S)
           n == Cardinality(L)
<1>1. Len(short) \in Nat /\ Len(long) \in Nat
  BY IsSeqFacts
<1>2. \A k : k \in S <=> k \in L /\ k <= Len(short)
  BY <1>1
<1>3. S \subseteq Int /\ L \subseteq Int /\ IsFiniteSet(S) /\ IsFiniteSet(L)
  <2>1. /\ S \subseteq 1..Len(short) /\ L \subseteq 1..Len(long)
        /\ 1 \in Int /\ Len(short) \in Int /\ Len(long) \in Int
    BY <1>1
  <2> HIDE DEF S, L
  <2>2. IsFiniteSet(S) /\ IsFiniteSet(L)
    BY <1>1, <2>1, IntervalIsFinite
  <2>3. 1..Len(short) \subseteq Int /\ 1..Len(long) \subseteq Int
    OBVIOUS
  <2> QED
    BY <2>1, <2>2, <2>3
<1>4. NotEmpty(short) = Kept(short, S) /\ NotEmpty(long) = Kept(long, L)
  BY DEF NotEmpty
<1> HIDE DEF S, L
<1>5. /\ m \in Nat /\ IsSeq(p) /\ Len(p) = m
      /\ n \in Nat /\ IsSeq(q) /\ Len(q) = n /\ \A k \in 1..n : q[k] \in L
  BY <1>3, InOrderIs
<1>6. Rises(q, n) /\ \A x \in L : \E k \in 1..n : q[k] = x
  BY <1>3, InOrderRises DEF Rises
<1> HIDE DEF p, q, n, m
<1>7. \A x \in S : \E k \in 1..n : q[k] = x
  BY <1>2, <1>6
<1>8. \A x \in S : \A k \in 1..n : q[k] <= x => q[k] \in S
  <2> SUFFICES ASSUME NEW x \in S, NEW k \in 1..n, q[k] <= x PROVE q[k] \in S
    OBVIOUS
  <2>1. x \in Int /\ x <= Len(short)
    BY <1>2, <1>3
  <2>2. q[k] \in L /\ q[k] \in Int
    BY <1>3, <1>5
  <2> QED
    BY <1>1, <1>2, <2>1, <2>2
<1>9. \A k \in 1..m : k <= n /\ p[k] = q[k] /\ q[k] \in S
  BY <1>3, <1>5, <1>6, <1>7, <1>8, FirstOf DEF m, p
<1>10. m <= n
  <2>1. m # 0 => m \in 1..m
    BY <1>5
  <2> QED
    BY <1>5, <1>9, <2>1
<1>11. /\ NotEmpty(short) = [k \in 1..m |-> short[p[k]]]
       /\ NotEmpty(long) = [k \in 1..n |-> long[q[k]]]
  BY <1>4, <1>5 DEF Kept, p, q
<1>12. \A k \in 1..m : short[p[k]] = long[q[k]]
  <2> SUFFICES ASSUME NEW k \in 1..m PROVE short[p[k]] = long[q[k]]
    OBVIOUS
  <2>1. k \in 1..n /\ p[k] = q[k] /\ q[k] \in S
    BY <1>5, <1>9
  <2>2. q[k] \in L /\ q[k] <= Len(short)
    BY <1>2, <2>1
  <2>3. q[k] \in 1..Len(short) /\ q[k] \in 1..Len(long)
    BY <1>1, <2>2 DEF L
  <2> QED
    BY <1>1, <2>1, <2>3
<1> DEFINE a == NotEmpty(short)
           b == NotEmpty(long)
<1>13. Len(a) = m /\ Len(b) = n /\ \A k \in 1..m : a[k] = b[k]
  BY <1>5, <1>10, <1>11, <1>12
<1> HIDE DEF a, b
<1>14. SubSeq(a, 1, m) = SubSeq(b, 1, m)
  <2>1. SubSeq(a, 1, m) = [k \in 1..m |-> a[k]] /\ SubSeq(b, 1, m) = [k \in 1..m |-> b[k]]
    BY <1>5
  <2> QED
    BY <1>13, <2>1
<1> QED
  BY <1>10, <1>13, <1>14 DEF IsPrefix, a, b

-----------------------------------------------------------------------------
(* Where the lines of a text begin and end in it.                          *)
AreLines(P, lines, b, z) ==
  /\ IsSeq(P) /\ Len(lines) \in Nat \ {0}
  /\ b[1] = 1 /\ z[Len(lines)] = Len(P)
  /\ \A k \in 1..Len(lines) :
       /\ b[k] \in Int /\ z[k] \in Int /\ 1 <= b[k] /\ b[k] <= z[k] + 1 /\ z[k] <= Len(P)
       /\ lines[k] = SubSeq(P, b[k], z[k])
       /\ \A p \in b[k]..z[k] : P[p] # LF
  /\ \A k \in 1..(Len(lines) - 1) : z[k] < Len(P) /\ P[z[k] + 1] = LF /\ b[k + 1] = z[k] + 2
  /\ \A p \in 1..Len(P) : P[p] = LF => \E k \in 1..(Len(lines) - 1) : z[k] = p - 1

LEMMA LinesAre ==
  ASSUME NEW P, IsSeq(P)
  PROVE  \E b, z : AreLines(P, Lines(P), b, z)
<1> DEFINE len == Len(P)
           S == {n \in 1..len : P[n] = LF}
           ends == InOrder(S)
           c == Cardinality(S)
           b == [k \in 1..(c + 1) |-> IF k = 1 THEN 1 ELSE ends[k - 1] + 1]
           z == [k \in 1..(c + 1) |-> IF k > c THEN len ELSE ends[k] - 1]
           lines == Lines(P)
<1>1. len \in Nat
  BY IsSeqFacts
<1>2. S \subseteq Int /\ S \subseteq 1..len /\ IsFiniteSet(S)
  <2>1. S \subseteq Int /\ S \subseteq 1..len /\ 1 \in Int /\ len \in Int
    BY <1>1
  <2> HIDE DEF S
  <2> QED
    BY <2>1, IntervalIsFinite
<1>3. \A n \in S : n \in 1..len /\ P[n] = LF
  OBVIOUS
<1>4. \A p \in 1..len : P[p] = LF => p \in S
  OBVIOUS
<1>5. lines = [k \in 1..(Len(ends) + 1) |->
                 SubSeq(P, IF k = 1 THEN 1 ELSE ends[k - 1] + 1, IF k > Len(ends) THEN len ELSE ends[k] - 1)]
  BY DEF Lines, Places
<1> HIDE DEF S, len
<1>6. /\ c \in Nat /\ Len(ends) = c
      /\ \A k \in 1..c : ends[k] \in S
      /\ \A k, m \in 1..c : k < m => ends[k] < ends[m]
      /\ \A x \in S : \E k \in 1..c : ends[k] = x
  BY <1>2, InOrderIs, InOrderRises
<1>7. \A k \in 1..c : ends[k] \in 1..len /\ P[ends[k]] = LF
  BY <1>3, <1>6
<1> HIDE DEF ends, c, lines
<1>8. Len(lines) = c + 1
  BY <1>5, <1>6
<1>9. \A k \in 1..(c + 1) : lines[k] = SubSeq(P, b[k], z[k])
  <2> SUFFICES ASSUME NEW k \in 1..(c + 1) PROVE lines[k] = SubSeq(P, b[k], z[k])
    OBVIOUS
  <2>1. lines[k] = SubSeq(P, IF k = 1 THEN 1 ELSE ends[k - 1] + 1, IF k > c THEN len ELSE ends[k] - 1)
    BY <1>5, <1>6
  <2> QED
    BY <2>1
<1>10. b[1] = 1 /\ z[c + 1] = len
  BY <1>6
<1>11. \A k \in 1..c : z[k] = ends[k] - 1 /\ b[k + 1] = ends[k] + 1
  <2> SUFFICES ASSUME NEW k \in 1..c PROVE z[k] = ends[k] - 1 /\ b[k + 1] = ends[k] + 1
    OBVIOUS
  <2>1. k \in 1..(c + 1) /\ k + 1 \in 1..(c + 1) /\ ~(k > c) /\ k + 1 # 1 /\ k + 1 - 1 = k
    BY <1>6
  <2> QED
    BY <2>1
<1> HIDE DEF b, z
<1>12. ASSUME NEW k \in 1..(c + 1)
       PROVE  /\ b[k] \in Int /\ z[k] \in Int /\ 1 <= b[k] /\ b[k] <= z[k] + 1 /\ z[k] <= len
              /\ k > 1 => k - 1 \in 1..c /\ b[k] = ends[k - 1] + 1
  <2>1. k > 1 => k - 1 \in 1..c /\ b[k] = ends[k - 1] + 1
    <3> SUFFICES ASSUME k > 1 PROVE k - 1 \in 1..c /\ b[k] = ends[k - 1] + 1
      OBVIOUS
    <3>1. k - 1 \in 1..c /\ k - 1 + 1 = k
      BY <1>6
    <3> QED
      BY <1>11, <3>1
  <2>2. k <= c => k \in 1..c /\ z[k] = ends[k] - 1 /\ ends[k] \in 1..len
    BY <1>6, <1>7, <1>11
  <2>3. k > c => z[k] = len
    BY <1>6, <1>10
  <2>4. k > 1 => ends[k - 1] \in 1..len
    BY <1>7, <2>1
  <2>5. k > 1 /\ k <= c => ends[k - 1] < ends[k]
    <3> SUFFICES ASSUME k > 1, k <= c PROVE ends[k - 1] < ends[k]
      OBVIOUS
    <3>1. k - 1 \in 1..c /\ k \in 1..c /\ k - 1 < k
      BY <2>1, <2>2
    <3> QED
      BY <1>6, <3>1
  <2>6. c \in Nat /\ len \in Nat
    BY <1>1, <1>6
  <2>7. CASE k = 1 /\ k > c
    BY <1>10, <2>3, <2>6, <2>7
  <2>8. CASE k = 1 /\ k <= c
    BY <1>10, <2>2, <2>6, <2>8
  <2>9. CASE k > 1 /\ k > c
    BY <2>1, <2>3, <2>4, <2>6, <2>9
  <2>10. CASE k > 1 /\ k <= c
    BY <2>1, <2>2, <2>4, <2>5, <2>6, <2>10
  <2> QED
    BY <2>6, <2>7, <2>8, <2>9, <2>10
<1>13. ASSUME NEW k \in 1..(c + 1), NEW p \in b[k]..z[k]
       PROVE  P[p] # LF
  <2> SUFFICES ASSUME P[p] = LF PROVE FALSE
    OBVIOUS
  <2>1. p \in Int /\ b[k] <= p /\ p <= z[k] /\ p \in 1..len
    BY <1>1, <1>12
  <2>2. PICK m \in 1..c : ends[m] = p
    BY <1>4, <1>6, <2>1
  <2>3. m < k
    <3> SUFFICES ASSUME k <= m PROVE FALSE
      BY <1>6
    <3>1. k \in 1..c /\ (k < m => ends[k] < ends[m]) /\ ends[k] \in Int
      BY <1>6, <1>7
    <3>2. z[k] = ends[k] - 1
      BY <1>11, <3>1
    <3> QED
      BY <2>1, <2>2, <3>1, <3>2
  <2>4. k > 1 /\ m <= k - 1
    BY <1>6, <2>3
  <2>5. k - 1 \in 1..c /\ b[k] = ends[k - 1] + 1
    BY <1>12, <2>4
  <2>6. (m < k - 1 => ends[m] < ends[k - 1]) /\ ends[k - 1] \in Int
    BY <1>6, <1>7, <2>5
  <2> QED
    BY <2>1, <2>2, <2>4, <2>5, <2>6
<1>14. ASSUME NEW k \in 1..c
       PROVE  z[k] < len /\ P[z[k] + 1] = LF /\ b[k + 1] = z[k] + 2
  <2>1. ends[k] \in 1..len /\ P[ends[k]] = LF
    BY <1>7
  <2> QED
    BY <1>1, <1>11, <2>1
<1>15. ASSUME NEW p \in 1..len, P[p] = LF
       PROVE  \E k \in 1..c : z[k] = p - 1
  <2>1. PICK k \in 1..c : ends[k] = p
    BY <1>4, <1>6, <1>15
  <2> QED
    BY <1>11, <2>1
<1>16. Len(lines) - 1 = c /\ Len(lines) \in Nat \ {0}
  BY <1>6, <1>8
<1>17. AreLines(P, lines, b, z)
  BY <1>8, <1>9, <1>10, <1>12, <1>13, <1>14, <1>15, <1>16 DEF AreLines, len
<1> HIDE DEF lines
<1> QED
  BY <1>17 DEF lines

LEMMA LinesRise ==
  ASSUME NEW P, NEW lines, NEW b, NEW z, AreLines(P, lines, b, z),
         NEW j \in 1..Len(lines), NEW k \in 1..Len(lines), j < k
  PROVE  b[j] < b[k] /\ z[j] + 2 <= b[k]
<1> DEFINE n == Len(lines)
           T == {i \in (j + 1)..n : z[j] + 2 <= b[i]}
<1>1. n \in Nat
  BY DEF AreLines
<1>2. \A i \in 1..n : b[i] \in Int /\ z[i] \in Int /\ b[i] <= z[i] + 1
  BY DEF AreLines
<1>3. \A i \in 1..(n - 1) : b[i + 1] = z[i] + 2
  BY DEF AreLines
<1> HIDE DEF n
<1>4. ASSUME NEW i \in (j + 1)..n, \A m \in (j + 1)..(i - 1) : m \in T
      PROVE  i \in T
  <2>1. i - 1 \in 1..(n - 1) /\ i - 1 + 1 = i /\ i - 1 \in 1..n
    BY <1>1
  <2>2. b[i] = z[i - 1] + 2
    BY <1>3, <2>1
  <2>3. CASE i = j + 1
    BY <1>1, <1>2, <2>1, <2>2, <2>3
  <2>4. CASE i # j + 1
    <3>1. i - 1 \in (j + 1)..(i - 1)
      BY <1>1, <2>4
    <3>2. z[j] + 2 <= b[i - 1]
      BY <1>4, <3>1
    <3>3. b[i - 1] \in Int /\ z[i - 1] \in Int /\ b[i - 1] <= z[i - 1] + 1 /\ z[j] \in Int
      BY <1>2, <2>1 DEF n
    <3> DEFINE v == b[i - 1]
               w == z[i - 1]
               x == z[j]
    <3>4. v \in Int /\ w \in Int /\ v <= w + 1 /\ x \in Int /\ x + 2 <= v
      BY <3>2, <3>3
    <3> HIDE DEF v, w, x
    <3>5. x + 2 <= w + 2
      BY <3>4
    <3> QED
      BY <2>2, <3>5 DEF w, x
  <2> QED
    BY <2>3, <2>4
<1>5. \A i \in (j + 1)..n : i \in T
  <2>1. j + 1 \in Int /\ n \in Int
    BY <1>1
  <2> HIDE DEF T
  <2> QED
    BY <1>4, <2>1, Upwards
<1>6. k \in (j + 1)..n
  BY <1>1 DEF n
<1>7. z[j] + 2 <= b[k]
  BY <1>5, <1>6
<1>8. b[j] \in Int /\ z[j] \in Int /\ b[j] <= z[j] + 1 /\ b[k] \in Int
  BY <1>2 DEF n
<1> QED
  BY <1>7, <1>8

LEMMA SameSeq ==
  ASSUME NEW p, NEW q, IsSeq(p), IsSeq(q), Len(p) = Len(q), \A i \in 1..Len(p) : p[i] = q[i]
  PROVE  p = q
<1>1. p = [i \in 1..Len(p) |-> p[i]] /\ q = [i \in 1..Len(q) |-> q[i]]
  BY DEF IsSeq
<1> QED
  BY <1>1

(* What r has where p and then q would have it.                            *)
AreJoined(p, q, r) ==
  /\ \A i \in 1..Len(p) : r[i] = p[i]
  /\ \A i \in 1..Len(q) : r[Len(p) + i] = q[i]

LEMMA ConcatElements ==
  ASSUME NEW p, NEW q, IsSeq(p), IsSeq(q)
  PROVE  AreJoined(p, q, p \o q)
<1> DEFINE X == Range(p) \cup Range(q)
<1>1. p \in Seq(X) /\ q \in Seq(X)
  <2>1. p \in Seq(Range(p)) /\ q \in Seq(Range(q)) /\ Range(p) \subseteq X /\ Range(q) \subseteq X
    BY DEF IsSeq
  <2> HIDE DEF X
  <2> QED
    BY <2>1, SeqMonotonic
<1> HIDE DEF X
<1>2. Len(p) \in Nat /\ Len(q) \in Nat /\ Len(p \o q) = Len(p) + Len(q)
  BY <1>1, LenProperties, ConcatProperties
<1>3. \A i \in 1..Len(p \o q) :
        (p \o q)[i] = IF i <= Len(p) THEN p[i] ELSE q[i - Len(p)]
  BY <1>1, ConcatProperties
<1>4. \A i \in 1..Len(p) : i \in 1..Len(p \o q) /\ i <= Len(p)
  BY <1>2
<1>5. \A i \in 1..Len(q) : Len(p) + i \in 1..Len(p \o q) /\ ~(Len(p) + i <= Len(p)) /\ Len(p) + i - Len(p) = i
  BY <1>2
<1> QED
  BY <1>3, <1>4, <1>5 DEF AreJoined

LEMMA SubSeqAppend ==
  ASSUME NEW P, NEW a \in Int, NEW c \in Int, a <= c + 1
  PROVE  Append(SubSeq(P, a, c), P[c + 1]) = SubSeq(P, a, c + 1)
<1> DEFINE p == SubSeq(P, a, c)
           q == SubSeq(P, a, c + 1)
           r == Append(p, P[c + 1])
           n == c - a + 1
<1>1. n \in Nat /\ c + 1 \in Int /\ n + 1 = c + 1 - a + 1 /\ a + (n + 1) - 1 = c + 1
  OBVIOUS
<1>2. IsSeq(p) /\ Len(p) = n /\ \A i \in 1..n : p[i] = P[a + i - 1]
  BY <1>1, SubSeqIsSeq
<1>3. IsSeq(q) /\ Len(q) = n + 1 /\ \A i \in 1..(n + 1) : q[i] = P[a + i - 1]
  BY <1>1, SubSeqIsSeq
<1> HIDE DEF p, q
<1>4. IsSeq(r) /\ Len(r) = n + 1 /\ r[n + 1] = P[c + 1] /\ \A i \in 1..n : r[i] = p[i]
  BY <1>2, AppendIsSeq
<1> HIDE DEF r, n
<1>5. \A i \in 1..(n + 1) : r[i] = q[i]
  <2> SUFFICES ASSUME NEW i \in 1..(n + 1) PROVE r[i] = q[i]
    OBVIOUS
  <2>1. CASE i = n + 1
    BY <1>1, <1>3, <1>4, <2>1
  <2>2. CASE i # n + 1
    <3>1. i \in 1..n
      BY <1>1, <2>2
    <3> QED
      BY <1>2, <1>3, <1>4, <3>1
  <2> QED
    BY <2>1, <2>2
<1>6. r = q
  BY <1>3, <1>4, <1>5, SameSeq
<1> QED
  BY <1>6 DEF p, q, r

LEMMA SubSeqJoin ==
  ASSUME NEW P, NEW a \in Int, NEW c \in Int, NEW d \in Int, a <= c + 1, c <= d
  PROVE  SubSeq(P, a, c) \o SubSeq(P, c + 1, d) = SubSeq(P, a, d)
<1> DEFINE p == SubSeq(P, a, c)
           q == SubSeq(P, c + 1, d)
           r == SubSeq(P, a, d)
           m == c - a + 1
           n == d - c
<1>1. m \in Nat /\ n \in Nat /\ c + 1 \in Int /\ n = d - (c + 1) + 1 /\ m + n = d - a + 1
  OBVIOUS
<1>2. IsSeq(p) /\ Len(p) = m /\ \A i \in 1..m : p[i] = P[a + i - 1]
  BY <1>1, SubSeqIsSeq
<1>3. IsSeq(q) /\ Len(q) = n /\ \A i \in 1..n : q[i] = P[c + 1 + i - 1]
  BY <1>1, SubSeqIsSeq
<1>4. IsSeq(r) /\ Len(r) = m + n /\ \A i \in 1..(m + n) : r[i] = P[a + i - 1]
  BY <1>1, SubSeqIsSeq
<1>5. c = a + m - 1
  OBVIOUS
<1> HIDE DEF p, q, r, m, n
<1>6. IsSeq(p \o q) /\ Len(p \o q) = m + n
  BY <1>2, <1>3, ConcatIsSeq
<1>7. /\ \A i \in 1..m : (p \o q)[i] = p[i]
      /\ \A i \in 1..n : (p \o q)[m + i] = q[i]
  <2>1. AreJoined(p, q, p \o q)
    BY <1>2, <1>3, ConcatElements
  <2> QED
    BY <1>2, <1>3, <2>1 DEF AreJoined
<1>8. \A i \in 1..(m + n) : (p \o q)[i] = r[i]
  <2> SUFFICES ASSUME NEW i \in 1..(m + n) PROVE (p \o q)[i] = r[i]
    OBVIOUS
  <2>1. CASE i <= m
    <3>1. i \in 1..m
      BY <1>1, <2>1
    <3> QED
      BY <1>2, <1>4, <1>7, <3>1
  <2>2. CASE i > m
    <3> DEFINE j == i - m
    <3>1. j \in 1..n /\ m + j = i /\ c + 1 + j - 1 = a + i - 1
      BY <1>1, <1>5, <2>2
    <3>3. r[i] = P[a + i - 1]
      BY <1>4
    <3> HIDE DEF j
    <3>2. (p \o q)[m + j] = q[j] /\ q[j] = P[c + 1 + j - 1]
      BY <1>3, <1>7, <3>1
    <3> QED
      BY <3>1, <3>2, <3>3
  <2>3. i <= m \/ i > m
    BY <1>1
  <2> QED
    BY <2>1, <2>2, <2>3
<1>9. p \o q = r
  BY <1>4, <1>6, <1>8, SameSeq
<1> QED
  BY <1>9 DEF p, q, r

LEMMA SubSeqFront ==
  ASSUME NEW P, NEW a \in Int, NEW c \in Int, a <= c
  PROVE  WithoutLast(SubSeq(P, a, c)) = SubSeq(P, a, c - 1)
<1> DEFINE p == SubSeq(P, a, c)
           q == SubSeq(P, a, c - 1)
           n == c - a
           r == SubSeq(p, 1, n)
<1>1. n \in Nat /\ c - 1 \in Int /\ n + 1 = c - a + 1 /\ n = c - 1 - a + 1 /\ 1 \in Int /\ n = n - 1 + 1
  OBVIOUS
<1>2. IsSeq(p) /\ Len(p) = n + 1 /\ \A i \in 1..(n + 1) : p[i] = P[a + i - 1]
  BY <1>1, SubSeqIsSeq
<1>3. IsSeq(q) /\ Len(q) = n /\ \A i \in 1..n : q[i] = P[a + i - 1]
  BY <1>1, SubSeqIsSeq
<1> HIDE DEF p, q, n
<1>4. IsSeq(r) /\ Len(r) = n /\ \A i \in 1..n : r[i] = p[1 + i - 1]
  BY <1>1, SubSeqIsSeq
<1> HIDE DEF r
<1>5. \A i \in 1..n : r[i] = q[i]
  <2> SUFFICES ASSUME NEW i \in 1..n PROVE r[i] = q[i]
    OBVIOUS
  <2>1. 1 + i - 1 = i /\ i \in 1..(n + 1)
    BY <1>1
  <2> QED
    BY <1>2, <1>3, <1>4, <2>1
<1>6. r = q
  BY <1>3, <1>4, <1>5, SameSeq
<1>7. p # << >>
  <2>1. Len(<< >>) = 0
    OBVIOUS
  <2> QED
    BY <1>1, <1>2, <2>1
<1>8. WithoutLast(p) = SubSeq(p, 1, Len(p) - 1)
  BY <1>7 DEF WithoutLast, Front
<1>9. Len(p) - 1 = n
  BY <1>1, <1>2
<1> QED
  BY <1>6, <1>8, <1>9 DEF p, q, r

LEMMA NothingIs ==
  ASSUME NEW q, IsSeq(q), Len(q) = 0
  PROVE  q = << >>
<1>1. Len(<< >>) = 0 /\ IsSeq(<< >>)
  BY NothingIsSeq
<1> QED
  BY <1>1, SameSeq

(* The lines before one, read one after the other, are the text up to it.  *)
LEMMA TextIs ==
  ASSUME NEW P, NEW lines, NEW b, NEW z, AreLines(P, lines, b, z),
         NEW i \in 1..Len(lines), NEW e \in 1..Len(lines), i <= e
  PROVE  WithoutLast(Text(lines, i, e - 1)) = SubSeq(P, b[i], b[e] - 2)
<1> DEFINE n == e - i
           q == [k \in 1..n |-> Append(lines[i + k - 1], LF)]
<1>0. i \in Int /\ e \in Int /\ n \in Nat /\ e - 1 + 1 - i = n /\ Len(lines) \in Nat
  BY DEF AreLines
<1>1. b[i] \in Int /\ b[e] \in Int
  BY DEF AreLines
<1>2. Text(lines, i, e - 1) = FlattenSeq(q)
  BY <1>0 DEF Text
<1>3. q = [k \in 1..n |-> q[k]]
  BY Zenon
<1>4. ASSUME NEW k \in 1..n
      PROVE  /\ q[k] = SubSeq(P, b[i + k - 1], b[i + k] - 1)
             /\ b[i + k - 1] \in Int /\ b[i + k] \in Int /\ b[i + k - 1] < b[i + k]
             /\ b[i] <= b[i + k - 1]
  <2> DEFINE j == i + k - 1
  <2>1. j \in 1..(Len(lines) - 1) /\ j \in 1..Len(lines) /\ j + 1 \in 1..Len(lines) /\ j + 1 = i + k /\ i <= j
    BY <1>0
  <2>2. q[k] = Append(lines[j], LF)
    OBVIOUS
  <2> HIDE DEF q, j
  <2>3. /\ lines[j] = SubSeq(P, b[j], z[j]) /\ P[z[j] + 1] = LF /\ b[j + 1] = z[j] + 2
        /\ b[j] \in Int /\ z[j] \in Int /\ b[j] <= z[j] + 1 /\ b[j + 1] \in Int
    BY <2>1 DEF AreLines
  <2>4. Append(SubSeq(P, b[j], z[j]), P[z[j] + 1]) = SubSeq(P, b[j], z[j] + 1)
    BY <2>3, SubSeqAppend
  <2>5. z[j] + 1 = b[j + 1] - 1
    BY <2>3
  <2>6. i < j => b[i] < b[j]
    BY <2>1, LinesRise
  <2>7. b[i] <= b[j]
    BY <1>1, <2>1, <2>3, <2>6
  <2>8. q[k] = SubSeq(P, b[j], b[j + 1] - 1)
    BY <2>2, <2>3, <2>4, <2>5
  <2>9. b[j] < b[j + 1]
    BY <2>3
  <2>10. b[i + k] = b[j + 1]
    BY <2>1
  <2> QED
    BY <2>3, <2>7, <2>8, <2>9, <2>10 DEF j
<1> HIDE DEF q, n
<1>5. IsSeq(q) /\ Len(q) = n
  BY <1>0, <1>3, FunctionIsSeq
<1>6. \A k \in 1..n : IsSeq(q[k])
  <2> SUFFICES ASSUME NEW k \in 1..n PROVE IsSeq(q[k])
    OBVIOUS
  <2>1. b[i + k - 1] \in Int /\ b[i + k] \in Int
    BY <1>4
  <2>2. b[i + k] - 1 \in Int
    BY <2>1
  <2>3. IsSeq(SubSeq(P, b[i + k - 1], b[i + k] - 1))
    BY <2>1, <2>2, SubSeqIsSeq
  <2> QED
    BY <1>4, <2>3
<1>7. CASE n = 0
  <2>1. q = << >>
    BY <1>5, <1>7, NothingIs
  <2>2. FlattenSeq(q) = << >>
    BY <1>5, <1>7, <2>1 DEF FlattenSeq
  <2>3. WithoutLast(Text(lines, i, e - 1)) = << >>
    BY <1>2, <2>2 DEF WithoutLast
  <2>4. i = e
    BY <1>0, <1>7 DEF n
  <2>5. b[e] - 2 \in Int /\ ~(b[i] <= b[e] - 2)
    BY <1>1, <2>4
  <2>6. IsSeq(SubSeq(P, b[i], b[e] - 2)) /\ Len(SubSeq(P, b[i], b[e] - 2)) = 0
    BY <1>1, <2>5, SubSeqIsSeq
  <2> QED
    BY <2>3, <2>6, NothingIs
<1>8. CASE n # 0
  <2>1. PICK f : f = FlattenUpTo(q, f) /\ FlattenSeq(q) = f[n]
    BY <1>5, <1>6, <1>8, FlattenExists
  <2>2. ASSUME NEW k \in 1..n PROVE f[k] = IF k = 1 THEN q[k] ELSE f[k - 1] \o q[k]
    <3>1. f[k] = FlattenUpTo(q, f)[k]
      BY <2>1, Zenon
    <3> QED
      BY <1>5, <3>1 DEF FlattenUpTo
  <2> DEFINE T == {k \in 1..n : f[k] = SubSeq(P, b[i], b[i + k] - 1)}
  <2>3. ASSUME NEW k \in 1..n, \A j \in 1..(k - 1) : j \in T PROVE k \in T
    <3>1. CASE k = 1
      <4>1. i + k - 1 = i
        BY <1>0, <3>1
      <4> QED
        BY <1>4, <2>2, <3>1, <4>1
    <3>2. CASE k # 1
      <4>1. k - 1 \in 1..(k - 1) /\ i + (k - 1) = i + k - 1
        BY <1>0, <3>2
      <4>2. f[k - 1] = SubSeq(P, b[i], b[i + k - 1] - 1)
        BY <2>3, <4>1
      <4> DEFINE c == b[i + k - 1] - 1
                 d == b[i + k] - 1
      <4>3. c \in Int /\ d \in Int /\ b[i] <= c + 1 /\ c <= d /\ c + 1 = b[i + k - 1]
        <5> DEFINE u == b[i]
                   v == b[i + k - 1]
                   w == b[i + k]
        <5>1. u \in Int /\ v \in Int /\ w \in Int /\ u <= v /\ v <= w /\ c = v - 1 /\ d = w - 1
          BY <1>1, <1>4
        <5> HIDE DEF u, v, w, c, d
        <5>2. c \in Int /\ d \in Int /\ u <= c + 1 /\ c <= d /\ c + 1 = v
          BY <5>1
        <5> QED
          BY <5>2 DEF u, v
      <4> HIDE DEF c, d
      <4>4. SubSeq(P, b[i], c) \o SubSeq(P, c + 1, d) = SubSeq(P, b[i], d)
        BY <1>1, <4>3, SubSeqJoin
      <4>5. f[k] = SubSeq(P, b[i], d)
        <5>1. f[k] = f[k - 1] \o q[k]
          BY <2>2, <3>2
        <5>2. q[k] = SubSeq(P, c + 1, d)
          BY <1>4, <4>3 DEF d
        <5>3. f[k - 1] = SubSeq(P, b[i], c)
          BY <4>2 DEF c
        <5> QED
          BY <4>4, <5>1, <5>2, <5>3
      <4> QED
        BY <4>5 DEF d
    <3> QED
      BY <3>1, <3>2
  <2>4. \A k \in 1..n : k \in T
    <3>1. 1 \in Int /\ n \in Int
      BY <1>0
    <3> HIDE DEF T
    <3> QED
      BY <2>3, <3>1, Upwards
  <2>5. n \in 1..n /\ i + n = e
    BY <1>0, <1>8 DEF n
  <2>6. FlattenSeq(q) = SubSeq(P, b[i], b[e] - 1)
    BY <2>1, <2>4, <2>5
  <2>7. i < e
    BY <1>0, <1>8 DEF n
  <2>8. b[i] < b[e]
    BY <2>7, LinesRise
  <2>9. b[e] - 1 \in Int /\ b[i] <= b[e] - 1 /\ b[e] - 1 - 1 = b[e] - 2
    BY <1>1, <2>8
  <2>10. WithoutLast(SubSeq(P, b[i], b[e] - 1)) = SubSeq(P, b[i], b[e] - 1 - 1)
    BY <1>1, <2>9, SubSeqFront
  <2> QED
    BY <1>2, <2>6, <2>9, <2>10
<1> QED
  BY <1>7, <1>8

LEMMA LineAt ==
  ASSUME NEW P, NEW lines, NEW b, NEW z, AreLines(P, lines, b, z),
         NEW p \in 1..(Len(P) + 1), p = 1 \/ P[p - 1] = LF
  PROVE  \E k \in 1..Len(lines) : b[k] = p
<1>1. Len(lines) \in Nat \ {0} /\ Len(P) \in Nat /\ b[1] = 1
  BY IsSeqFacts DEF AreLines
<1>2. CASE p = 1
  BY <1>1, <1>2
<1>3. CASE p # 1
  <2>1. p - 1 \in 1..Len(P) /\ P[p - 1] = LF
    BY <1>1, <1>3
  <2>2. PICK k \in 1..(Len(lines) - 1) : z[k] = p - 1 - 1
    BY <2>1 DEF AreLines
  <2>3. b[k + 1] = z[k] + 2
    BY DEF AreLines
  <2>4. k + 1 \in 1..Len(lines) /\ p - 1 - 1 + 2 = p
    BY <1>1
  <2> QED
    BY <2>2, <2>3, <2>4
<1> QED
  BY <1>2, <1>3

LEMMA LineEndsAt ==
  ASSUME NEW P, NEW lines, NEW b, NEW z, AreLines(P, lines, b, z),
         NEW k \in 1..Len(lines), NEW e \in Int, b[k] <= e + 1, e <= Len(P),
         \A p \in b[k]..e : P[p] # LF, e = Len(P) \/ P[e + 1] = LF
  PROVE  z[k] = e
<1>1. /\ Len(lines) \in Nat \ {0} /\ Len(P) \in Nat /\ z[Len(lines)] = Len(P)
      /\ b[k] \in Int /\ z[k] \in Int /\ b[k] <= z[k] + 1 /\ z[k] <= Len(P)
      /\ \A p \in b[k]..z[k] : P[p] # LF
  BY IsSeqFacts DEF AreLines
<1>2. ~(z[k] < e)
  <2> SUFFICES ASSUME z[k] < e PROVE FALSE
    OBVIOUS
  <2>1. k # Len(lines)
    BY <1>1
  <2>2. k \in 1..(Len(lines) - 1)
    BY <1>1, <2>1
  <2>3. P[z[k] + 1] = LF
    BY <2>2 DEF AreLines
  <2>4. z[k] + 1 \in b[k]..e
    BY <1>1
  <2> QED
    BY <2>3, <2>4
<1>3. ~(e < z[k])
  <2> SUFFICES ASSUME e < z[k] PROVE FALSE
    OBVIOUS
  <2>1. P[e + 1] = LF
    BY <1>1
  <2>2. e + 1 \in b[k]..z[k]
    BY <1>1
  <2> QED
    BY <1>1, <2>1, <2>2
<1> QED
  BY <1>1, <1>2, <1>3

(* A line that is a mark, and where one is.                                *)
LEMMA MarkIsLine ==
  ASSUME CR # LF, NEW P, NEW lines, NEW b, NEW z, AreLines(P, lines, b, z),
         NEW k \in 1..Len(lines), b[k] <= Len(P), P[b[k]] = CR
  PROVE  /\ b[k] = Len(P) \/ P[b[k] + 1] = LF => z[k] = b[k] /\ lines[k] = <<CR>>
         /\ b[k] + 1 <= Len(P) /\ P[b[k] + 1] = CR /\ (b[k] + 1 = Len(P) \/ P[b[k] + 2] = LF)
              => z[k] = b[k] + 1 /\ lines[k] = <<CR, CR>>
<1>1. b[k] \in Int /\ lines[k] = SubSeq(P, b[k], z[k]) /\ Len(P) \in Nat
  BY IsSeqFacts DEF AreLines
<1>2. ASSUME b[k] = Len(P) \/ P[b[k] + 1] = LF
      PROVE  z[k] = b[k] /\ lines[k] = <<CR>>
  <2>1. \A p \in b[k]..b[k] : P[p] # LF
    BY <1>1
  <2>2. b[k] <= b[k] + 1
    BY <1>1
  <2>3. z[k] = b[k]
    BY <1>1, <1>2, <2>1, <2>2, LineEndsAt
  <2>4. /\ IsSeq(lines[k]) /\ Len(lines[k]) = 1
        /\ lines[k][1] = P[b[k]]
    <3>1. /\ IsSeq(SubSeq(P, b[k], b[k]))
          /\ Len(SubSeq(P, b[k], b[k])) = IF b[k] <= b[k] THEN b[k] - b[k] + 1 ELSE 0
          /\ \A i \in 1..(b[k] - b[k] + 1) : SubSeq(P, b[k], b[k])[i] = P[b[k] + i - 1]
      BY <1>1, SubSeqIsSeq
    <3>2. 1 \in 1..(b[k] - b[k] + 1) /\ b[k] + 1 - 1 = b[k] /\ b[k] <= b[k] /\ b[k] - b[k] + 1 = 1
      BY <1>1
    <3> QED
      BY <1>1, <2>3, <3>1, <3>2
  <2>5. IsSeq(<<CR>>) /\ Len(<<CR>>) = 1 /\ <<CR>>[1] = CR
    <3>1. <<CR>> \in Seq({CR})
      OBVIOUS
    <3> QED
      BY <3>1, SeqIsSeq
  <2>6. \A i \in 1..1 : lines[k][i] = <<CR>>[i]
    BY <2>4, <2>5
  <2>7. lines[k] = <<CR>>
    BY <2>4, <2>5, <2>6, SameSeq
  <2> QED
    BY <2>3, <2>7
<1>3. ASSUME b[k] + 1 <= Len(P), P[b[k] + 1] = CR, b[k] + 1 = Len(P) \/ P[b[k] + 2] = LF
      PROVE  z[k] = b[k] + 1 /\ lines[k] = <<CR, CR>>
  <2> DEFINE e == b[k] + 1
  <2>1. e \in Int /\ b[k] <= e + 1 /\ e <= Len(P) /\ (e = Len(P) \/ P[e + 1] = LF)
    <3>1. e + 1 = b[k] + 2
      BY <1>1
    <3> QED
      BY <1>1, <1>3, <3>1
  <2>2. \A p \in b[k]..e : P[p] # LF
    <3>1. \A p \in b[k]..e : p = b[k] \/ p = b[k] + 1
      BY <1>1
    <3> QED
      BY <1>3, <3>1
  <2> HIDE DEF e
  <2>3. z[k] = e
    BY <2>1, <2>2, LineEndsAt
  <2>4. /\ IsSeq(lines[k]) /\ Len(lines[k]) = 2
        /\ lines[k][1] = P[b[k]] /\ lines[k][2] = P[b[k] + 1]
    <3>1. /\ IsSeq(SubSeq(P, b[k], e))
          /\ Len(SubSeq(P, b[k], e)) = IF b[k] <= e THEN e - b[k] + 1 ELSE 0
          /\ \A i \in 1..(e - b[k] + 1) : SubSeq(P, b[k], e)[i] = P[b[k] + i - 1]
      BY <1>1, <2>1, SubSeqIsSeq
    <3>2. /\ 1 \in 1..(e - b[k] + 1) /\ 2 \in 1..(e - b[k] + 1) /\ b[k] + 1 - 1 = b[k]
          /\ b[k] + 2 - 1 = b[k] + 1 /\ b[k] <= e /\ e - b[k] + 1 = 2
      BY <1>1 DEF e
    <3> QED
      BY <1>1, <2>3, <3>1, <3>2
  <2>5. IsSeq(<<CR, CR>>) /\ Len(<<CR, CR>>) = 2 /\ <<CR, CR>>[1] = CR /\ <<CR, CR>>[2] = CR
    <3>1. <<CR, CR>> \in Seq({CR})
      OBVIOUS
    <3> QED
      BY <3>1, SeqIsSeq
  <2>6. \A i \in 1..2 : lines[k][i] = <<CR, CR>>[i]
    BY <1>3, <2>4, <2>5
  <2>7. lines[k] = <<CR, CR>>
    BY <2>4, <2>5, <2>6, SameSeq
  <2> QED
    BY <2>3, <2>7 DEF e
<1> QED
  BY <1>2, <1>3

LEMMA LineIsMark ==
  ASSUME NEW P, NEW lines, NEW b, NEW z, AreLines(P, lines, b, z), NEW k \in 1..Len(lines)
  PROVE  /\ lines[k] = <<CR>> => z[k] = b[k] /\ b[k] <= Len(P) /\ P[b[k]] = CR
         /\ lines[k] = <<CR, CR>> => /\ z[k] = b[k] + 1 /\ b[k] + 1 <= Len(P)
                                     /\ P[b[k]] = CR /\ P[b[k] + 1] = CR
<1>1. /\ b[k] \in Int /\ z[k] \in Int /\ lines[k] = SubSeq(P, b[k], z[k])
      /\ b[k] <= z[k] + 1 /\ z[k] <= Len(P)
  BY DEF AreLines
<1>2. Len(P) \in Nat
  BY IsSeqFacts DEF AreLines
<1> DEFINE q == lines[k]
           n == z[k] - b[k] + 1
<1>3. Len(q) = n /\ \A i \in 1..n : q[i] = P[b[k] + i - 1]
  <2>1. /\ Len(SubSeq(P, b[k], z[k])) = IF b[k] <= z[k] THEN z[k] - b[k] + 1 ELSE 0
        /\ \A i \in 1..(z[k] - b[k] + 1) : SubSeq(P, b[k], z[k])[i] = P[b[k] + i - 1]
    <3> DEFINE x == b[k]
               y == z[k]
    <3>1. x \in Int /\ y \in Int
      BY <1>1
    <3> HIDE DEF x, y
    <3>2. /\ Len(SubSeq(P, x, y)) = IF x <= y THEN y - x + 1 ELSE 0
          /\ \A i \in 1..(y - x + 1) : SubSeq(P, x, y)[i] = P[x + i - 1]
      BY <3>1, SubSeqIsSeq
    <3> QED
      BY <3>2 DEF x, y
  <2>2. ~(b[k] <= z[k]) => n = 0
    <3> DEFINE x == b[k]
               y == z[k]
    <3>1. x \in Int /\ y \in Int /\ x <= y + 1 /\ n = y - x + 1
      BY <1>1
    <3> HIDE DEF x, y, n
    <3>2. ~(x <= y) => n = 0
      BY <3>1
    <3> QED
      BY <3>2 DEF x, y
  <2> QED
    BY <1>1, <2>1, <2>2
<1>4. ASSUME q = <<CR>>
      PROVE  z[k] = b[k] /\ b[k] <= Len(P) /\ P[b[k]] = CR
  <2>1. Len(q) = 1 /\ q[1] = CR
    BY <1>4
  <2>2. n = 1
    BY <1>3, <2>1
  <2>3. z[k] = b[k] /\ b[k] <= Len(P) /\ b[k] + 1 - 1 = b[k]
    <3> DEFINE x == b[k]
               y == z[k]
    <3>1. x \in Int /\ y \in Int /\ y <= Len(P) /\ y - x + 1 = 1
      BY <1>1, <2>2
    <3> HIDE DEF x, y
    <3>2. y = x /\ x <= Len(P) /\ x + 1 - 1 = x
      BY <3>1
    <3> QED
      BY <3>2 DEF x, y
  <2>4. q[1] = P[b[k] + 1 - 1]
    BY <1>3, <2>2
  <2> QED
    BY <2>1, <2>3, <2>4
<1>5. ASSUME q = <<CR, CR>>
      PROVE  z[k] = b[k] + 1 /\ b[k] + 1 <= Len(P) /\ P[b[k]] = CR /\ P[b[k] + 1] = CR
  <2>1. Len(q) = 2 /\ q[1] = CR /\ q[2] = CR
    BY <1>5
  <2>2. n = 2
    BY <1>3, <2>1
  <2>3. z[k] = b[k] + 1 /\ b[k] + 1 <= Len(P) /\ b[k] + 1 - 1 = b[k] /\ b[k] + 2 - 1 = b[k] + 1
    BY <1>1, <2>2
  <2>4. q[1] = P[b[k] + 1 - 1] /\ q[2] = P[b[k] + 2 - 1]
    <3>1. 1 \in 1..n /\ 2 \in 1..n
      BY <2>2
    <3> HIDE DEF n, q
    <3> QED
      BY <1>3, <3>1
  <2> QED
    BY <2>1, <2>3, <2>4
<1> QED
  BY <1>4, <1>5

-----------------------------------------------------------------------------
(* A record of the crawler's file: m[1], m[2], ... are the places of the   *)
(* "\r" after its n texts, as far as the file reaches; m[0] + 2 is where   *)
(* it begins, and m[n] + 2 where its "\r\r" is.                            *)
HasAt(P, p, rune) == p <= Len(P) => P[p] = rune

Marks(P, n, m) ==
  /\ n \in Nat
  /\ \A i \in 0..n : m[i] \in Int /\ m[i] >= -1
  /\ \A i \in 1..n :
       /\ m[i - 1] + 3 <= m[i]
       /\ \A p \in (m[i - 1] + 2)..(m[i] - 2) : p <= Len(P) => P[p] # CR
       /\ HasAt(P, m[i] - 1, LF) /\ HasAt(P, m[i], CR) /\ HasAt(P, m[i] + 1, LF)
  /\ HasAt(P, m[n] + 2, CR) /\ HasAt(P, m[n] + 3, CR) /\ HasAt(P, m[n] + 4, LF)

LEMMA MarksRise ==
  ASSUME NEW P, NEW n, NEW m, Marks(P, n, m), NEW j \in 0..n, NEW k \in 0..n, j < k
  PROVE  m[j] + 3 <= m[k]
<1> DEFINE T == {i \in (j + 1)..n : m[j] + 3 <= m[i]}
<1>1. n \in Nat /\ \A i \in 0..n : m[i] \in Int
  BY DEF Marks
<1>2. \A i \in 1..n : m[i - 1] + 3 <= m[i]
  BY DEF Marks
<1>3. ASSUME NEW i \in (j + 1)..n, \A h \in (j + 1)..(i - 1) : h \in T
      PROVE  i \in T
  <2>1. i \in 1..n /\ i \in 0..n /\ i - 1 \in 0..n /\ j \in 0..n
    BY <1>1
  <2>2. m[i - 1] + 3 <= m[i] /\ m[i] \in Int /\ m[i - 1] \in Int /\ m[j] \in Int
    BY <1>1, <1>2, <2>1
  <2>3. CASE i = j + 1
    <3>1. i - 1 = j
      BY <2>3
    <3> QED
      BY <2>2, <3>1
  <2>4. CASE i # j + 1
    <3>1. i - 1 \in (j + 1)..(i - 1)
      BY <1>1, <2>4
    <3>2. m[j] + 3 <= m[i - 1]
      BY <1>3, <3>1
    <3> QED
      BY <2>2, <3>2
  <2> QED
    BY <2>3, <2>4
<1>4. \A i \in (j + 1)..n : i \in T
  <2>1. j + 1 \in Int /\ n \in Int
    BY <1>1
  <2> HIDE DEF T
  <2> QED
    BY <1>3, <2>1, Upwards
<1>5. k \in (j + 1)..n
  BY <1>1
<1> QED
  BY <1>4, <1>5

LEMMA OnlyMarks ==
  ASSUME CR # LF, NEW P, NEW n, NEW m, Marks(P, n, m),
         NEW p \in Int, m[0] + 2 <= p, p <= m[n] + 2, p <= Len(P), P[p] = CR
  PROVE  p = m[n] + 2 \/ \E i \in 1..n : p = m[i]
<1> DEFINE K == {i \in 1..n : p <= m[i] + 1}
<1>1. n \in Nat /\ \A i \in 0..n : m[i] \in Int
  BY DEF Marks
<1>2. CASE K = {}
  <2>1. CASE n = 0
    BY <1>1, <2>1
  <2>2. CASE n # 0
    <3>1. n \in 1..n /\ n \in 0..n
      BY <1>1, <2>2
    <3>2. ~(p <= m[n] + 1)
      BY <1>2, <3>1
    <3> QED
      BY <1>1, <3>1, <3>2
  <2> QED
    BY <2>1, <2>2
<1>3. CASE K # {}
  <2>1. K \subseteq Int /\ 1 \in Int /\ \A i \in K : 1 <= i
    OBVIOUS
  <2>2. PICK i \in K : \A j \in K : i <= j
    <3> HIDE DEF K
    <3> QED
      BY <1>3, <2>1, Least
  <2>3. i \in 1..n /\ i \in 0..n /\ i - 1 \in 0..n /\ p <= m[i] + 1 /\ m[i] \in Int /\ m[i - 1] \in Int
    BY <1>1
  <2>4. m[i - 1] + 2 <= p
    <3>1. CASE i = 1
      <4>1. i - 1 = 0
        BY <3>1
      <4> QED
        BY <4>1
    <3>2. CASE i # 1
      <4>1. i - 1 \in 1..n /\ ~(i <= i - 1)
        BY <2>3, <3>2
      <4>2. i - 1 \notin K
        BY <2>2, <4>1
      <4>3. ~(p <= m[i - 1] + 1)
        BY <4>1, <4>2
      <4> QED
        BY <2>3, <4>3
    <3> QED
      BY <3>1, <3>2
  <2>5. /\ \A r \in (m[i - 1] + 2)..(m[i] - 2) : r <= Len(P) => P[r] # CR
        /\ HasAt(P, m[i] - 1, LF) /\ HasAt(P, m[i] + 1, LF)
    BY <2>3 DEF Marks
  <2>6. p # m[i] - 1 /\ p # m[i] + 1
    BY <2>5 DEF HasAt
  <2>7. ~(p <= m[i] - 2)
    <3> SUFFICES ASSUME p <= m[i] - 2 PROVE FALSE
      OBVIOUS
    <3>1. p \in (m[i - 1] + 2)..(m[i] - 2)
      BY <2>3, <2>4
    <3> QED
      BY <2>5, <3>1
  <2>8. p = m[i]
    BY <2>3, <2>6, <2>7
  <2> QED
    BY <2>3, <2>8
<1> QED
  BY <1>2, <1>3

-----------------------------------------------------------------------------
(* A sequence that a text, which may be cut short, holds after place o.    *)
Sits(P, o, q) == \A i \in 1..Len(q) : HasAt(P, o + i, q[i])

LEMMA SitsConcat ==
  ASSUME NEW P, NEW o \in Int, NEW p, NEW q, IsSeq(p), IsSeq(q), Sits(P, o, p \o q)
  PROVE  Sits(P, o, p) /\ Sits(P, o + Len(p), q)
<1> DEFINE r == p \o q
<1>1. Len(p) \in Nat /\ Len(q) \in Nat /\ Len(r) = Len(p) + Len(q)
  BY IsSeqFacts, ConcatIsSeq
<1>2. /\ \A i \in 1..Len(p) : r[i] = p[i]
      /\ \A i \in 1..Len(q) : r[Len(p) + i] = q[i]
  BY ConcatElements
<1>3. \A i \in 1..Len(r) : HasAt(P, o + i, r[i])
  BY DEF Sits
<1> HIDE DEF r
<1>4. \A i \in 1..Len(p) : HasAt(P, o + i, p[i])
  <2> SUFFICES ASSUME NEW i \in 1..Len(p) PROVE HasAt(P, o + i, p[i])
    OBVIOUS
  <2>1. i \in 1..Len(r)
    BY <1>1
  <2> QED
    BY <1>2, <1>3, <2>1
<1>5. \A i \in 1..Len(q) : HasAt(P, o + Len(p) + i, q[i])
  <2> SUFFICES ASSUME NEW i \in 1..Len(q) PROVE HasAt(P, o + Len(p) + i, q[i])
    OBVIOUS
  <2>1. Len(p) + i \in 1..Len(r) /\ o + Len(p) + i = o + (Len(p) + i)
    BY <1>1
  <2>2. r[Len(p) + i] = q[i]
    BY <1>2
  <2>3. HasAt(P, o + (Len(p) + i), r[Len(p) + i])
    BY <1>3, <2>1
  <2> QED
    BY <2>1, <2>2, <2>3
<1> QED
  BY <1>4, <1>5 DEF Sits

LEMMA SitsFlatten ==
  ASSUME NEW P, NEW o \in Int, NEW seqs, IsSeq(seqs), \A i \in 1..Len(seqs) : IsSeq(seqs[i]),
         Sits(P, o, FlattenSeq(seqs))
  PROVE  \E off : /\ off[1] = o /\ off[Len(seqs) + 1] = o + Len(FlattenSeq(seqs))
                  /\ \A i \in 1..(Len(seqs) + 1) : off[i] \in Int /\ off[i] >= o
                  /\ \A i \in 1..Len(seqs) : /\ Sits(P, off[i], seqs[i])
                                             /\ off[i + 1] = off[i] + Len(seqs[i])
<1> DEFINE n == Len(seqs)
<1>0. n \in Nat
  BY IsSeqFacts
<1>1. CASE n = 0
  <2> DEFINE off == [i \in 1..1 |-> o]
  <2>1. FlattenSeq(seqs) = << >>
    <3>1. seqs = << >>
      BY <1>1, NothingIs
    <3> QED
      BY <3>1 DEF FlattenSeq
  <2>2. Len(FlattenSeq(seqs)) = 0
    BY <2>1
  <2>3. off[1] = o /\ off[n + 1] = o + Len(FlattenSeq(seqs))
    BY <1>1, <2>2
  <2>4. \A i \in 1..(n + 1) : off[i] \in Int /\ off[i] >= o
    BY <1>1
  <2>5. \A i \in 1..n : FALSE
    BY <1>1
  <2> HIDE DEF off, n
  <2> QED
    BY <2>3, <2>4, <2>5 DEF n
<1>2. CASE n # 0
  <2>1. PICK f : f = FlattenUpTo(seqs, f) /\ FlattenSeq(seqs) = f[n]
    BY <1>2, FlattenExists
  <2>2. ASSUME NEW i \in 1..n PROVE f[i] = IF i = 1 THEN seqs[i] ELSE f[i - 1] \o seqs[i]
    <3>1. f[i] = FlattenUpTo(seqs, f)[i]
      BY <2>1, Zenon
    <3> QED
      BY <3>1 DEF FlattenUpTo
  <2> HIDE DEF n
  <2> DEFINE T == {i \in 1..n : IsSeq(f[i])}
             U == {i \in 1..n : Sits(P, o, f[i])}
  <2>3. ASSUME NEW i \in 1..n, \A j \in 1..(i - 1) : j \in T PROVE i \in T
    <3>1. IsSeq(seqs[i])
      BY DEF n
    <3>2. CASE i = 1
      BY <2>2, <3>1, <3>2
    <3>3. CASE i # 1
      <4>1. i - 1 \in 1..(i - 1)
        BY <1>0, <3>3
      <4>2. IsSeq(f[i - 1])
        BY <2>3, <4>1
      <4>3. IsSeq(f[i - 1] \o seqs[i])
        BY <3>1, <4>2, ConcatIsSeq
      <4> QED
        BY <2>2, <3>3, <4>3
    <3> QED
      BY <3>2, <3>3
  <2>4. \A i \in 1..n : i \in T
    <3>1. 1 \in Int /\ n \in Int
      BY <1>0
    <3> HIDE DEF T
    <3> QED
      BY <2>3, <3>1, Upwards
  <2>5. ASSUME NEW i \in 1..n, i # 1
        PROVE  /\ i - 1 \in 1..n /\ f[i] = f[i - 1] \o seqs[i]
               /\ IsSeq(f[i - 1]) /\ IsSeq(seqs[i])
    <3>1. i - 1 \in 1..n
      BY <1>0, <2>5
    <3> QED
      BY <2>2, <2>4, <2>5, <3>1 DEF n
  <2>6. ASSUME NEW i \in 1..n, \A j \in (i + 1)..n : j \in U PROVE i \in U
    <3>1. CASE i = n
      BY <2>1, <3>1
    <3>2. CASE i # n
      <4>1. i + 1 \in (i + 1)..n /\ i + 1 \in 1..n /\ i + 1 # 1 /\ i + 1 - 1 = i
        BY <1>0, <3>2
      <4>2. Sits(P, o, f[i + 1])
        BY <2>6, <4>1
      <4> DEFINE k == i + 1
      <4>5. k \in 1..n /\ k # 1 /\ k - 1 = i
        BY <4>1
      <4> HIDE DEF k
      <4>6. f[k] = f[k - 1] \o seqs[k] /\ IsSeq(f[k - 1]) /\ IsSeq(seqs[k])
        BY <2>5, <4>5
      <4>3. f[i + 1] = f[i] \o seqs[i + 1] /\ IsSeq(f[i]) /\ IsSeq(seqs[i + 1])
        BY <4>5, <4>6 DEF k
      <4>4. Sits(P, o, f[i])
        BY <4>2, <4>3, SitsConcat
      <4> QED
        BY <4>4
    <3> QED
      BY <3>1, <3>2
  <2>7. \A i \in 1..n : i \in U
    <3>1. 1 \in Int /\ n \in Int
      BY <1>0
    <3> HIDE DEF U
    <3> QED
      BY <2>6, <3>1, Downwards
  <2> DEFINE off == [i \in 1..(n + 1) |-> IF i = 1 THEN o ELSE o + Len(f[i - 1])]
  <2>8. off[1] = o /\ \A i \in 1..n : off[i + 1] = o + Len(f[i])
    <3>1. 1 \in 1..(n + 1)
      BY <1>0
    <3>2. \A i \in 1..n : i + 1 \in 1..(n + 1) /\ i + 1 # 1 /\ i + 1 - 1 = i
      BY <1>0
    <3> QED
      BY <3>1, <3>2
  <2> HIDE DEF off
  <2>9. off[n + 1] = o + Len(FlattenSeq(seqs))
    <3>1. n \in 1..n
      BY <1>0, <1>2
    <3> QED
      BY <2>1, <2>8, <3>1
  <2>10. ASSUME NEW i \in 1..(n + 1) PROVE off[i] \in Int /\ off[i] >= o
    <3>1. CASE i = 1
      BY <2>8, <3>1
    <3>2. CASE i # 1
      <4>1. i - 1 \in 1..n /\ i - 1 + 1 = i
        BY <1>0, <3>2
      <4>2. off[i] = o + Len(f[i - 1]) /\ Len(f[i - 1]) \in Nat
        BY <2>4, <2>8, <4>1, IsSeqFacts
      <4> QED
        BY <4>2
    <3> QED
      BY <3>1, <3>2
  <2>11. ASSUME NEW i \in 1..n
         PROVE  Sits(P, off[i], seqs[i]) /\ off[i + 1] = off[i] + Len(seqs[i])
    <3>1. Sits(P, o, f[i]) /\ off[i + 1] = o + Len(f[i])
      BY <2>7, <2>8
    <3>2. CASE i = 1
      <4>1. f[i] = seqs[i]
        BY <2>2, <3>2
      <4>2. off[i] = o
        BY <2>8, <3>2
      <4> QED
        BY <3>1, <4>1, <4>2
    <3>3. CASE i # 1
      <4>1. /\ i - 1 \in 1..n /\ f[i] = f[i - 1] \o seqs[i]
            /\ IsSeq(f[i - 1]) /\ IsSeq(seqs[i])
        BY <2>5, <3>3
      <4>2. i - 1 + 1 = i
        BY <1>0
      <4>3. off[i] = o + Len(f[i - 1])
        BY <2>8, <4>1, <4>2
      <4>4. Sits(P, o + Len(f[i - 1]), seqs[i])
        BY <3>1, <4>1, SitsConcat
      <4>5. Len(f[i]) = Len(f[i - 1]) + Len(seqs[i]) /\ Len(f[i - 1]) \in Nat /\ Len(seqs[i]) \in Nat
        BY <4>1, ConcatIsSeq, IsSeqFacts
      <4> DEFINE x == Len(f[i - 1])
                 y == Len(seqs[i])
                 w == Len(f[i])
      <4>8. w = x + y /\ x \in Nat /\ y \in Nat
        BY <4>5
      <4> HIDE DEF w, x, y
      <4>9. o + w = o + x + y
        BY <4>8
      <4>6. o + Len(f[i]) = o + Len(f[i - 1]) + Len(seqs[i])
        BY <4>9 DEF w, x, y
      <4>7. off[i + 1] = off[i] + Len(seqs[i])
        BY <3>1, <4>3, <4>6
      <4> QED
        BY <4>3, <4>4, <4>7
    <3> QED
      BY <3>2, <3>3
  <2> QED
    BY <2>8, <2>9, <2>10, <2>11 DEF n
<1> QED
  BY <1>1, <1>2

-----------------------------------------------------------------------------
(* The crawler's records in its file.                                      *)
TextOf(c, i) == IF i = 1 THEN c.title ELSE IF i = 2 THEN c.detail ELSE c.answers[i - 2]

Record(P, c, m) ==
  /\ Marks(P, Len(c.answers) + 2, m)
  /\ \A i \in 1..(Len(c.answers) + 2) :
       m[i] <= Len(P) => SubSeq(P, m[i - 1] + 2, m[i] - 2) = TextOf(c, i)

(* A text and its end, after place o.                                      *)
IsMarked(P, o, t, M) ==
  /\ M \in Int /\ o + 2 <= M
  /\ \A p \in (o + 1)..(M - 2) : p <= Len(P) => P[p] # CR
  /\ HasAt(P, M - 1, LF) /\ HasAt(P, M, CR) /\ HasAt(P, M + 1, LF)
  /\ M <= Len(P) => SubSeq(P, o + 1, M - 2) = t

LEMMA TextIsMarked ==
  ASSUME CR # LF, NEW P, IsSeq(P), NEW o \in Nat, NEW t, IsSeq(t), CR \notin Range(t),
         Sits(P, o, t), Sits(P, o + Len(t), EndOfText), NEW M, M = o + Len(t) + 2
  PROVE  IsMarked(P, o, t, M)
<1> DEFINE l == Len(t)
<1>1. l \in Nat /\ Len(P) \in Nat
  BY IsSeqFacts
<1>2. M \in Int /\ o + 2 <= M /\ M - 2 = o + l
  BY <1>1
<1>3. \A i \in 1..l : t[i] # CR /\ HasAt(P, o + i, t[i])
  BY IsSeqFacts DEF Sits
<1> HIDE DEF l
<1>4. ASSUME NEW p \in (o + 1)..(M - 2), p <= Len(P) PROVE P[p] # CR /\ p - o \in 1..l /\ P[p] = t[p - o]
  <2> DEFINE i == p - o
  <2>1. i \in 1..l /\ o + i = p
    BY <1>1, <1>2
  <2> HIDE DEF i
  <2>2. t[i] # CR /\ HasAt(P, o + i, t[i])
    BY <1>3, <2>1
  <2>3. P[p] = t[i]
    BY <1>4, <2>1, <2>2 DEF HasAt
  <2> QED
    BY <2>1, <2>2, <2>3 DEF i
<1>5. HasAt(P, M - 1, LF) /\ HasAt(P, M, CR) /\ HasAt(P, M + 1, LF)
  <2>1. Len(EndOfText) = 3 /\ EndOfText[1] = LF /\ EndOfText[2] = CR /\ EndOfText[3] = LF
    BY DEF EndOfText
  <2>2. \A i \in 1..3 : HasAt(P, o + l + i, EndOfText[i])
    BY <2>1 DEF Sits, l
  <2>3. 1 \in 1..3 /\ 2 \in 1..3 /\ 3 \in 1..3
    OBVIOUS
  <2>4. o + l + 1 = M - 1 /\ o + l + 2 = M /\ o + l + 3 = M + 1
    BY <1>1, <1>2
  <2> HIDE DEF HasAt
  <2>5. HasAt(P, o + l + 1, LF) /\ HasAt(P, o + l + 2, CR) /\ HasAt(P, o + l + 3, LF)
    BY <2>1, <2>2, <2>3
  <2> QED
    BY <2>4, <2>5
<1>6. ASSUME M <= Len(P) PROVE SubSeq(P, o + 1, M - 2) = t
  <2> DEFINE q == SubSeq(P, o + 1, M - 2)
  <2>1. o + 1 \in Int /\ M - 2 \in Int /\ M - 2 - (o + 1) + 1 = l /\ (~(o + 1 <= M - 2) => l = 0)
    BY <1>1, <1>2
  <2>2. IsSeq(q) /\ Len(q) = l /\ \A i \in 1..l : q[i] = P[o + 1 + i - 1]
    <3>1. /\ IsSeq(q) /\ Len(q) = IF o + 1 <= M - 2 THEN M - 2 - (o + 1) + 1 ELSE 0
          /\ \A i \in 1..(M - 2 - (o + 1) + 1) : q[i] = P[o + 1 + i - 1]
      BY <2>1, SubSeqIsSeq
    <3> HIDE DEF q
    <3> QED
      BY <2>1, <3>1
  <2> HIDE DEF q
  <2>3. \A i \in 1..l : q[i] = t[i]
    <3> SUFFICES ASSUME NEW i \in 1..l PROVE q[i] = t[i]
      OBVIOUS
    <3> DEFINE p == o + i
    <3>1. p \in (o + 1)..(M - 2) /\ p <= Len(P) /\ p - o = i /\ o + 1 + i - 1 = p
      BY <1>1, <1>2, <1>6
    <3> HIDE DEF p
    <3>2. P[p] = t[p - o]
      BY <1>4, <3>1
    <3> QED
      BY <2>2, <3>1, <3>2
  <2>4. q = t
    BY <2>2, <2>3, SameSeq DEF l
  <2> QED
    BY <2>4 DEF q
<1> QED
  BY <1>2, <1>4, <1>5, <1>6 DEF IsMarked

(* Texts after one another are a record.                                   *)
LEMMA TextsAreRecord ==
  ASSUME CR # LF, NEW P, IsSeq(P), NEW c, Len(c.answers) \in Nat, NEW m,
         m[0] \in Int, m[0] >= -1,
         \A i \in 1..(Len(c.answers) + 2) :
           /\ IsSeq(TextOf(c, i)) /\ CR \notin Range(TextOf(c, i))
           /\ Sits(P, m[i - 1] + 1, TextOf(c, i))
           /\ Sits(P, m[i - 1] + 1 + Len(TextOf(c, i)), EndOfText)
           /\ m[i] = m[i - 1] + Len(TextOf(c, i)) + 3,
         Sits(P, m[Len(c.answers) + 2] + 1, <<CR, CR, LF>>)
  PROVE  Record(P, c, m)
<1> DEFINE n == Len(c.answers) + 2
           T == {i \in 0..n : m[i] \in Int /\ m[i] >= -1}
<1>1. n \in Nat
  OBVIOUS
<1>2. ASSUME NEW i \in 1..n
      PROVE  /\ IsSeq(TextOf(c, i)) /\ CR \notin Range(TextOf(c, i)) /\ Len(TextOf(c, i)) \in Nat
             /\ Sits(P, m[i - 1] + 1, TextOf(c, i))
             /\ Sits(P, m[i - 1] + 1 + Len(TextOf(c, i)), EndOfText)
             /\ m[i] = m[i - 1] + Len(TextOf(c, i)) + 3
  BY <1>2, IsSeqFacts
<1>3. Sits(P, m[n] + 1, <<CR, CR, LF>>)
  OBVIOUS
<1> HIDE DEF n
<1>4. ASSUME NEW i \in 0..n, \A j \in 0..(i - 1) : j \in T PROVE i \in T
  <2>1. CASE i = 0
    BY <2>1
  <2>2. CASE i # 0
    <3>1. i \in 1..n /\ i - 1 \in 0..(i - 1)
      BY <1>1, <2>2
    <3>2. m[i - 1] \in Int /\ m[i - 1] >= -1
      BY <1>4, <3>1
    <3>3. m[i] = m[i - 1] + Len(TextOf(c, i)) + 3 /\ Len(TextOf(c, i)) \in Nat
      BY <1>2, <3>1
    <3> QED
      BY <3>2, <3>3
  <2> QED
    BY <2>1, <2>2
<1>5. \A i \in 0..n : i \in T
  <2>1. 0 \in Int /\ n \in Int
    BY <1>1
  <2> HIDE DEF T
  <2> QED
    BY <1>4, <2>1, Upwards
<1>6. \A i \in 0..n : m[i] \in Int /\ m[i] >= -1
  BY <1>5
<1>7. ASSUME NEW i \in 1..n
      PROVE  /\ m[i - 1] + 3 <= m[i]
             /\ \A p \in (m[i - 1] + 2)..(m[i] - 2) : p <= Len(P) => P[p] # CR
             /\ HasAt(P, m[i] - 1, LF) /\ HasAt(P, m[i], CR) /\ HasAt(P, m[i] + 1, LF)
             /\ m[i] <= Len(P) => SubSeq(P, m[i - 1] + 2, m[i] - 2) = TextOf(c, i)
  <2> DEFINE o == m[i - 1] + 1
             t == TextOf(c, i)
  <2>1. i - 1 \in 0..n
    BY <1>1
  <2>2. m[i - 1] \in Int /\ m[i - 1] >= -1
    BY <1>6, <2>1
  <2>3. o \in Nat /\ o + 1 = m[i - 1] + 2
    BY <2>2
  <2>4. /\ IsSeq(t) /\ CR \notin Range(t) /\ Len(t) \in Nat
        /\ Sits(P, o, t) /\ Sits(P, o + Len(t), EndOfText)
        /\ m[i] = m[i - 1] + Len(t) + 3
    BY <1>2
  <2>5. m[i] = o + Len(t) + 2
    BY <2>2, <2>4
  <2> HIDE DEF o, t
  <2>6. /\ o + 2 <= m[i]
        /\ \A p \in (o + 1)..(m[i] - 2) : p <= Len(P) => P[p] # CR
        /\ HasAt(P, m[i] - 1, LF) /\ HasAt(P, m[i], CR) /\ HasAt(P, m[i] + 1, LF)
        /\ m[i] <= Len(P) => SubSeq(P, o + 1, m[i] - 2) = t
    <3> DEFINE M == m[i]
    <3>1. M = o + Len(t) + 2
      BY <2>5
    <3> HIDE DEF M
    <3>2. /\ M \in Int /\ o + 2 <= M
          /\ \A p \in (o + 1)..(M - 2) : p <= Len(P) => P[p] # CR
          /\ HasAt(P, M - 1, LF) /\ HasAt(P, M, CR) /\ HasAt(P, M + 1, LF)
          /\ M <= Len(P) => SubSeq(P, o + 1, M - 2) = t
      <4>1. CR # LF /\ IsSeq(P) /\ o \in Nat
        BY <2>3
      <4>2. IsSeq(t) /\ CR \notin Range(t) /\ Sits(P, o, t) /\ Sits(P, o + Len(t), EndOfText)
        BY <2>4
      <4>3. IsMarked(P, o, t, M)
        BY <3>1, <4>1, <4>2, TextIsMarked
      <4> QED
        BY <4>3 DEF IsMarked
    <3> QED
      BY <3>2 DEF M
  <2>7. m[i - 1] + 3 = o + 2
    BY <2>2 DEF o
  <2> QED
    BY <2>3, <2>6, <2>7 DEF t
<1>8. HasAt(P, m[n] + 2, CR) /\ HasAt(P, m[n] + 3, CR) /\ HasAt(P, m[n] + 4, LF)
  <2> DEFINE q == <<CR, CR, LF>>
  <2>1. Len(q) = 3 /\ q[1] = CR /\ q[2] = CR /\ q[3] = LF
    OBVIOUS
  <2>2. m[n] \in Int
    BY <1>1, <1>6
  <2>3. m[n] + 1 + 1 = m[n] + 2 /\ m[n] + 1 + 2 = m[n] + 3 /\ m[n] + 1 + 3 = m[n] + 4
    BY <2>2
  <2> HIDE DEF q
  <2>4. \A i \in 1..3 : HasAt(P, m[n] + 1 + i, q[i])
    BY <1>3, <2>1 DEF Sits, q
  <2>5. 1 \in 1..3 /\ 2 \in 1..3 /\ 3 \in 1..3
    OBVIOUS
  <2>6. HasAt(P, m[n] + 1 + 1, CR) /\ HasAt(P, m[n] + 1 + 2, CR) /\ HasAt(P, m[n] + 1 + 3, LF)
    BY <2>1, <2>4, <2>5
  <2> QED
    BY <2>3, <2>6
<1>9. Marks(P, n, m)
  BY <1>1, <1>6, <1>7, <1>8 DEF Marks
<1> QED
  BY <1>7, <1>9 DEF Record, n

LEMMA EndsAre ==
  /\ IsSeq(EndOfText) /\ Len(EndOfText) = 3
  /\ IsSeq(<<CR, CR, LF>>) /\ Len(<<CR, CR, LF>>) = 3
<1>1. EndOfText \in Seq({CR, LF}) /\ <<CR, CR, LF>> \in Seq({CR, LF})
  BY DEF EndOfText
<1>2. Len(EndOfText) = 3 /\ Len(<<CR, CR, LF>>) = 3
  BY DEF EndOfText
<1> QED
  BY <1>1, <1>2, SeqIsSeq

(* Five texts after one another, as Written's are.                         *)
LEMMA SitsFive ==
  ASSUME NEW P, NEW o \in Int, NEW t, NEW u, NEW w, NEW e, NEW z,
         IsSeq(t), IsSeq(u), IsSeq(w), IsSeq(e), IsSeq(z), Len(e) = 3, Len(z) = 3,
         Sits(P, o, t \o e \o u \o e \o w \o z)
  PROVE  LET d == o + Len(t) + 3
             a == d + Len(u) + 3
         IN  /\ Len(t) \in Nat /\ Len(u) \in Nat /\ Len(w) \in Nat
             /\ Sits(P, o, t) /\ Sits(P, o + Len(t), e)
             /\ Sits(P, d, u) /\ Sits(P, d + Len(u), e)
             /\ Sits(P, a, w) /\ Sits(P, a + Len(w), z)
             /\ o + Len(t \o e \o u \o e \o w \o z) = a + Len(w) + 3
<1> DEFINE lt == Len(t)
           lu == Len(u)
           lw == Len(w)
           q1 == t \o e
           q2 == q1 \o u
           q3 == q2 \o e
           q4 == q3 \o w
           q5 == q4 \o z
<1>1. lt \in Nat /\ lu \in Nat /\ lw \in Nat
  BY IsSeqFacts
<1>2. IsSeq(q1) /\ Len(q1) = lt + 3
  BY ConcatIsSeq
<1>3. IsSeq(q2) /\ Len(q2) = Len(q1) + lu
  <2> HIDE DEF q1
  <2> QED
    BY <1>2, ConcatIsSeq
<1>4. IsSeq(q3) /\ Len(q3) = Len(q2) + 3
  <2> HIDE DEF q2
  <2> QED
    BY <1>3, ConcatIsSeq
<1>5. IsSeq(q4) /\ Len(q4) = Len(q3) + lw
  <2> HIDE DEF q3
  <2> QED
    BY <1>4, ConcatIsSeq
<1>6. IsSeq(q5) /\ Len(q5) = Len(q4) + 3
  <2> HIDE DEF q4
  <2> QED
    BY <1>5, ConcatIsSeq
<1>7. Sits(P, o, q5)
  OBVIOUS
<1>8. Sits(P, o, q4) /\ Sits(P, o + Len(q4), z)
  <2> HIDE DEF q4
  <2> QED
    BY <1>5, <1>7, SitsConcat
<1>9. Sits(P, o, q3) /\ Sits(P, o + Len(q3), w)
  <2> HIDE DEF q3
  <2> QED
    BY <1>4, <1>8, SitsConcat
<1>10. Sits(P, o, q2) /\ Sits(P, o + Len(q2), e)
  <2> HIDE DEF q2
  <2> QED
    BY <1>3, <1>9, SitsConcat
<1>11. Sits(P, o, q1) /\ Sits(P, o + Len(q1), u)
  <2> HIDE DEF q1
  <2> QED
    BY <1>2, <1>10, SitsConcat
<1>12. Sits(P, o, t) /\ Sits(P, o + lt, e)
  BY <1>11, SitsConcat
<1> HIDE DEF q1, q2, q3, q4, q5
<1> DEFINE d == o + lt + 3
           a == d + lu + 3
<1> HIDE DEF lt, lu, lw
<1>13. /\ o + Len(q1) = d /\ o + Len(q2) = d + lu /\ o + Len(q3) = a
       /\ o + Len(q4) = a + lw /\ o + Len(q5) = a + lw + 3
  BY <1>1, <1>2, <1>3, <1>4, <1>5, <1>6
<1>14. /\ Sits(P, d, u) /\ Sits(P, d + lu, e)
       /\ Sits(P, a, w) /\ Sits(P, a + lw, z)
  BY <1>8, <1>9, <1>10, <1>11, <1>13
<1> QED
  BY <1>1, <1>12, <1>13, <1>14 DEF lt, lu, lw, q1, q2, q3, q4, q5

LEMMA WrittenIsRecord ==
  ASSUME CR # LF, NEW P, IsSeq(P), NEW o \in Nat, NEW c \in Range(Crawled), Sits(P, o, Written(c))
  PROVE  \E m : /\ m[0] = o - 1 /\ Record(P, c, m)
                /\ m[Len(c.answers) + 2] + 4 = o + Len(Written(c))
<1> DEFINE A == Len(c.answers)
           parts == [i \in 1..A |-> c.answers[i] \o EndOfText]
           w == FlattenSeq(parts)
           lt == Len(c.title)
           lu == Len(c.detail)
           d == o + lt + 3
           a == d + lu + 3
<1>1. /\ IsSeq(c.title) /\ IsSeq(c.detail) /\ IsSeq(c.answers)
      /\ \A t \in Range(c.answers) : IsSeq(t)
      /\ \A t \in {c.title, c.detail} \cup Range(c.answers) : CR \notin Range(t)
  BY QuestionSearchAssumption, CrawledTextsAssumption
<1>2. A \in Nat /\ \A i \in 1..A : c.answers[i] \in Range(c.answers)
  BY <1>1, IsSeqFacts
<1>3. \A i \in 1..A : /\ IsSeq(parts[i]) /\ Len(parts[i]) = Len(c.answers[i]) + 3
                      /\ parts[i] = c.answers[i] \o EndOfText
  BY <1>1, <1>2, EndsAre, ConcatIsSeq
<1>4. parts = [i \in 1..A |-> parts[i]]
  OBVIOUS
<1>5. Written(c) = c.title \o EndOfText \o c.detail \o EndOfText \o w \o <<CR, CR, LF>>
  BY DEF Written
<1> HIDE DEF A, parts
<1>6. IsSeq(parts) /\ Len(parts) = A
  BY <1>2, <1>4, FunctionIsSeq
<1>7. IsSeq(w)
  BY <1>3, <1>6, FlattenIsSeq
<1> HIDE DEF w
<1>8. /\ Len(c.title) \in Nat /\ Len(c.detail) \in Nat /\ Len(w) \in Nat
      /\ Sits(P, o, c.title) /\ Sits(P, o + Len(c.title), EndOfText)
      /\ Sits(P, d, c.detail) /\ Sits(P, d + Len(c.detail), EndOfText)
      /\ Sits(P, a, w) /\ Sits(P, a + Len(w), <<CR, CR, LF>>)
      /\ o + Len(Written(c)) = a + Len(w) + 3
  <2> DEFINE t == c.title
             u == c.detail
             e == EndOfText
             z == <<CR, CR, LF>>
  <2>1. /\ IsSeq(t) /\ IsSeq(u) /\ IsSeq(e) /\ IsSeq(z) /\ Len(e) = 3 /\ Len(z) = 3
        /\ o \in Int
    BY <1>1, EndsAre
  <2>2. Sits(P, o, t \o e \o u \o e \o w \o z) /\ Written(c) = t \o e \o u \o e \o w \o z
    BY <1>5
  <2> HIDE DEF t, u, e, z
  <2>3. LET dd == o + Len(t) + 3
            aa == dd + Len(u) + 3
        IN  /\ Len(t) \in Nat /\ Len(u) \in Nat /\ Len(w) \in Nat
            /\ Sits(P, o, t) /\ Sits(P, o + Len(t), e)
            /\ Sits(P, dd, u) /\ Sits(P, dd + Len(u), e)
            /\ Sits(P, aa, w) /\ Sits(P, aa + Len(w), z)
            /\ o + Len(t \o e \o u \o e \o w \o z) = aa + Len(w) + 3
    BY <1>7, <2>1, <2>2, SitsFive
  <2> QED
    BY <2>2, <2>3 DEF t, u, e, z
<1> DEFINE lw == Len(w)
<1>9. d \in Nat /\ a \in Nat /\ lt \in Nat /\ lu \in Nat /\ lw \in Nat
  <2>1. lt \in Nat /\ lu \in Nat /\ lw \in Nat
    BY <1>8
  <2> HIDE DEF lt, lu, lw
  <2> QED
    BY <2>1
<1> HIDE DEF lt, lu, lw
<1> HIDE DEF d, a
<1>10. PICK off : /\ off[1] = a /\ off[A + 1] = a + Len(w)
                  /\ \A i \in 1..(A + 1) : off[i] \in Int /\ off[i] >= a
                  /\ \A i \in 1..A : /\ Sits(P, off[i], parts[i])
                                     /\ off[i + 1] = off[i] + Len(parts[i])
  <2>1. /\ a \in Int /\ IsSeq(parts) /\ \A i \in 1..Len(parts) : IsSeq(parts[i])
        /\ Sits(P, a, FlattenSeq(parts))
    BY <1>3, <1>6, <1>8, <1>9 DEF w
  <2>2. \E off : /\ off[1] = a /\ off[Len(parts) + 1] = a + Len(FlattenSeq(parts))
                 /\ \A i \in 1..(Len(parts) + 1) : off[i] \in Int /\ off[i] >= a
                 /\ \A i \in 1..Len(parts) : /\ Sits(P, off[i], parts[i])
                                             /\ off[i + 1] = off[i] + Len(parts[i])
    BY <2>1, SitsFlatten
  <2> QED
    BY <1>6, <2>2 DEF w
<1> DEFINE m == [i \in 0..(A + 2) |-> IF i = 0 THEN o - 1 ELSE IF i = 1 THEN d - 1 ELSE off[i - 1] - 1]
<1>11. /\ m[0] = o - 1 /\ m[1] = d - 1 /\ m[2] = a - 1
       /\ \A k \in 1..(A + 1) : m[k + 1] = off[k] - 1
  <2>1. 0 \in 0..(A + 2) /\ 1 \in 0..(A + 2) /\ 2 \in 0..(A + 2) /\ 2 - 1 = 1
    BY <1>2
  <2>2. \A k \in 1..(A + 1) : k + 1 \in 0..(A + 2) /\ k + 1 # 0 /\ k + 1 # 1 /\ k + 1 - 1 = k
    BY <1>2
  <2> QED
    BY <1>10, <2>1, <2>2
<1> HIDE DEF m
<1>12. ASSUME NEW i \in 1..(A + 2)
       PROVE  /\ IsSeq(TextOf(c, i)) /\ CR \notin Range(TextOf(c, i))
              /\ Sits(P, m[i - 1] + 1, TextOf(c, i))
              /\ Sits(P, m[i - 1] + 1 + Len(TextOf(c, i)), EndOfText)
              /\ m[i] = m[i - 1] + Len(TextOf(c, i)) + 3
  <2>1. CASE i = 1
    <3>1. TextOf(c, i) = c.title
      BY <2>1 DEF TextOf
    <3>2. m[i - 1] + 1 = o /\ m[i] = m[i - 1] + lt + 3
      <4>1. m[i - 1] = o - 1 /\ m[i] = d - 1
        BY <1>11, <2>1
      <4> QED
        BY <1>9, <4>1 DEF d
    <3> QED
      BY <1>1, <1>8, <3>1, <3>2 DEF lt
  <2>2. CASE i = 2
    <3>1. TextOf(c, i) = c.detail
      BY <2>2 DEF TextOf
    <3>2. m[i - 1] + 1 = d /\ m[i] = m[i - 1] + lu + 3
      <4>1. m[i - 1] = d - 1 /\ m[i] = a - 1
        BY <1>11, <2>2
      <4> QED
        BY <1>9, <4>1 DEF a
    <3> QED
      BY <1>1, <1>8, <3>1, <3>2 DEF lu
  <2>3. CASE i # 1 /\ i # 2
    <3> DEFINE k == i - 2
               t == c.answers[k]
    <3>1. k \in 1..A /\ k \in 1..(A + 1) /\ k + 1 \in 1..(A + 1) /\ k + 1 = i - 1 /\ k + 1 + 1 = i
      BY <1>2, <2>3
    <3>2. TextOf(c, i) = t
      BY <2>3 DEF TextOf
    <3> HIDE DEF k
    <3>3. IsSeq(t) /\ CR \notin Range(t)
      BY <1>1, <1>2, <3>1
    <3>4. /\ Sits(P, off[k], parts[k]) /\ off[k + 1] = off[k] + Len(parts[k])
          /\ parts[k] = t \o EndOfText /\ Len(parts[k]) = Len(t) + 3 /\ off[k] \in Int
      BY <1>3, <1>10, <3>1
    <3> HIDE DEF t
    <3>5. Sits(P, off[k], t) /\ Sits(P, off[k] + Len(t), EndOfText)
      BY <3>3, <3>4, EndsAre, SitsConcat
    <3>6. m[k + 1] = off[k] - 1 /\ m[k + 1 + 1] = off[k + 1] - 1
      BY <1>11, <3>1
    <3>7. m[i - 1] = off[k] - 1 /\ m[i] = off[k + 1] - 1
      BY <3>1, <3>6
    <3>8. Len(t) \in Nat
      BY <3>3, IsSeqFacts
    <3>9. m[i - 1] + 1 = off[k] /\ m[i] = m[i - 1] + Len(t) + 3
      <4> DEFINE x == off[k]
                 y == off[k + 1]
                 l == Len(t)
      <4>1. x \in Int /\ l \in Nat /\ m[i - 1] = x - 1 /\ m[i] = y - 1 /\ y = x + (l + 3)
        BY <3>4, <3>7, <3>8
      <4> HIDE DEF x, y, l
      <4>2. m[i - 1] + 1 = x /\ m[i] = m[i - 1] + l + 3
        BY <4>1
      <4> QED
        BY <4>2 DEF x, l
    <3> QED
      BY <3>2, <3>3, <3>5, <3>9
  <2> QED
    BY <2>1, <2>2, <2>3
<1>13. m[A + 2] = a + Len(w) - 1 /\ m[A + 2] + 1 = a + Len(w) /\ m[A + 2] + 4 = o + Len(Written(c))
  <2> DEFINE k == A + 1
  <2>1. k \in 1..(A + 1) /\ k + 1 = A + 2
    BY <1>2
  <2>2. m[k + 1] = off[k] - 1 /\ off[k] = a + lw
    BY <1>10, <1>11, <2>1 DEF lw
  <2> HIDE DEF k
  <2>3. m[A + 2] = a + lw - 1
    BY <1>2, <1>9, <2>1, <2>2
  <2>4. o + Len(Written(c)) = a + lw + 3
    BY <1>8 DEF lw
  <2>5. m[A + 2] + 1 = a + lw /\ m[A + 2] + 4 = a + lw + 3
    BY <1>9, <2>3
  <2> QED
    BY <2>3, <2>4, <2>5 DEF lw
<1>14. Record(P, c, m)
  <2>1. Len(c.answers) \in Nat /\ m[0] \in Int /\ m[0] >= -1
    BY <1>2, <1>11 DEF A
  <2>2. Sits(P, m[Len(c.answers) + 2] + 1, <<CR, CR, LF>>)
    BY <1>8, <1>13 DEF A
  <2> QED
    BY <1>12, <2>1, <2>2, TextsAreRecord DEF A
<1> QED
  BY <1>11, <1>13, <1>14 DEF A

(* However much of the file there is, it is the beginning of records.      *)
AreRecords(P, off) ==
  /\ IsSeq(P) /\ off[1] = 0
  /\ \A j \in 1..(Len(Crawled) + 1) : off[j] \in Nat
  /\ off[Len(Crawled) + 1] >= Len(P)
  /\ \A j \in 1..Len(Crawled) :
       \E m : /\ m[0] = off[j] - 1 /\ Record(P, Crawled[j], m)
              /\ m[Len(Crawled[j].answers) + 2] + 4 = off[j + 1]

LEMMA FileIsRecords ==
  ASSUME CR # LF, NEW n \in 0..Len(Contents(Crawled)),
         NEW P, P = SubSeq(Contents(Crawled), 1, n)
  PROVE  \E off : AreRecords(P, off)
<1> DEFINE C == Contents(Crawled)
           J == Len(Crawled)
           parts == [j \in 1..J |-> Written(Crawled[j])]
<1>1. IsSeq(Crawled) /\ J \in Nat /\ \A j \in 1..J : Crawled[j] \in Range(Crawled)
  BY QuestionSearchAssumption, IsSeqFacts
<1>2. IsSeq(C) /\ Len(C) \in Nat /\ C = FlattenSeq(parts)
  BY ContentsIsSeq, IsSeqFacts DEF Contents
<1>3. \A j \in 1..J : parts[j] = Written(Crawled[j]) /\ IsSeq(parts[j])
  BY <1>1, WrittenIsSeq, QuestionSearchAssumption
<1>4. parts = [j \in 1..J |-> parts[j]]
  OBVIOUS
<1> HIDE DEF C, J, parts
<1>5. IsSeq(parts) /\ Len(parts) = J
  BY <1>1, <1>4, FunctionIsSeq
<1>6. n \in Nat /\ n <= Len(C) /\ P = SubSeq(C, 1, n)
  BY <1>2 DEF C
<1>7. IsSeq(P) /\ Len(P) = n /\ \A i \in 1..n : P[i] = C[i]
  <2>1. n - 1 + 1 = n /\ (~(1 <= n) => n = 0) /\ 1 \in Int /\ n \in Int
    BY <1>6
  <2>2. /\ IsSeq(P) /\ Len(P) = IF 1 <= n THEN n - 1 + 1 ELSE 0
        /\ \A i \in 1..(n - 1 + 1) : P[i] = C[1 + i - 1]
    BY <1>6, <2>1, SubSeqIsSeq
  <2>3. \A i \in 1..n : P[i] = C[i]
    <3> SUFFICES ASSUME NEW i \in 1..n PROVE P[i] = C[i]
      OBVIOUS
    <3>1. i \in 1..(n - 1 + 1) /\ 1 + i - 1 = i
      BY <2>1
    <3> QED
      BY <2>2, <3>1
  <2> QED
    BY <2>1, <2>2, <2>3
<1>8. Sits(P, 0, FlattenSeq(parts))
  <2> SUFFICES ASSUME NEW i \in 1..Len(C), 0 + i <= Len(P) PROVE P[0 + i] = C[i]
    BY <1>2 DEF Sits, HasAt
  <2>1. i \in 1..n /\ 0 + i = i
    BY <1>2, <1>6, <1>7
  <2> QED
    BY <1>7, <2>1
<1>9. PICK off : /\ off[1] = 0 /\ off[J + 1] = 0 + Len(C)
                 /\ \A j \in 1..(J + 1) : off[j] \in Int /\ off[j] >= 0
                 /\ \A j \in 1..J : Sits(P, off[j], parts[j]) /\ off[j + 1] = off[j] + Len(parts[j])
  <2>1. \E off : /\ off[1] = 0 /\ off[Len(parts) + 1] = 0 + Len(FlattenSeq(parts))
                 /\ \A j \in 1..(Len(parts) + 1) : off[j] \in Int /\ off[j] >= 0
                 /\ \A j \in 1..Len(parts) : /\ Sits(P, off[j], parts[j])
                                             /\ off[j + 1] = off[j] + Len(parts[j])
    <3> DEFINE o == 0
    <3>1. /\ IsSeq(parts) /\ \A j \in 1..Len(parts) : IsSeq(parts[j])
          /\ o \in Int /\ Sits(P, o, FlattenSeq(parts))
      BY <1>3, <1>5, <1>8
    <3> HIDE DEF o
    <3>2. \E off : /\ off[1] = o /\ off[Len(parts) + 1] = o + Len(FlattenSeq(parts))
                   /\ \A j \in 1..(Len(parts) + 1) : off[j] \in Int /\ off[j] >= o
                   /\ \A j \in 1..Len(parts) : /\ Sits(P, off[j], parts[j])
                                               /\ off[j + 1] = off[j] + Len(parts[j])
      BY ONLY <3>1, SitsFlatten
    <3> QED
      BY <3>2 DEF o
  <2> QED
    BY <1>2, <1>5, <2>1
<1>10. \A j \in 1..(J + 1) : off[j] \in Nat
  BY <1>9
<1>11. off[J + 1] >= Len(P)
  BY <1>2, <1>6, <1>7, <1>9
<1>12. ASSUME NEW j \in 1..J
       PROVE  \E m : /\ m[0] = off[j] - 1 /\ Record(P, Crawled[j], m)
                     /\ m[Len(Crawled[j].answers) + 2] + 4 = off[j + 1]
  <2> DEFINE c == Crawled[j]
             o == off[j]
  <2>1. c \in Range(Crawled) /\ j \in 1..(J + 1)
    BY <1>1
  <2>2. o \in Nat /\ Sits(P, o, Written(c)) /\ off[j + 1] = o + Len(Written(c))
    BY <1>3, <1>9, <1>10, <2>1
  <2> HIDE DEF c, o
  <2>3. PICK m : /\ m[0] = o - 1 /\ Record(P, c, m)
                 /\ m[Len(c.answers) + 2] + 4 = o + Len(Written(c))
    BY <1>7, <2>1, <2>2, WrittenIsRecord
  <2> QED
    BY <2>2, <2>3 DEF c, o
<1> QED
  BY <1>7, <1>9, <1>10, <1>11, <1>12 DEF AreRecords, J

-----------------------------------------------------------------------------
(* The lines that follow a place.                                          *)
LEMMA NextLine ==
  ASSUME NEW P, NEW lines, NEW b, NEW z, AreLines(P, lines, b, z), NEW e \in 1..(Len(lines) + 1)
  PROVE  \/ After(lines, e) = Len(lines) + 1
         \/ /\ After(lines, e) = e + 1 /\ e + 1 \in 1..Len(lines) /\ e \in 1..Len(lines)
            /\ b[e + 1] = z[e] + 2
<1> DEFINE n == Len(lines)
<1>1. n \in Nat \ {0}
  BY DEF AreLines
<1>2. After(lines, e) = (IF e <= n THEN e ELSE n) + 1
  <2>1. e \in Int
    OBVIOUS
  <2> QED
    BY <1>1, <2>1, AfterIs
<1>3. \A k \in 1..(n - 1) : b[k + 1] = z[k] + 2
  BY DEF AreLines
<1> HIDE DEF n
<1>4. CASE e < n
  <2>1. e \in 1..(n - 1) /\ e + 1 \in 1..n /\ e \in 1..n /\ e <= n
    BY <1>1, <1>4
  <2>2. b[e + 1] = z[e] + 2
    BY <1>3, <2>1
  <2> QED
    BY <1>2, <2>1, <2>2 DEF n
<1>5. CASE ~(e < n)
  <2>1. e = n \/ e = n + 1
    BY <1>1, <1>5 DEF n
  <2>2. After(lines, e) = n + 1
    BY <1>1, <1>2, <2>1
  <2> QED
    BY <2>2 DEF n
<1> QED
  BY <1>4, <1>5

LEMMA NotBefore ==
  ASSUME NEW P, NEW lines, NEW b, NEW z, AreLines(P, lines, b, z),
         NEW j \in 1..Len(lines), NEW k \in 1..Len(lines), b[j] <= b[k]
  PROVE  j <= k
<1>1. b[j] \in Int /\ b[k] \in Int /\ Len(lines) \in Nat
  BY DEF AreLines
<1>2. k < j => b[k] < b[j]
  BY LinesRise
<1> QED
  BY <1>1, <1>2

(* Where there is a mark, there is a line that is one.                     *)
IsMark(line) == line = <<CR>>

LEMMA LineOfMark ==
  ASSUME CR # LF, NEW P, NEW lines, NEW b, NEW z, AreLines(P, lines, b, z),
         NEW p \in Nat, 2 <= p, p <= Len(P),
         HasAt(P, p - 1, LF), HasAt(P, p, CR), HasAt(P, p + 1, LF)
  PROVE  \E k \in 1..Len(lines) : b[k] = p /\ z[k] = p /\ IsMark(lines[k])
<1> DEFINE l == Len(P)
<1>1. l \in Nat
  BY IsSeqFacts DEF AreLines
<1>2. p <= l
  OBVIOUS
<1>3. p \in 1..(l + 1) /\ P[p - 1] = LF /\ P[p] = CR /\ (p = l \/ P[p + 1] = LF)
  BY <1>1, <1>2 DEF HasAt
<1>4. PICK k \in 1..Len(lines) : b[k] = p
  BY <1>3, LineAt
<1>5. z[k] = b[k] /\ lines[k] = <<CR>>
  BY <1>2, <1>3, <1>4, MarkIsLine
<1> QED
  BY <1>4, <1>5 DEF IsMark

(* e is the line of the mark at p, or there is none from line i on.        *)
IsEndOfMark(P, lines, b, z, p, i, e) ==
  IF p <= Len(P) THEN e \in 1..Len(lines) /\ i <= e /\ b[e] = p /\ z[e] = p
                 ELSE e = Len(lines) + 1

LEMMA EndOfMark ==
  ASSUME CR # LF, NEW P, NEW lines, NEW b, NEW z, AreLines(P, lines, b, z),
         NEW n \in Nat, NEW m, Marks(P, n, m), NEW a \in 1..n,
         NEW i \in 1..Len(lines), b[i] = m[a - 1] + 2,
         NEW e, e = EndOf(lines, i, <<CR>>)
  PROVE  IsEndOfMark(P, lines, b, z, m[a], i, e)
<1> DEFINE N == Len(lines)
<1>0. N \in Nat /\ Len(P) \in Nat
  BY IsSeqFacts DEF AreLines
<1>1. /\ m[a] \in Int /\ m[a - 1] \in Int /\ m[a - 1] >= -1 /\ m[a - 1] + 3 <= m[a]
      /\ \A p \in (m[a - 1] + 2)..(m[a] - 2) : p <= Len(P) => P[p] # CR
      /\ HasAt(P, m[a] - 1, LF) /\ HasAt(P, m[a], CR) /\ HasAt(P, m[a] + 1, LF)
  <2>1. a \in 0..n /\ a - 1 \in 0..n
    BY DEF Marks
  <2> QED
    BY <2>1 DEF Marks
<1>2. \/ e \in i..N /\ lines[e] = <<CR>> /\ \A k \in i..(e - 1) : lines[k] # <<CR>>
      \/ e = N + 1 /\ \A k \in i..N : lines[k] # <<CR>>
  <2>1. i \in Int
    OBVIOUS
  <2> QED
    BY <1>0, <2>1, EndOfIs
<1>3. ASSUME NEW k \in i..N, lines[k] = <<CR>>
      PROVE  k \in 1..N /\ z[k] = b[k] /\ b[k] \in Int /\ b[k] <= Len(P) /\ b[k] >= m[a]
  <2>1. k \in 1..N
    BY <1>0
  <2>2. z[k] = b[k] /\ b[k] <= Len(P) /\ P[b[k]] = CR
    BY <1>3, <2>1, LineIsMark
  <2>3. b[i] \in Int /\ b[k] \in Int
    BY <2>1 DEF AreLines
  <2>4. b[i] <= b[k]
    <3>1. i < k => b[i] < b[k]
      BY <2>1, LinesRise
    <3> QED
      BY <1>0, <2>3, <3>1
  <2>5. b[k] # m[a] - 1
    BY <1>1, <2>2 DEF HasAt
  <2>6. ~(b[k] <= m[a] - 2)
    <3> SUFFICES ASSUME b[k] <= m[a] - 2 PROVE FALSE
      OBVIOUS
    <3> DEFINE p == b[k]
               x == m[a - 1]
               y == m[a]
    <3>1. p \in Int /\ x \in Int /\ y \in Int /\ x + 2 <= p /\ p <= y - 2
      BY <1>1, <2>3, <2>4
    <3>2. p <= Len(P) /\ P[p] = CR
      BY <2>2
    <3>3. \A q \in (x + 2)..(y - 2) : q <= Len(P) => P[q] # CR
      BY <1>1
    <3> HIDE DEF p, x, y
    <3>4. p \in (x + 2)..(y - 2)
      BY <3>1
    <3> QED
      BY <3>2, <3>3, <3>4
  <2>7. b[k] >= m[a]
    <3> DEFINE p == b[k]
               y == m[a]
    <3>1. p \in Int /\ y \in Int /\ p # y - 1 /\ ~(p <= y - 2)
      BY <1>1, <2>3, <2>5, <2>6
    <3> HIDE DEF p, y
    <3>2. p >= y
      BY <3>1
    <3> QED
      BY <3>2 DEF p, y
  <2> QED
    BY <2>1, <2>2, <2>3, <2>7
<1>4. CASE m[a] <= Len(P)
  <2>1. PICK k \in 1..N : b[k] = m[a] /\ z[k] = m[a] /\ lines[k] = <<CR>>
    <3> DEFINE p == m[a]
    <3>1. /\ p \in Nat /\ 2 <= p /\ p <= Len(P)
          /\ HasAt(P, p - 1, LF) /\ HasAt(P, p, CR) /\ HasAt(P, p + 1, LF)
      <4> DEFINE x == m[a - 1]
      <4>1. p \in Int /\ x \in Int /\ x >= -1 /\ x + 3 <= p /\ p <= Len(P)
        BY <1>1, <1>4
      <4>2. HasAt(P, p - 1, LF) /\ HasAt(P, p, CR) /\ HasAt(P, p + 1, LF)
        BY <1>1
      <4> HIDE DEF x, p
      <4>3. p \in Nat /\ 2 <= p
        BY <4>1
      <4> QED
        BY <4>1, <4>2, <4>3
    <3> HIDE DEF p
    <3>2. PICK k \in 1..N : b[k] = p /\ z[k] = p /\ IsMark(lines[k])
      BY <3>1, LineOfMark
    <3> QED
      BY <3>2 DEF p, IsMark
  <2>2. i <= k
    <3> DEFINE x == m[a - 1]
               y == m[a]
    <3>1. x \in Int /\ y \in Int /\ x + 3 <= y /\ b[i] = x + 2 /\ b[k] = y
      BY <1>1, <2>1
    <3> HIDE DEF x, y
    <3>2. b[i] <= b[k]
      BY <3>1
    <3> QED
      BY <3>2, NotBefore
  <2>3. k \in i..N
    BY <1>0, <2>2
  <2>4. e \in i..N /\ lines[e] = <<CR>> /\ e <= k
    <3>1. ~(e = N + 1 /\ \A h \in i..N : lines[h] # <<CR>>)
      BY <2>1, <2>3
    <3>2. e \in i..N /\ lines[e] = <<CR>> /\ \A h \in i..(e - 1) : lines[h] # <<CR>>
      BY <1>2, <3>1
    <3>3. ~(k < e)
      <4> SUFFICES ASSUME k < e PROVE FALSE
        OBVIOUS
      <4>1. k \in i..(e - 1)
        BY <1>0, <2>3, <3>2
      <4> QED
        BY <2>1, <3>2, <4>1
    <3> QED
      BY <1>0, <3>2, <3>3
  <2>5. e \in 1..N /\ z[e] = b[e] /\ b[e] \in Int /\ b[e] >= m[a]
    BY <1>3, <2>4
  <2>6. e = k
    <3>1. b[k] <= b[e]
      BY <2>1, <2>5
    <3>2. k <= e
      BY <2>5, <3>1, NotBefore
    <3> QED
      BY <1>0, <2>4, <2>5, <3>2
  <2> QED
    BY <1>4, <2>1, <2>2, <2>6 DEF IsEndOfMark
<1>5. CASE ~(m[a] <= Len(P))
  <2>1. ~(e \in i..N /\ lines[e] = <<CR>>)
    <3> SUFFICES ASSUME e \in i..N, lines[e] = <<CR>> PROVE FALSE
      OBVIOUS
    <3>1. b[e] \in Int /\ b[e] <= Len(P) /\ b[e] >= m[a]
      BY <1>3
    <3> QED
      BY <1>0, <1>1, <1>5, <3>1
  <2> QED
    BY <1>2, <1>5, <2>1 DEF IsEndOfMark
<1> QED
  BY <1>4, <1>5

(* What is read at the beginning of a record: its title, and where its     *)
(* answers begin, unless the file ends before.                             *)
LEMMA QuestionIs ==
  ASSUME CR # LF, NEW P, NEW lines, NEW b, NEW z, AreLines(P, lines, b, z),
         NEW c, Len(c.answers) \in Nat, NEW m, Record(P, c, m),
         NEW i \in 1..Len(lines), b[i] = m[0] + 2,
         NEW next, next = ParseQuestion(lines, i).next
  PROVE  \/ next = Len(lines) + 1
         \/ next \in 1..Len(lines) /\ b[next] = m[2] + 2 /\ QuestionAt(lines, i) = c.title
<1> DEFINE N == Len(lines)
           n == Len(c.answers) + 2
           e == EndOf(lines, i, <<CR>>)
           d == EndOf(lines, e + 1, <<CR>>)
<1>0. N \in Nat \ {0} /\ N \in Nat
  BY DEF AreLines
<1>1. Marks(P, n, m)
  BY DEF Record
<1>2. \A k \in 1..n : m[k] <= Len(P) => SubSeq(P, m[k - 1] + 2, m[k] - 2) = TextOf(c, k)
  BY DEF Record
<1>3. next = After(lines, d)
  BY DEF ParseQuestion
<1>4. QuestionAt(lines, i) = IF e <= N THEN WithoutLast(Text(lines, i, e - 1)) ELSE Text(lines, i, e - 1)
  BY DEF QuestionAt, ParseQuestion
<1>5. n \in Nat /\ 1 \in 1..n /\ 2 \in 1..n
  OBVIOUS
<1> HIDE DEF n, e
<1>6. IF m[1] <= Len(P) THEN e \in 1..N /\ i <= e /\ b[e] = m[1] /\ z[e] = m[1] ELSE e = N + 1
  <2> DEFINE a == 1
  <2>1. a \in 1..n /\ b[i] = m[a - 1] + 2 /\ e = EndOf(lines, i, <<CR>>)
    BY <1>5 DEF e
  <2> HIDE DEF a
  <2>2. IsEndOfMark(P, lines, b, z, m[a], i, e)
    BY <1>1, <1>5, <2>1, EndOfMark
  <2> QED
    BY <2>2 DEF a, IsEndOfMark
<1>7. CASE e = N + 1
  <2>1. d = N + 1
    <3>1. e + 1 \in Int
      BY <1>0, <1>7
    <3>2. d \in (e + 1)..N \/ d = N + 1
      BY <1>0, <3>1, EndOfIs
    <3> QED
      BY <1>0, <1>7, <3>2
  <2>2. d \in 1..(N + 1)
    BY <1>0, <2>1
  <2>3. next = N + 1
    BY <1>3, <2>1, <2>2, NextLine
  <2> QED
    BY <2>3
<1>8. CASE e # N + 1
  <2>1. e \in 1..N /\ i <= e /\ b[e] = m[1] /\ z[e] = m[1] /\ m[1] <= Len(P)
    BY <1>6, <1>8
  <2>2. QuestionAt(lines, i) = c.title
    <3>1. QuestionAt(lines, i) = WithoutLast(Text(lines, i, e - 1))
      BY <1>0, <1>4, <2>1
    <3>2. WithoutLast(Text(lines, i, e - 1)) = SubSeq(P, b[i], b[e] - 2)
      BY <2>1, TextIs
    <3>3. SubSeq(P, b[i], b[e] - 2) = SubSeq(P, m[0] + 2, m[1] - 2)
      BY <2>1
    <3>4. SubSeq(P, m[0] + 2, m[1] - 2) = TextOf(c, 1)
      <4>1. 1 - 1 = 0
        OBVIOUS
      <4> QED
        BY <1>2, <1>5, <2>1, <4>1
    <3>5. TextOf(c, 1) = c.title
      BY DEF TextOf
    <3> QED
      BY <3>1, <3>2, <3>3, <3>4, <3>5
  <2>3. \/ d = N + 1
        \/ d \in 1..N /\ z[d] = m[2]
    <3>1. CASE e = N
      <4>1. e + 1 \in Int
        BY <1>0, <3>1
      <4>2. d \in (e + 1)..N \/ d = N + 1
        BY <1>0, <4>1, EndOfIs
      <4> QED
        BY <1>0, <3>1, <4>2
    <3>2. CASE e # N
      <4> DEFINE f == e + 1
      <4>1. f \in 1..N /\ e \in 1..(N - 1)
        BY <1>0, <2>1, <3>2
      <4>2. b[f] = z[e] + 2
        BY <4>1 DEF AreLines
      <4> HIDE DEF f
      <4>3. b[f] = m[2 - 1] + 2
        <5>1. 2 - 1 = 1
          OBVIOUS
        <5> QED
          BY <2>1, <4>2, <5>1
      <4>4. d = EndOf(lines, f, <<CR>>)
        BY DEF f
      <4> HIDE DEF d
      <4> DEFINE a == 2
      <4>5. a \in 1..n /\ b[f] = m[a - 1] + 2
        BY <1>5, <4>3
      <4> HIDE DEF a
      <4>6. IsEndOfMark(P, lines, b, z, m[a], f, d)
        <5>1. f \in 1..Len(lines) /\ Marks(P, n, m) /\ n \in Nat
          BY <1>1, <1>5, <4>1
        <5> QED
          BY <4>4, <4>5, <5>1, EndOfMark
      <4> QED
        BY <4>6 DEF a, IsEndOfMark
    <3> QED
      BY <3>1, <3>2
  <2> HIDE DEF d
  <2>4. d \in 1..(N + 1)
    BY <1>0, <2>3
  <2>5. \/ next = N + 1
        \/ next = d + 1 /\ d + 1 \in 1..N /\ d \in 1..N /\ b[d + 1] = z[d] + 2
    BY <1>3, <2>4, NextLine
  <2>6. CASE next = N + 1
    BY <2>6
  <2>7. CASE next # N + 1
    <3>1. next = d + 1 /\ next \in 1..N /\ d \in 1..N /\ b[next] = z[d] + 2
      BY <2>5, <2>7
    <3>2. d # N + 1
      BY <1>0, <3>1
    <3>3. z[d] = m[2]
      BY <2>3, <3>2
    <3> QED
      BY <2>2, <3>1, <3>3
  <2> QED
    BY <2>6, <2>7
<1> QED
  BY <1>7, <1>8

(* After the last line there are no answers.                               *)
LEMMA NothingFollows ==
  ASSUME NEW lines, Len(lines) \in Nat
  PROVE  /\ ParseAnswers(lines, Len(lines) + 1).answers = << >>
         /\ ParseAnswers(lines, Len(lines) + 1).next = Len(lines) + 1
<1> DEFINE N == Len(lines)
           i == N + 1
           end == EndOf(lines, i, <<CR, CR>>)
           ends == Places(lines, <<CR>>, i, end - 1)
           first(n) == IF n = 1 THEN i ELSE ends[n - 1] + 1
           answers == [n \in 1..Len(ends) |-> WithoutLast(Text(lines, first(n), ends[n] - 1))]
<1>1. end = N + 1
  <2>1. i \in Int
    OBVIOUS
  <2> HIDE DEF i
  <2>2. end \in i..N \/ end = N + 1
    BY <2>1, EndOfIs
  <2> HIDE DEF end
  <2> QED
    BY <2>2 DEF i
<1>2. After(lines, end) = N + 1
  <2>1. end \in Int
    BY <1>1
  <2> HIDE DEF end
  <2>2. After(lines, end) = (IF end <= N THEN end ELSE N) + 1
    BY <2>1, AfterIs
  <2> QED
    BY <1>1, <2>2
<1>3. ends = InOrder({})
  <2>1. {n \in i..(end - 1) : lines[n] = <<CR>>} = {}
    BY <1>1
  <2> QED
    BY <2>1 DEF Places
<1>4. Len(ends) = 0
  <2>1. IsFiniteSet({}) /\ Cardinality({}) = 0
    BY FS_EmptySet
  <2>2. Len(InOrder({})) = 0
    BY <2>1 DEF InOrder
  <2> QED
    BY <1>3, <2>2
<1>5. ParseAnswers(lines, i).answers = NotEmpty(answers) /\ ParseAnswers(lines, i).next = After(lines, end)
  BY DEF ParseAnswers
<1>6. Len(answers) = 0
  BY <1>4
<1> HIDE DEF answers
<1>7. NotEmpty(answers) = << >>
  <2>1. {n \in 1..Len(answers) : answers[n] # << >>} = {}
    BY <1>6
  <2>2. NotEmpty(answers) = Kept(answers, {})
    BY <2>1 DEF NotEmpty
  <2>3. Len(InOrder({})) = 0
    BY <1>3, <1>4
  <2>4. Kept(answers, {}) = << >>
    BY <2>3 DEF Kept
  <2> QED
    BY <2>2, <2>4
<1> QED
  BY <1>2, <1>5, <1>7

(* The line that ends a record is where its "\r\r" is, if the file reaches *)
(* as far.                                                                 *)
LEMMA EndOfRecord ==
  ASSUME CR # LF, NEW P, NEW lines, NEW b, NEW z, AreLines(P, lines, b, z),
         NEW n \in Nat, n # 0, NEW m, Marks(P, n, m), NEW a \in 0..n,
         NEW i \in 1..Len(lines), b[i] = m[a] + 2,
         NEW e, e = EndOf(lines, i, <<CR, CR>>)
  PROVE  IF m[n] + 3 <= Len(P) THEN e \in 1..Len(lines) /\ i <= e /\ b[e] = m[n] + 2 /\ z[e] = m[n] + 3
                               ELSE e = Len(lines) + 1
<1> DEFINE N == Len(lines)
           r == m[n] + 2
<1>0. N \in Nat /\ Len(P) \in Nat
  BY IsSeqFacts DEF AreLines
<1>1. m[0] \in Int /\ m[a] \in Int /\ m[n] \in Int /\ m[n] >= -1 /\ m[a] >= m[0] /\ m[n] >= m[a]
  <2>1. 0 \in 0..n /\ n \in 0..n
    OBVIOUS
  <2>2. m[0] \in Int /\ m[a] \in Int /\ m[n] \in Int /\ m[n] >= -1
    BY <2>1 DEF Marks
  <2>3. a # 0 => m[0] + 3 <= m[a]
    BY <2>1, MarksRise
  <2>4. a # n => m[a] + 3 <= m[n]
    BY <2>1, MarksRise
  <2>5. m[a] >= m[0]
    BY <2>2, <2>3
  <2>6. m[n] >= m[a]
    BY <2>2, <2>4
  <2> QED
    BY <2>2, <2>5, <2>6
<1>2. HasAt(P, r, CR) /\ HasAt(P, r + 1, CR) /\ HasAt(P, r + 2, LF)
  <2>1. r + 1 = m[n] + 3 /\ r + 2 = m[n] + 4
    BY <1>1
  <2> HIDE DEF r
  <2> QED
    BY <2>1 DEF Marks, r
<1>3. \/ e \in i..N /\ lines[e] = <<CR, CR>> /\ \A k \in i..(e - 1) : lines[k] # <<CR, CR>>
      \/ e = N + 1 /\ \A k \in i..N : lines[k] # <<CR, CR>>
  <2>1. i \in Int
    OBVIOUS
  <2> QED
    BY <1>0, <2>1, EndOfIs
<1>4. ASSUME NEW k \in i..N, lines[k] = <<CR, CR>>
      PROVE  k \in 1..N /\ z[k] = b[k] + 1 /\ b[k] \in Int /\ b[k] + 1 <= Len(P) /\ b[k] >= r
  <2>1. k \in 1..N
    BY <1>0
  <2>2. z[k] = b[k] + 1 /\ b[k] + 1 <= Len(P) /\ P[b[k]] = CR /\ P[b[k] + 1] = CR
    BY <1>4, <2>1, LineIsMark
  <2>3. b[i] \in Int /\ b[k] \in Int
    BY <2>1 DEF AreLines
  <2>4. b[i] <= b[k]
    <3>1. i < k => b[i] < b[k]
      BY <2>1, LinesRise
    <3> QED
      BY <1>0, <2>3, <3>1
  <2>6. r \in Int
    BY <1>1
  <2>5. ~(b[k] < r)
    <3> SUFFICES ASSUME b[k] < r PROVE FALSE
      OBVIOUS
    <3> DEFINE p == b[k]
               l == Len(P)
               x == m[0]
               y == m[a]
    <3>7. r \in Int /\ x \in Int /\ y \in Int /\ x <= y
      BY <1>1
    <3>8. p \in Int /\ l \in Nat /\ y + 2 <= p /\ p + 1 <= l /\ p < r
      BY <1>0, <2>2, <2>3, <2>4
    <3>0. /\ p \in Int /\ l \in Nat /\ x \in Int /\ y \in Int /\ r \in Int
          /\ x <= y /\ y + 2 <= p /\ p + 1 <= l /\ p < r
      BY <3>7, <3>8
    <3> HIDE DEF p, l, x, y, r
    <3>6. x + 2 <= p /\ p <= r /\ p <= l /\ p # r
      BY <3>0
    <3>1. p \in Int /\ m[0] + 2 <= p /\ p <= m[n] + 2 /\ p <= Len(P) /\ P[p] = CR /\ p # m[n] + 2
      BY <2>2, <3>0, <3>6 DEF p, l, x, r
    <3>2. P[p + 1] = CR /\ p + 1 <= Len(P)
      BY <2>2 DEF p
    <3>3. PICK h \in 1..n : p = m[h]
      BY <3>1, OnlyMarks
    <3>4. HasAt(P, m[h] + 1, LF)
      BY DEF Marks
    <3>5. HasAt(P, p + 1, LF)
      BY <3>3, <3>4
    <3> QED
      BY <3>2, <3>5 DEF HasAt
  <2> HIDE DEF r
  <2>7. b[k] >= r
    BY <2>3, <2>5, <2>6
  <2> QED
    BY <2>1, <2>2, <2>3, <2>7
<1>5. CASE m[n] + 3 <= Len(P)
  <2>1. PICK k \in 1..N : b[k] = r /\ z[k] = r + 1 /\ lines[k] = <<CR, CR>>
    <3> DEFINE l == Len(P)
               x == m[n]
    <3>0. l \in Nat /\ x \in Int /\ x >= -1 /\ x + 3 <= l /\ r = x + 2
      BY <1>0, <1>1, <1>5
    <3> HIDE DEF l, x, r
    <3>1. r \in 1..(l + 1) /\ r - 1 = x + 1 /\ r <= l /\ r + 1 <= l
      BY <3>0
    <3>2. P[r - 1] = LF
      <4>1. HasAt(P, m[n] + 1, LF)
        BY DEF Marks
      <4>2. HasAt(P, r - 1, LF)
        BY <3>1, <4>1 DEF x
      <4>3. r - 1 <= l
        BY <3>0, <3>1
      <4> QED
        BY <4>2, <4>3 DEF HasAt, l
    <3>3. PICK k \in 1..N : b[k] = r
      BY <3>1, <3>2, LineAt DEF l
    <3>4. P[r] = CR /\ P[r + 1] = CR /\ (r + 1 = l \/ P[r + 2] = LF)
      <4>1. r + 1 = l \/ r + 2 <= l
        BY <3>0, <3>1
      <4> QED
        BY <1>2, <3>1, <4>1 DEF HasAt, l
    <3>5. /\ b[k] <= Len(P) /\ P[b[k]] = CR
          /\ b[k] + 1 <= Len(P) /\ P[b[k] + 1] = CR /\ (b[k] + 1 = Len(P) \/ P[b[k] + 2] = LF)
      BY <3>1, <3>3, <3>4 DEF l
    <3>6. z[k] = b[k] + 1 /\ lines[k] = <<CR, CR>>
      <4>1. b[k] <= Len(P) /\ P[b[k]] = CR
        BY <3>5
      <4>2. b[k] + 1 <= Len(P) /\ P[b[k] + 1] = CR /\ (b[k] + 1 = Len(P) \/ P[b[k] + 2] = LF)
              => z[k] = b[k] + 1 /\ lines[k] = <<CR, CR>>
        BY <4>1, MarkIsLine
      <4> QED
        BY <3>5, <4>2
    <3>7. z[k] = r + 1
      BY <3>3, <3>6
    <3> QED
      BY <3>3, <3>6, <3>7
  <2>2. i <= k
    <3>1. b[i] <= b[k]
      <4> DEFINE x == m[a]
                 y == m[n]
      <4>1. x \in Int /\ y \in Int /\ x <= y /\ b[i] = x + 2 /\ b[k] = y + 2
        BY <1>1, <2>1
      <4> HIDE DEF x, y
      <4>2. x + 2 <= y + 2
        BY <4>1
      <4> QED
        BY <4>1, <4>2
    <3> QED
      BY <3>1, NotBefore
  <2>3. k \in i..N
    BY <1>0, <2>2
  <2>4. e \in i..N /\ lines[e] = <<CR, CR>> /\ e <= k
    <3>1. ~(e = N + 1 /\ \A h \in i..N : lines[h] # <<CR, CR>>)
      BY <2>1, <2>3
    <3>2. e \in i..N /\ lines[e] = <<CR, CR>> /\ \A h \in i..(e - 1) : lines[h] # <<CR, CR>>
      BY <1>3, <3>1
    <3>3. ~(k < e)
      <4> SUFFICES ASSUME k < e PROVE FALSE
        OBVIOUS
      <4>1. k \in i..(e - 1)
        BY <1>0, <2>3, <3>2
      <4> QED
        BY <2>1, <3>2, <4>1
    <3> QED
      BY <1>0, <3>2, <3>3
  <2>5. e \in 1..N /\ b[e] \in Int /\ b[e] >= r
    BY <1>4, <2>4
  <2>6. e = k
    <3>1. b[k] <= b[e]
      BY <2>1, <2>5
    <3>2. k <= e
      BY <2>5, <3>1, NotBefore
    <3> QED
      BY <1>0, <2>4, <2>5, <3>2
  <2>7. r + 1 = m[n] + 3
    BY <1>1
  <2> QED
    BY <1>5, <2>1, <2>2, <2>6, <2>7
<1>6. CASE ~(m[n] + 3 <= Len(P))
  <2>1. ~(e \in i..N /\ lines[e] = <<CR, CR>>)
    <3> SUFFICES ASSUME e \in i..N, lines[e] = <<CR, CR>> PROVE FALSE
      OBVIOUS
    <3>1. b[e] \in Int /\ b[e] + 1 <= Len(P) /\ b[e] >= r
      BY <1>4
    <3> DEFINE p == b[e]
               l == Len(P)
               x == m[n]
    <3>2. p \in Int /\ l \in Nat /\ x \in Int /\ p + 1 <= l /\ p >= x + 2 /\ ~(x + 3 <= l)
      BY <1>0, <1>1, <1>6, <3>1
    <3> HIDE DEF p, l, x
    <3> QED
      BY <3>2
  <2> QED
    BY <1>3, <1>6, <2>1
<1> QED
  BY <1>5, <1>6

(* The places of the "\r" that may end an answer: those of the record's    *)
(* marks, and the first rune of its "\r\r", if that is the file's last.    *)
AnswerEnds(m, A) == [k \in 0..(A + 1) |-> IF k <= A THEN m[k + 2] ELSE m[A + 2] + 2]

AreAnswerEnds(m, A, M) ==
  /\ M[0] = m[2] /\ M[A] = m[A + 2] /\ M[A + 1] = m[A + 2] + 2
  /\ \A k \in 1..A : M[k] = m[k + 2] /\ M[k - 1] = m[k + 1]
  /\ \A k \in 0..(A + 1) : M[k] \in Int /\ M[k] >= -1
  /\ \A j, k \in 0..(A + 1) : j < k => M[j] + 2 <= M[k]

LEMMA AnswerEndsRise ==
  ASSUME NEW P, NEW A \in Nat, NEW m, Marks(P, A + 2, m), NEW M, M = AnswerEnds(m, A)
  PROVE  AreAnswerEnds(m, A, M)
<1> DEFINE n == A + 2
<1>1. \A k \in 0..n : m[k] \in Int /\ m[k] >= -1
  BY DEF Marks
<1>2. \A k \in 0..A : M[k] = m[k + 2] /\ k + 2 \in 0..n
  BY DEF AnswerEnds
<1>3. M[A + 1] = m[n] + 2
  BY DEF AnswerEnds
<1>4. M[0] = m[2] /\ M[A] = m[n]
  <2>1. 0 \in 0..A /\ A \in 0..A /\ 0 + 2 = 2
    OBVIOUS
  <2> QED
    BY <1>2, <2>1
<1> HIDE DEF n
<1>5. ASSUME NEW k \in 1..A PROVE M[k] = m[k + 2] /\ M[k - 1] = m[k + 1]
  <2>1. k \in 0..A /\ k - 1 \in 0..A /\ k - 1 + 2 = k + 1
    OBVIOUS
  <2> QED
    BY <1>2, <2>1
<1>6. ASSUME NEW k \in 0..(A + 1) PROVE M[k] \in Int /\ M[k] >= -1
  <2>1. CASE k = A + 1
    <3>1. n \in 0..n
      BY DEF n
    <3>2. m[n] \in Int /\ m[n] >= -1
      BY <1>1, <3>1
    <3> QED
      BY <1>3, <2>1, <3>2
  <2>2. CASE k # A + 1
    <3>1. k \in 0..A
      BY <2>2
    <3> QED
      BY <1>1, <1>2, <3>1
  <2> QED
    BY <2>1, <2>2
<1>7. ASSUME NEW j \in 0..A, NEW k \in 0..A, j < k PROVE M[j] + 3 <= M[k]
  <2> DEFINE h == j + 2
             l == k + 2
  <2>1. h \in 0..n /\ l \in 0..n /\ h < l /\ n \in Nat
    BY <1>7 DEF n
  <2>2. M[j] = m[h] /\ M[k] = m[l]
    BY <1>2
  <2> HIDE DEF h, l
  <2>3. m[h] + 3 <= m[l]
    BY <2>1, MarksRise DEF n
  <2> QED
    BY <2>2, <2>3
<1>8. ASSUME NEW j \in 0..(A + 1), NEW k \in 0..(A + 1), j < k PROVE M[j] + 2 <= M[k]
  <2>0. M[j] \in Int /\ M[k] \in Int
    BY <1>6
  <2>1. CASE k = A + 1
    <3>1. j \in 0..A /\ A \in 0..A /\ A \in 0..(A + 1)
      BY <1>8, <2>1
    <3>2. j < A => M[j] + 3 <= M[A]
      BY <1>7, <3>1
    <3>3. M[A] \in Int
      BY <1>6, <3>1
    <3>4. M[k] = M[A] + 2
      BY <1>3, <1>4, <2>1
    <3>5. j = A => M[j] = M[A]
      OBVIOUS
    <3> QED
      BY <2>0, <3>1, <3>2, <3>3, <3>4, <3>5
  <2>2. CASE k # A + 1
    <3>1. j \in 0..A /\ k \in 0..A
      BY <1>8, <2>2
    <3>2. M[j] + 3 <= M[k]
      BY <1>7, <1>8, <3>1
    <3> QED
      BY <2>0, <3>2
  <2> QED
    BY <2>1, <2>2
<1> QED
  BY <1>3, <1>4, <1>5, <1>6, <1>8 DEF n, AreAnswerEnds

LEMMA EndIsLine ==
  ASSUME CR # LF, NEW P, NEW lines, NEW b, NEW z, AreLines(P, lines, b, z),
         NEW A \in Nat, NEW m, Marks(P, A + 2, m), NEW M, AreAnswerEnds(m, A, M),
         NEW k \in 1..(A + 1), M[k] <= Len(P)
  PROVE  \E j \in 1..Len(lines) :
           b[j] = M[k] /\ (k <= A => z[j] = M[k] /\ IsMark(lines[j]))
<1>0. Len(P) \in Nat
  BY IsSeqFacts DEF AreLines
<1>1. /\ \A j \in 0..(A + 1) : M[j] \in Int /\ M[j] >= -1
      /\ \A i, j \in 0..(A + 1) : i < j => M[i] + 2 <= M[j]
      /\ M[A] = m[A + 2] /\ M[A + 1] = m[A + 2] + 2
      /\ \A j \in 1..A : M[j] = m[j + 2] /\ M[j - 1] = m[j + 1]
  BY DEF AreAnswerEnds
<1>2. CASE k <= A
  <2> DEFINE a == k + 2
             p == M[k]
  <2>1. a \in 1..(A + 2) /\ a - 1 = k + 1 /\ a - 1 \in 0..(A + 2) /\ k \in 1..A /\ k \in 0..(A + 1)
    BY <1>2
  <2>2. p = m[a] /\ p \in Int
    BY <1>1, <2>1
  <2> HIDE DEF a
  <2>3. /\ m[a - 1] \in Int /\ m[a - 1] >= -1 /\ m[a - 1] + 3 <= m[a]
        /\ HasAt(P, m[a] - 1, LF) /\ HasAt(P, m[a], CR) /\ HasAt(P, m[a] + 1, LF)
    BY <2>1 DEF Marks
  <2>4. p <= Len(P)
    OBVIOUS
  <2> HIDE DEF p
  <2>5. /\ p \in Nat /\ 2 <= p
        /\ HasAt(P, p - 1, LF) /\ HasAt(P, p, CR) /\ HasAt(P, p + 1, LF)
    BY <2>2, <2>3
  <2>6. \E j \in 1..Len(lines) : b[j] = p /\ z[j] = p /\ IsMark(lines[j])
    BY <2>4, <2>5, LineOfMark
  <2> QED
    BY <2>6 DEF p
<1>3. CASE k > A
  <2> DEFINE p == M[k]
             l == Len(P)
             x == m[A + 2]
  <2>1. k = A + 1 /\ 0 \in 0..(A + 1) /\ A \in 0..(A + 1) /\ A + 2 \in 1..(A + 2)
    BY <1>3
  <2>2. p = x + 2 /\ x \in Int /\ x >= -1 /\ p <= l /\ l \in Nat
    BY <1>0, <1>1, <2>1
  <2>3. HasAt(P, x + 1, LF)
    BY <2>1 DEF Marks
  <2> HIDE DEF p, l, x
  <2>4. p - 1 = x + 1 /\ p \in 1..(l + 1) /\ p - 1 <= l
    BY <2>2
  <2>5. P[p - 1] = LF
    BY <2>3, <2>4 DEF HasAt, l
  <2>6. PICK j \in 1..Len(lines) : b[j] = p
    BY <2>4, <2>5, LineAt DEF l
  <2>7. b[j] = M[k]
    BY <2>6 DEF p
  <2> QED
    BY <1>3, <2>7
<1>4. k <= A \/ k > A
  OBVIOUS
<1> QED
  BY <1>2, <1>3, <1>4

LEMMA MarkIsEnd ==
  ASSUME CR # LF, NEW P, NEW lines, NEW b, NEW z, AreLines(P, lines, b, z),
         NEW A \in Nat, NEW m, Marks(P, A + 2, m), NEW M, AreAnswerEnds(m, A, M),
         NEW x \in 1..Len(lines), lines[x] = <<CR>>, M[0] + 2 <= b[x], b[x] <= M[A + 1]
  PROVE  /\ b[x] \in Int /\ b[x] <= Len(P) /\ z[x] = b[x]
         /\ \E k \in 1..(A + 1) : b[x] = M[k]
<1>1. z[x] = b[x] /\ b[x] <= Len(P) /\ P[b[x]] = CR /\ b[x] \in Int
  <2>1. b[x] \in Int
    BY DEF AreLines
  <2>2. z[x] = b[x] /\ b[x] <= Len(P) /\ P[b[x]] = CR
    BY LineIsMark
  <2> QED
    BY <2>1, <2>2
<1>2. /\ M[0] = m[2] /\ M[A + 1] = m[A + 2] + 2
      /\ \A k \in 1..A : M[k] = m[k + 2] /\ M[k - 1] = m[k + 1]
  BY DEF AreAnswerEnds
<1> DEFINE n == A + 2
           p == b[x]
<1>3. 0 \in 0..n /\ 2 \in 0..n /\ n \in Nat /\ n \in 0..n
  OBVIOUS
<1>4. m[0] \in Int /\ m[2] \in Int /\ m[n] \in Int
  BY <1>3 DEF Marks
<1>5. m[0] + 3 <= m[2]
  BY <1>3, MarksRise
<1>6. m[2] + 2 <= p /\ p <= m[n] + 2
  BY <1>2
<1> HIDE DEF p, n
<1>7. m[0] + 2 <= p
  <2> DEFINE v == m[0]
             w == m[2]
  <2>1. p \in Int /\ v \in Int /\ w \in Int /\ v + 3 <= w /\ w + 2 <= p
    BY <1>1, <1>4, <1>5, <1>6 DEF p
  <2> HIDE DEF v, w
  <2>2. v + 2 <= p
    BY <2>1
  <2> QED
    BY <2>2 DEF v
<1>8. p = m[n] + 2 \/ \E a \in 1..n : p = m[a]
  <2>1. p \in Int /\ p <= Len(P) /\ P[p] = CR
    BY <1>1 DEF p
  <2>2. Marks(P, n, m)
    BY DEF n
  <2> QED
    BY <1>3, <1>6, <1>7, <2>1, <2>2, OnlyMarks
<1>9. \E k \in 1..(A + 1) : p = M[k]
  <2>1. CASE p = m[n] + 2
    <3>1. A + 1 \in 1..(A + 1)
      OBVIOUS
    <3> QED
      BY <1>2, <2>1, <3>1 DEF n
  <2>2. CASE \E a \in 1..n : p = m[a]
    <3>1. PICK a \in 1..n : p = m[a]
      BY <2>2
    <3>2. a > 2
      <4> SUFFICES ASSUME a <= 2 PROVE FALSE
        BY <1>3
      <4>1. a \in 0..n /\ (a < 2 \/ a = 2)
        BY <1>3
      <4>2. Marks(P, n, m)
        BY DEF n
      <4>3. a < 2 => m[a] + 3 <= m[2]
        BY <1>3, <4>1, <4>2, MarksRise
      <4>4. m[a] \in Int
        BY <4>1, <4>2 DEF Marks
      <4> QED
        BY <1>4, <1>6, <3>1, <4>1, <4>3, <4>4
    <3> DEFINE k == a - 2
    <3>3. k \in 1..A /\ k \in 1..(A + 1) /\ k + 2 = a
      BY <3>2 DEF n
    <3> HIDE DEF k
    <3>4. M[k] = m[k + 2]
      BY <1>2, <3>3
    <3> QED
      BY <3>1, <3>3, <3>4
  <2> QED
    BY <1>8, <2>1, <2>2
<1> QED
  BY <1>1, <1>9 DEF p

(* The lines that are "\r" are those at the first places an answer may     *)
(* end at, in their order.                                                 *)
EndLine(lines, b, z, A, M, k, j) ==
  j \in 1..Len(lines) /\ b[j] = M[k] /\ (k <= A => z[j] = M[k] /\ IsMark(lines[j]))

EndLines(P, lines, b, z, A, M) ==
  [k \in 1..(A + 1) |-> IF M[k] <= Len(P) THEN CHOOSE j : EndLine(lines, b, z, A, M, k, j)
                        ELSE Len(lines) + k]

LEMMA EndLinesRise ==
  ASSUME CR # LF, NEW P, NEW lines, NEW b, NEW z, AreLines(P, lines, b, z),
         NEW A \in Nat, NEW m, Marks(P, A + 2, m), NEW M, AreAnswerEnds(m, A, M),
         NEW q, q = EndLines(P, lines, b, z, A, M)
  PROVE  /\ Rises(q, A + 1)
         /\ \A k \in 1..(A + 1) : IF M[k] <= Len(P) THEN EndLine(lines, b, z, A, M, k, q[k])
                                  ELSE q[k] = Len(lines) + k
<1> DEFINE N == Len(lines)
<1>0. N \in Nat /\ Len(P) \in Nat
  BY IsSeqFacts DEF AreLines
<1>1. /\ \A j \in 0..(A + 1) : M[j] \in Int /\ M[j] >= -1
      /\ \A i, j \in 0..(A + 1) : i < j => M[i] + 2 <= M[j]
  BY DEF AreAnswerEnds
<1>2. ASSUME NEW k \in 1..(A + 1)
      PROVE  IF M[k] <= Len(P) THEN EndLine(lines, b, z, A, M, k, q[k]) ELSE q[k] = N + k
  <2>1. CASE M[k] <= Len(P)
    <3>1. \E j \in 1..Len(lines) :
            b[j] = M[k] /\ (k <= A => z[j] = M[k] /\ IsMark(lines[j]))
      BY <2>1, EndIsLine
    <3>2. \E j : EndLine(lines, b, z, A, M, k, j)
      BY <3>1 DEF EndLine
    <3>3. q[k] = CHOOSE j : EndLine(lines, b, z, A, M, k, j)
      BY <2>1 DEF EndLines
    <3>4. EndLine(lines, b, z, A, M, k, q[k])
      BY <3>2, <3>3, Zenon
    <3> QED
      BY <2>1, <3>4
  <2>2. CASE ~(M[k] <= Len(P))
    BY <2>2 DEF EndLines
  <2> QED
    BY <2>1, <2>2
<1> HIDE DEF N
<1>3. ASSUME NEW k \in 1..(A + 1), M[k] <= Len(P)
      PROVE  q[k] \in 1..N /\ b[q[k]] = M[k]
  BY <1>2, <1>3 DEF EndLine, N
<1>4. ASSUME NEW k \in 1..(A + 1), ~(M[k] <= Len(P))
      PROVE  q[k] = N + k
  BY <1>2, <1>4
<1>5. \A k \in 1..(A + 1) : q[k] \in Int
  BY <1>0, <1>3, <1>4
<1>6. ASSUME NEW k \in 1..(A + 1), NEW l \in 1..(A + 1), k < l
      PROVE  q[k] < q[l]
  <2>1. k \in 0..(A + 1) /\ l \in 0..(A + 1)
    OBVIOUS
  <2>2. M[k] \in Int /\ M[l] \in Int /\ M[k] + 2 <= M[l]
    BY <1>1, <1>6, <2>1
  <2>3. CASE M[l] <= Len(P)
    <3>1. M[k] <= Len(P)
      BY <1>0, <2>2, <2>3
    <3>2. q[l] \in 1..N /\ b[q[l]] = M[l] /\ q[k] \in 1..N /\ b[q[k]] = M[k]
      BY <1>3, <2>3, <3>1
    <3>3. b[q[k]] <= b[q[l]]
      BY <2>2, <3>2
    <3>4. q[k] <= q[l]
      BY <3>2, <3>3, NotBefore DEF N
    <3>5. q[k] # q[l]
      BY <2>2, <3>2
    <3> QED
      BY <1>5, <3>4, <3>5
  <2>4. CASE ~(M[l] <= Len(P))
    <3>1. q[l] = N + l
      BY <1>4, <2>4
    <3>2. CASE M[k] <= Len(P)
      <4>1. q[k] \in 1..N
        BY <1>3, <3>2
      <4> QED
        BY <1>0, <3>1, <4>1 DEF N
    <3>3. CASE ~(M[k] <= Len(P))
      <4>1. q[k] = N + k
        BY <1>4, <3>3
      <4> QED
        BY <1>0, <1>6, <3>1, <4>1 DEF N
    <3> QED
      BY <3>2, <3>3
  <2> QED
    BY <2>3, <2>4
<1> QED
  BY <1>2, <1>5, <1>6 DEF Rises, N

(* The lines that end answers are found at marks, in the order of these.   *)
AreEnds(ends, lines, b, z, i, A, M) ==
  /\ Len(ends) \in 0..(A + 1)
  /\ \A k \in 1..Len(ends) : /\ ends[k] \in 1..Len(lines) /\ i <= ends[k]
                             /\ b[ends[k]] = M[k] /\ z[ends[k]] = M[k]
  /\ \A j, k \in 1..Len(ends) : j < k => ends[j] < ends[k]

LEMMA EndsOfAnswers ==
  ASSUME CR # LF, NEW P, NEW lines, NEW b, NEW z, AreLines(P, lines, b, z),
         NEW A \in Nat, NEW m, Marks(P, A + 2, m), NEW M, AreAnswerEnds(m, A, M),
         NEW i \in 1..Len(lines), b[i] = m[2] + 2,
         NEW end, end = EndOf(lines, i, <<CR, CR>>),
         NEW ends, ends = Places(lines, <<CR>>, i, end - 1)
  PROVE  AreEnds(ends, lines, b, z, i, A, M)
<1> DEFINE N == Len(lines)
           l == Len(P)
           n == A + 2
           T == {k \in i..(end - 1) : lines[k] = <<CR>>}
           q == EndLines(P, lines, b, z, A, M)
<1>0. N \in Nat /\ l \in Nat
  BY IsSeqFacts DEF AreLines
<1>1. /\ M[0] = m[2] /\ M[A + 1] = m[n] + 2
      /\ \A j \in 0..(A + 1) : M[j] \in Int /\ M[j] >= -1
      /\ \A h, j \in 0..(A + 1) : h < j => M[h] + 2 <= M[j]
  BY DEF AreAnswerEnds
<1>2. Rises(q, A + 1)
  BY EndLinesRise
<1>3. \A k \in 1..(A + 1) : IF M[k] <= l THEN EndLine(lines, b, z, A, M, k, q[k]) ELSE q[k] = N + k
  BY EndLinesRise
<1>4. ends = InOrder(T)
  BY DEF Places
<1>5. IF m[n] + 3 <= l THEN end \in 1..N /\ i <= end /\ b[end] = m[n] + 2 /\ z[end] = m[n] + 3
                       ELSE end = N + 1
  <2> DEFINE a == 2
  <2>1. n \in Nat /\ n # 0 /\ a \in 0..n /\ b[i] = m[a] + 2
    OBVIOUS
  <2> HIDE DEF n, a
  <2>2. Marks(P, n, m)
    BY DEF n
  <2> QED
    BY <2>1, <2>2, EndOfRecord
<1>6. m[n] \in Int
  <2>1. n \in 0..n
    OBVIOUS
  <2> QED
    BY <2>1 DEF Marks
<1> HIDE DEF q, n
<1>7. end \in 1..(N + 1)
  BY <1>0, <1>5
<1>8. ASSUME NEW x \in T
      PROVE  x \in 1..N /\ x < end /\ i <= x /\ lines[x] = <<CR>>
  BY <1>0, <1>7
<1> HIDE DEF T
<1>9. ASSUME NEW x \in 1..N, NEW y \in 1..N, b[x] = b[y]
      PROVE  x = y
  <2>1. b[x] \in Int /\ b[y] \in Int
    BY DEF AreLines
  <2>2. b[x] <= b[y] /\ b[y] <= b[x]
    BY <1>9, <2>1
  <2>3. x <= y /\ y <= x
    BY <2>2, NotBefore
  <2> QED
    BY <2>3
<1>10. ASSUME NEW x \in T
       PROVE  /\ z[x] = b[x] /\ b[x] \in Int
              /\ \E k \in 1..(A + 1) : b[x] = M[k] /\ x = q[k]
  <2>1. x \in 1..N /\ x < end /\ i <= x /\ lines[x] = <<CR>>
    BY <1>8
  <2>2. b[x] \in Int /\ b[i] \in Int
    BY <2>1 DEF AreLines
  <2>3. b[x] <= l
    BY <2>1, LineIsMark
  <2>4. M[0] + 2 <= b[x]
    <3>1. i < x => b[i] < b[x]
      BY <2>1, LinesRise
    <3>2. b[i] = M[0] + 2
      BY <1>1
    <3> QED
      BY <2>1, <2>2, <3>1, <3>2
  <2>5. b[x] <= M[A + 1]
    <3>1. CASE m[n] + 3 <= l
      <4>1. end \in 1..N /\ b[end] = m[n] + 2
        BY <1>5, <3>1
      <4>2. b[x] < b[end]
        BY <2>1, <4>1, LinesRise
      <4> DEFINE p == b[x]
                 y == m[n]
      <4>3. p \in Int /\ y \in Int /\ p < y + 2 /\ M[A + 1] = y + 2
        BY <1>1, <1>6, <2>2, <4>1, <4>2
      <4> HIDE DEF p, y
      <4>4. p <= y + 2
        BY <4>3
      <4> QED
        BY <4>3, <4>4 DEF p
    <3>2. CASE ~(m[n] + 3 <= l)
      <4> DEFINE p == b[x]
                 y == m[n]
      <4>1. p \in Int /\ y \in Int /\ p <= l /\ ~(y + 3 <= l) /\ M[A + 1] = y + 2
        BY <1>1, <1>6, <2>2, <2>3, <3>2
      <4> HIDE DEF p, y, l
      <4>2. p <= y + 2
        BY <1>0, <4>1
      <4> QED
        BY <4>1, <4>2 DEF p
    <3> QED
      BY <3>1, <3>2
  <2>6. z[x] = b[x] /\ \E k \in 1..(A + 1) : b[x] = M[k]
    BY <2>1, <2>4, <2>5, MarkIsEnd
  <2>7. PICK k \in 1..(A + 1) : b[x] = M[k]
    BY <2>6
  <2>8. q[k] \in 1..N /\ b[q[k]] = M[k]
    <3>1. M[k] <= l
      BY <2>3, <2>7
    <3> QED
      BY <1>3, <3>1 DEF EndLine
  <2>9. x = q[k]
    BY <1>9, <2>1, <2>7, <2>8
  <2> QED
    BY <2>2, <2>6, <2>7, <2>9
<1>11. ASSUME NEW x \in T, NEW k \in 1..(A + 1), q[k] <= x
       PROVE  q[k] \in T /\ b[q[k]] = M[k]
  <2>1. x \in 1..N /\ x < end /\ i <= x /\ lines[x] = <<CR>>
    BY <1>8
  <2>2. M[k] <= l
    <3> SUFFICES ASSUME ~(M[k] <= l) PROVE FALSE
      OBVIOUS
    <3>1. q[k] = N + k
      BY <1>3
    <3> QED
      BY <1>0, <1>11, <2>1, <3>1
  <2>3. EndLine(lines, b, z, A, M, k, q[k])
    BY <1>3, <2>2
  <2>4. q[k] \in 1..N /\ b[q[k]] = M[k]
    BY <2>3 DEF EndLine
  <2>5. k \in 0..(A + 1) /\ 0 \in 0..(A + 1) /\ A + 1 \in 0..(A + 1) /\ 0 < k
    OBVIOUS
  <2>6. i <= q[k]
    <3>1. M[0] + 2 <= M[k]
      BY <1>1, <2>5
    <3>2. b[i] <= b[q[k]]
      BY <1>1, <2>4, <3>1
    <3> QED
      BY <2>4, <3>2, NotBefore
  <2>7. lines[q[k]] = <<CR>>
    <3>1. CASE k <= A
      BY <2>3, <3>1 DEF EndLine, IsMark
    <3>2. CASE k > A
      <4>1. k = A + 1
        BY <3>2
      <4>2. PICK h \in 1..(A + 1) : b[x] = M[h] /\ x = q[h]
        BY <1>10
      <4>3. h = k
        <5> SUFFICES ASSUME h # k PROVE FALSE
          OBVIOUS
        <5>1. h \in 0..(A + 1) /\ h < k
          BY <4>1
        <5>2. M[h] + 2 <= M[k] /\ M[h] \in Int /\ M[k] \in Int
          BY <1>1, <2>5, <5>1
        <5>3. b[q[k]] \in Int /\ b[x] \in Int
          BY <2>4, <4>2, <5>2
        <5>4. q[k] < x => b[q[k]] < b[x]
          BY <2>1, <2>4, LinesRise
        <5>5. q[k] = x => b[q[k]] = b[x]
          OBVIOUS
        <5>6. q[k] < x \/ q[k] = x
          BY <1>11, <2>1, <2>4
        <5> QED
          BY <2>4, <4>2, <5>2, <5>3, <5>4, <5>5, <5>6
      <4> QED
        BY <2>1, <4>2, <4>3
    <3> QED
      BY <3>1, <3>2
  <2>8. q[k] \in i..(end - 1)
    BY <1>7, <1>11, <2>1, <2>4, <2>6
  <2> QED
    BY <2>4, <2>7, <2>8 DEF T
<1>12. IsFiniteSet(T)
  <2>1. T \subseteq 1..N /\ 1 \in Int /\ N \in Int
    BY <1>0, <1>8
  <2> QED
    BY <2>1, IntervalIsFinite
<1> DEFINE c == Cardinality(T)
<1>13. c \in Nat /\ \A k \in 1..c : k <= A + 1 /\ InOrder(T)[k] = q[k] /\ q[k] \in T
  <2>1. A + 1 \in Nat
    OBVIOUS
  <2>2. \A x \in T : \E k \in 1..(A + 1) : q[k] = x
    BY <1>10
  <2>3. \A x \in T : \A k \in 1..(A + 1) : q[k] <= x => q[k] \in T
    BY <1>11
  <2> DEFINE r == A + 1
  <2> HIDE DEF r
  <2>4. /\ r \in Nat /\ Rises(q, r)
        /\ \A x \in T : \E k \in 1..r : q[k] = x
        /\ \A x \in T : \A k \in 1..r : q[k] <= x => q[k] \in T
    BY <1>2, <2>1, <2>2, <2>3 DEF r
  <2>5. c \in Nat /\ \A k \in 1..c : k <= r /\ InOrder(T)[k] = q[k] /\ q[k] \in T
    BY <1>12, <2>4, FirstOf
  <2> QED
    BY <2>5 DEF r
<1>14. Len(ends) = c
  <2>1. T \subseteq Int
    BY <1>8
  <2> QED
    BY <1>4, <1>12, <2>1, InOrderIs
<1> HIDE DEF c
<1>15. Len(ends) \in 0..(A + 1)
  <2>1. c # 0 => c \in 1..c
    BY <1>13
  <2> QED
    BY <1>13, <1>14, <2>1
<1>16. ASSUME NEW k \in 1..Len(ends)
       PROVE  /\ k \in 1..(A + 1) /\ ends[k] = q[k]
              /\ ends[k] \in 1..N /\ i <= ends[k]
              /\ b[ends[k]] = M[k] /\ z[ends[k]] = M[k]
  <2>1. k \in 1..(A + 1) /\ ends[k] = q[k] /\ q[k] \in T
    BY <1>4, <1>13, <1>14
  <2>2. q[k] \in 1..N /\ i <= q[k]
    BY <1>8, <2>1
  <2>3. b[q[k]] = M[k]
    <3>1. q[k] <= q[k]
      BY <2>2
    <3> QED
      BY <1>11, <2>1, <3>1
  <2>4. z[q[k]] = b[q[k]]
    BY <1>10, <2>1
  <2> QED
    BY <2>1, <2>2, <2>3, <2>4
<1>17. ASSUME NEW j \in 1..Len(ends), NEW k \in 1..Len(ends), j < k
       PROVE  ends[j] < ends[k]
  <2>1. j \in 1..(A + 1) /\ k \in 1..(A + 1) /\ ends[j] = q[j] /\ ends[k] = q[k]
    BY <1>16
  <2> QED
    BY <1>2, <1>17, <2>1 DEF Rises
<1> QED
  BY <1>15, <1>16, <1>17 DEF AreEnds

(* What is read after a record's detail: its answers, as far as the file   *)
(* reaches, and where the next record begins, unless the file ends before. *)
LEMMA AnswersAre ==
  ASSUME CR # LF, NEW P, NEW lines, NEW b, NEW z, AreLines(P, lines, b, z),
         NEW c, IsSeq(c.answers), NEW m, Record(P, c, m),
         NEW i \in 1..Len(lines), b[i] = m[2] + 2,
         NEW next, next = ParseAnswers(lines, i).next
  PROVE  /\ IsPrefix(ParseAnswers(lines, i).answers, NotEmpty(c.answers))
         /\ \/ next = Len(lines) + 1
            \/ next \in 1..Len(lines) /\ b[next] = m[Len(c.answers) + 2] + 5
<1> DEFINE N == Len(lines)
           A == Len(c.answers)
           end == EndOf(lines, i, <<CR, CR>>)
           ends == Places(lines, <<CR>>, i, end - 1)
           first(k) == IF k = 1 THEN i ELSE ends[k - 1] + 1
           answers == [k \in 1..Len(ends) |-> WithoutLast(Text(lines, first(k), ends[k] - 1))]
           M == AnswerEnds(m, A)
<1>0. N \in Nat /\ Len(P) \in Nat /\ A \in Nat
  BY IsSeqFacts DEF AreLines
<1>1. /\ ParseAnswers(lines, i).answers = NotEmpty(answers)
      /\ next = After(lines, end)
  BY DEF ParseAnswers
<1>2. Marks(P, A + 2, m)
  BY DEF Record
<1>3. \A k \in 1..(A + 2) : m[k] <= Len(P) => SubSeq(P, m[k - 1] + 2, m[k] - 2) = TextOf(c, k)
  BY DEF Record
<1> HIDE DEF A
<1>4. AreAnswerEnds(m, A, M)
  BY <1>0, <1>2, AnswerEndsRise
<1> HIDE DEF M, end
<1>5. /\ Len(ends) \in 0..(A + 1)
      /\ \A k \in 1..Len(ends) : /\ ends[k] \in 1..N /\ i <= ends[k]
                                 /\ b[ends[k]] = M[k] /\ z[ends[k]] = M[k]
      /\ \A j, k \in 1..Len(ends) : j < k => ends[j] < ends[k]
  <2>1. /\ A \in Nat /\ Marks(P, A + 2, m) /\ AreAnswerEnds(m, A, M)
        /\ b[i] = m[2] + 2 /\ end = EndOf(lines, i, <<CR, CR>>)
    BY <1>0, <1>2, <1>4 DEF end
  <2> DEFINE q == ends
  <2>2. q = Places(lines, <<CR>>, i, end - 1)
    OBVIOUS
  <2> HIDE DEF q
  <2>3. AreEnds(q, lines, b, z, i, A, M)
    BY <2>1, <2>2, EndsOfAnswers
  <2> QED
    BY <2>3 DEF q, AreEnds
<1>6. /\ M[0] = m[2] /\ M[A] = m[A + 2] /\ M[A + 1] = m[A + 2] + 2
      /\ \A k \in 1..A : M[k] = m[k + 2] /\ M[k - 1] = m[k + 1]
      /\ \A k \in 0..(A + 1) : M[k] \in Int
  BY <1>4 DEF AreAnswerEnds
<1> DEFINE s == Len(ends)
<1> HIDE DEF ends
<1>7. ASSUME NEW k \in 1..s
      PROVE  /\ first(k) \in 1..N /\ first(k) <= ends[k] /\ b[first(k)] = M[k - 1] + 2
             /\ ends[k] \in 1..N /\ b[ends[k]] = M[k] /\ M[k] <= Len(P)
  <2>1. ends[k] \in 1..N /\ i <= ends[k] /\ b[ends[k]] = M[k] /\ z[ends[k]] = M[k]
    BY <1>5
  <2>2. M[k] <= Len(P)
    <3>1. z[ends[k]] <= Len(P)
      BY <2>1 DEF AreLines
    <3> QED
      BY <2>1, <3>1
  <2>3. first(k) \in 1..N /\ first(k) <= ends[k] /\ b[first(k)] = M[k - 1] + 2
    <3>1. CASE k = 1
      <4>1. k - 1 = 0 /\ first(k) = i
        BY <3>1
      <4> QED
        BY <1>6, <2>1, <4>1
    <3>2. CASE k # 1
      <4> DEFINE j == ends[k - 1]
      <4>1. k - 1 \in 1..s /\ k - 1 < k
        BY <1>5, <3>2
      <4>2. j \in 1..N /\ j < ends[k] /\ z[j] = M[k - 1]
        BY <1>5, <4>1
      <4>3. first(k) = j + 1
        BY <3>2
      <4> HIDE DEF j, first
      <4>4. j \in 1..(N - 1) /\ j + 1 \in 1..N /\ j + 1 <= ends[k]
        BY <1>0, <2>1, <4>2
      <4>5. b[j + 1] = z[j] + 2
        BY <4>4 DEF AreLines
      <4> QED
        BY <4>2, <4>3, <4>4, <4>5
    <3> QED
      BY <3>1, <3>2
  <2> QED
    BY <2>1, <2>2, <2>3
<1>8. answers = [k \in 1..s |-> answers[k]]
  BY Zenon
<1>9. ASSUME NEW k \in 1..s PROVE answers[k] = SubSeq(P, M[k - 1] + 2, M[k] - 2)
  <2>1. answers[k] = WithoutLast(Text(lines, first(k), ends[k] - 1))
    OBVIOUS
  <2> DEFINE f == first(k)
             e == ends[k]
  <2>2. /\ f \in 1..N /\ f <= e /\ b[f] = M[k - 1] + 2
        /\ e \in 1..N /\ b[e] = M[k]
    BY <1>7
  <2> HIDE DEF f, e
  <2>3. WithoutLast(Text(lines, f, e - 1)) = SubSeq(P, b[f], b[e] - 2)
    BY <2>2, TextIs
  <2>4. WithoutLast(Text(lines, f, e - 1)) = SubSeq(P, M[k - 1] + 2, M[k] - 2)
    BY <2>2, <2>3
  <2> QED
    BY <2>1, <2>4 DEF f, e
<1> HIDE DEF answers, first
<1>10. s \in Nat /\ s <= A + 1
  BY <1>0, <1>5
<1>11. ASSUME NEW k \in 1..s
       PROVE  IF k <= A THEN answers[k] = c.answers[k] ELSE answers[k] = << >>
  <2>1. CASE k <= A
    <3> DEFINE a == k + 2
    <3>1. a \in 1..(A + 2) /\ a - 1 = k + 1 /\ k \in 1..A /\ a # 1 /\ a # 2 /\ a - 2 = k
      BY <1>0, <2>1
    <3>2. M[k] = m[a] /\ M[k - 1] = m[a - 1]
      BY <1>6, <3>1
    <3> HIDE DEF a
    <3>3. m[a] <= Len(P)
      BY <1>7, <3>2
    <3>4. SubSeq(P, m[a - 1] + 2, m[a] - 2) = TextOf(c, a)
      BY <1>3, <3>1, <3>3
    <3>5. TextOf(c, a) = c.answers[k]
      BY <3>1 DEF TextOf
    <3> QED
      BY <1>9, <2>1, <3>2, <3>4, <3>5
  <2>2. CASE k > A
    <3> DEFINE x == M[k - 1] + 2
               y == M[k] - 2
               q == SubSeq(P, x, y)
    <3>1. k = A + 1 /\ k - 1 = A
      BY <1>0, <1>10, <2>2
    <3>2. M[k - 1] = m[A + 2] /\ M[k] = m[A + 2] + 2 /\ m[A + 2] \in Int
      <4>1. A \in 0..(A + 1)
        BY <1>0
      <4> QED
        BY <1>6, <3>1, <4>1
    <3>3. x \in Int /\ y \in Int /\ ~(x <= y)
      BY <3>2
    <3> HIDE DEF x, y
    <3>4. IsSeq(q) /\ Len(q) = 0
      BY <3>3, SubSeqIsSeq
    <3> HIDE DEF q
    <3>5. q = << >>
      BY <3>4, NothingIs
    <3>6. answers[k] = q
      BY <1>9 DEF q, x, y
    <3> QED
      BY <1>0, <1>10, <2>2, <3>5, <3>6
  <2>3. k <= A \/ k > A
    BY <1>0
  <2> QED
    BY <2>1, <2>2, <2>3
<1>12. IsSeq(answers) /\ Len(answers) = s
  BY <1>8, <1>10, FunctionIsSeq
<1>13. IsPrefix(NotEmpty(answers), NotEmpty(c.answers))
  <2> DEFINE long == c.answers
  <2>1. IsSeq(long) /\ Len(long) = A
    BY DEF A
  <2> HIDE DEF long
  <2>2. Len(answers) <= Len(long) + 1
    BY <1>10, <1>12, <2>1
  <2>3. \A k \in 1..Len(answers) : IF k <= Len(long) THEN answers[k] = long[k] ELSE answers[k] = << >>
    BY <1>11, <1>12, <2>1 DEF long
  <2>4. IsPrefix(NotEmpty(answers), NotEmpty(long))
    BY <1>12, <2>1, <2>2, <2>3, NotEmptyOfPrefix
  <2> QED
    BY <2>4 DEF long
<1>14. IF m[A + 2] + 3 <= Len(P)
         THEN end \in 1..N /\ i <= end /\ b[end] = m[A + 2] + 2 /\ z[end] = m[A + 2] + 3
         ELSE end = N + 1
  <2> DEFINE n == A + 2
             a == 2
  <2>1. n \in Nat /\ n # 0 /\ a \in 0..n /\ b[i] = m[a] + 2 /\ end = EndOf(lines, i, <<CR, CR>>)
    BY <1>0 DEF end
  <2>2. Marks(P, n, m)
    BY <1>2
  <2> HIDE DEF n, a
  <2>3. IF m[n] + 3 <= Len(P)
          THEN end \in 1..N /\ i <= end /\ b[end] = m[n] + 2 /\ z[end] = m[n] + 3
          ELSE end = N + 1
    BY <2>1, <2>2, EndOfRecord
  <2> QED
    BY <2>3 DEF n
<1>15. \/ next = N + 1
       \/ next \in 1..N /\ b[next] = m[A + 2] + 5
  <2>1. end \in 1..(N + 1)
    BY <1>0, <1>14
  <2>2. \/ next = N + 1
        \/ next = end + 1 /\ end + 1 \in 1..N /\ end \in 1..N /\ b[end + 1] = z[end] + 2
    BY <1>1, <2>1, NextLine
  <2>3. CASE next # N + 1
    <3>1. next \in 1..N /\ end \in 1..N /\ b[next] = z[end] + 2
      BY <2>2, <2>3
    <3>2. end # N + 1
      BY <1>0, <3>1
    <3>3. z[end] = m[A + 2] + 3
      BY <1>14, <3>2
    <3>4. m[A + 2] \in Int
      <4>1. A + 2 \in 0..(A + 2)
        BY <1>0
      <4> QED
        BY <1>2, <4>1 DEF Marks
    <3>5. z[end] + 2 = m[A + 2] + 5
      BY <3>3, <3>4
    <3> QED
      BY <3>1, <3>5
  <2> QED
    BY <2>3
<1> QED
  BY <1>1, <1>13, <1>15 DEF A

-----------------------------------------------------------------------------
(* Whatever the file, what is read of it was crawled.                      *)

IsCrawled(text, answers) ==
  \E c \in Range(Crawled) :
    text = c.title /\ answers # << >> /\ IsPrefix(answers, NotEmpty(c.answers))

AreCrawled(entries) ==
  IsSeq(entries) /\ \A e \in Range(entries) : IsCrawled(e.question, e.answers)

LEMMA NoneCrawled == AreCrawled(<< >>)
BY NothingIsSeq DEF AreCrawled

LEMMA OneMoreCrawled ==
  ASSUME NEW e, IsCrawled(e.question, e.answers), NEW rest, AreCrawled(rest)
  PROVE  AreCrawled(<<e>> \o rest)
<1>1. <<e>> \in Seq({e})
  OBVIOUS
<1>2. IsSeq(<<e>>) /\ IsSeq(rest)
  BY <1>1, SeqIsSeq DEF AreCrawled
<1>3. Range(<<e>>) = {e}
  BY DEF Range
<1>4. IsSeq(<<e>> \o rest) /\ Range(<<e>> \o rest) = {e} \cup Range(rest)
  BY <1>2, <1>3, ConcatIsSeq
<1> QED
  BY <1>4 DEF AreCrawled

(* From the first line of a record, what is read is of that record, and    *)
(* reading goes on at the next.                                            *)
LEMMA RecordIsRead ==
  ASSUME CR # LF, NEW P, NEW lines, NEW b, NEW z, AreLines(P, lines, b, z),
         NEW off, AreRecords(P, off), NEW j \in 1..Len(Crawled),
         NEW i \in 1..Len(lines), b[i] = off[j] + 1
  PROVE  /\ AnswersAt(lines, i) # << >> => IsCrawled(QuestionAt(lines, i), AnswersAt(lines, i))
         /\ \/ NextAt(lines, i) = Len(lines) + 1
            \/ NextAt(lines, i) \in 1..Len(lines) /\ b[NextAt(lines, i)] = off[j + 1] + 1
<1> DEFINE N == Len(lines)
           c == Crawled[j]
           first == ParseQuestion(lines, i).next
<1>0. N \in Nat
  BY DEF AreLines
<1>1. c \in Range(Crawled) /\ IsSeq(c.answers) /\ Len(c.answers) \in Nat
  <2>1. c \in Range(Crawled)
    BY QuestionSearchAssumption, IsSeqFacts
  <2>2. IsSeq(c.answers)
    BY <2>1, QuestionSearchAssumption
  <2> QED
    BY <2>1, <2>2, IsSeqFacts
<1>2. PICK m : /\ m[0] = off[j] - 1 /\ Record(P, c, m)
               /\ m[Len(c.answers) + 2] + 4 = off[j + 1]
  BY DEF AreRecords
<1>3. off[j] \in Int /\ m[Len(c.answers) + 2] \in Int
  <2>1. Marks(P, Len(c.answers) + 2, m) /\ Len(c.answers) + 2 \in 0..(Len(c.answers) + 2)
    BY <1>1, <1>2 DEF Record
  <2>2. j \in 1..(Len(Crawled) + 1)
    BY QuestionSearchAssumption, IsSeqFacts
  <2> DEFINE n == Len(c.answers) + 2
  <2>3. m[n] \in Int
    <3>1. n \in 0..n /\ Marks(P, n, m)
      BY <2>1
    <3> HIDE DEF n
    <3> QED
      BY <3>1 DEF Marks
  <2>4. off[j] \in Nat
    BY <2>2 DEF AreRecords
  <2> QED
    BY <2>3, <2>4
<1>4. b[i] = m[0] + 2
  BY <1>2, <1>3
<1> HIDE DEF c
<1>5. /\ AnswersAt(lines, i) = ParseAnswers(lines, first).answers
      /\ NextAt(lines, i) = ParseAnswers(lines, first).next
  BY DEF AnswersAt, NextAt
<1>6. \/ first = N + 1
      \/ first \in 1..N /\ b[first] = m[2] + 2 /\ QuestionAt(lines, i) = c.title
  BY <1>1, <1>2, <1>4, QuestionIs
<1> HIDE DEF first
<1>7. CASE first = N + 1
  BY <1>0, <1>5, <1>7, NothingFollows
<1>8. CASE first \in 1..N /\ b[first] = m[2] + 2 /\ QuestionAt(lines, i) = c.title
  <2> DEFINE next == ParseAnswers(lines, first).next
             answers == ParseAnswers(lines, first).answers
  <2>1. /\ IsPrefix(answers, NotEmpty(c.answers))
        /\ \/ next = N + 1
           \/ next \in 1..N /\ b[next] = m[Len(c.answers) + 2] + 5
    BY <1>1, <1>2, <1>8, AnswersAre
  <2>2. answers # << >> => IsCrawled(QuestionAt(lines, i), answers)
    <3> HIDE DEF answers
    <3> QED
      BY <1>1, <1>8, <2>1 DEF IsCrawled
  <2>3. m[Len(c.answers) + 2] + 5 = off[j + 1] + 1
    <3> DEFINE x == m[Len(c.answers) + 2]
    <3>1. x \in Int /\ x + 4 = off[j + 1]
      BY <1>2, <1>3 DEF c
    <3> HIDE DEF x
    <3>2. x + 5 = off[j + 1] + 1
      BY <3>1
    <3> QED
      BY <3>2 DEF x
  <2> HIDE DEF next, answers
  <2> QED
    BY <1>5, <2>1, <2>2, <2>3 DEF next, answers
<1> QED
  BY <1>6, <1>7, <1>8

(* From a line after the last record nothing is read.                      *)
LEMMA NothingIsRead ==
  ASSUME NEW P, NEW lines, NEW b, NEW z, AreLines(P, lines, b, z),
         NEW i \in 1..Len(lines), b[i] > Len(P)
  PROVE  AnswersAt(lines, i) = << >> /\ NextAt(lines, i) = Len(lines) + 1
<1> DEFINE N == Len(lines)
           first == ParseQuestion(lines, i).next
<1>1. N \in Nat /\ Len(P) \in Nat
  BY IsSeqFacts DEF AreLines
<1>2. b[i] \in Int /\ z[i] \in Int /\ b[i] <= z[i] + 1
  BY DEF AreLines
<1>3. i = N
  <2> SUFFICES ASSUME i # N PROVE FALSE
    OBVIOUS
  <2>1. i \in 1..(N - 1)
    BY <1>1
  <2>2. z[i] < Len(P)
    BY <2>1 DEF AreLines
  <2> QED
    BY <1>1, <1>2, <2>2
<1>4. first \in (i + 1)..(N + 1)
  BY <1>1, NextAtIs
<1>5. /\ AnswersAt(lines, i) = ParseAnswers(lines, first).answers
      /\ NextAt(lines, i) = ParseAnswers(lines, first).next
  BY DEF AnswersAt, NextAt
<1> HIDE DEF first
<1>6. first = N + 1
  BY <1>1, <1>3, <1>4
<1> QED
  BY <1>1, <1>5, <1>6, NothingFollows

(* Reading begins where a record does, or where none is left.              *)
AtRecord(lines, b, off, i) ==
  \/ i = Len(lines) + 1
  \/ \E j \in 1..(Len(Crawled) + 1) : b[i] = off[j] + 1

LEMMA ReadingIsAtRecords ==
  ASSUME CR # LF, NEW P, NEW lines, NEW b, NEW z, AreLines(P, lines, b, z),
         NEW off, AreRecords(P, off),
         NEW i \in 1..Len(lines), AtRecord(lines, b, off, i)
  PROVE  /\ AnswersAt(lines, i) # << >> => IsCrawled(QuestionAt(lines, i), AnswersAt(lines, i))
         /\ AtRecord(lines, b, off, NextAt(lines, i))
<1> DEFINE J == Len(Crawled)
<1>1. J \in Nat /\ Len(lines) \in Nat /\ Len(P) \in Nat
  BY QuestionSearchAssumption, IsSeqFacts DEF AreLines
<1>2. PICK j \in 1..(J + 1) : b[i] = off[j] + 1
  BY <1>1 DEF AtRecord
<1>3. CASE j \in 1..J
  <2> DEFINE next == NextAt(lines, i)
  <2>1. /\ AnswersAt(lines, i) # << >> => IsCrawled(QuestionAt(lines, i), AnswersAt(lines, i))
        /\ \/ next = Len(lines) + 1
           \/ next \in 1..Len(lines) /\ b[next] = off[j + 1] + 1
    BY <1>2, <1>3, RecordIsRead
  <2> HIDE DEF next
  <2>2. j + 1 \in 1..(J + 1)
    BY <1>1, <1>3
  <2>3. AtRecord(lines, b, off, next)
    BY <2>1, <2>2 DEF AtRecord
  <2> QED
    BY <2>1, <2>3 DEF next
<1>4. CASE j \notin 1..J
  <2>1. j = J + 1
    BY <1>1, <1>4
  <2>2. off[j] >= Len(P) /\ off[j] \in Nat
    BY <2>1 DEF AreRecords
  <2>3. b[i] > Len(P)
    BY <1>1, <1>2, <2>2
  <2>4. AnswersAt(lines, i) = << >> /\ NextAt(lines, i) = Len(lines) + 1
    BY <2>3, NothingIsRead
  <2> QED
    BY <2>4 DEF AtRecord
<1> QED
  BY <1>3, <1>4

LEMMA EntriesAreCrawled ==
  ASSUME CR # LF, NEW n \in 0..Len(Contents(Crawled)),
         NEW P, P = SubSeq(Contents(Crawled), 1, n)
  PROVE  AreCrawled(Entries(P))
<1> DEFINE lines == Lines(P)
           N == Len(lines)
<1>1. PICK off : AreRecords(P, off)
  BY FileIsRecords
<1>2. IsSeq(P)
  BY <1>1 DEF AreRecords
<1>3. PICK b, z : AreLines(P, lines, b, z)
  BY <1>2, LinesAre
<1>4. N \in Nat /\ 1 <= N /\ b[1] = 1
  BY <1>3 DEF AreLines
<1>5. PICK f : f = EntriesFrom(lines, f) /\ Entries(P) = f[1]
  BY <1>4, EntriesExist
<1> HIDE DEF lines
<1> DEFINE T == {i \in 1..(N + 1) : AtRecord(lines, b, off, i) => AreCrawled(f[i])}
<1>6. ASSUME NEW i \in 1..(N + 1), \A j \in (i + 1)..(N + 1) : j \in T
      PROVE  i \in T
  <2> SUFFICES ASSUME AtRecord(lines, b, off, i) PROVE AreCrawled(f[i])
    OBVIOUS
  <2>1. f[i] = EntriesFrom(lines, f)[i]
    BY <1>5, Zenon
  <2>2. CASE i > N
    <3>1. f[i] = << >>
      BY <2>1, <2>2 DEF EntriesFrom
    <3> QED
      BY <3>1, NoneCrawled
  <2>3. CASE ~(i > N)
    <3> DEFINE next == NextAt(lines, i)
               e == EntryAt(lines, i)
    <3>1. i \in 1..N
      BY <1>4, <2>3
    <3>2. next \in (i + 1)..(N + 1)
      BY <1>4, <3>1, NextAtIs
    <3>3. /\ AnswersAt(lines, i) # << >> => IsCrawled(QuestionAt(lines, i), AnswersAt(lines, i))
          /\ AtRecord(lines, b, off, next)
      BY <1>1, <1>3, <3>1, ReadingIsAtRecords DEF lines
    <3>4. AreCrawled(f[next])
      BY <1>6, <3>2, <3>3
    <3>5. CASE QuestionAt(lines, i) = << >> \/ AnswersAt(lines, i) = << >>
      <4>1. f[i] = f[next]
        BY <2>1, <2>3, <3>5 DEF EntriesFrom
      <4> QED
        BY <3>4, <4>1
    <3>6. CASE ~(QuestionAt(lines, i) = << >> \/ AnswersAt(lines, i) = << >>)
      <4>1. f[i] = <<e>> \o f[next]
        BY <2>1, <2>3, <3>6 DEF EntriesFrom
      <4>2. IsCrawled(e.question, e.answers)
        BY <3>3, <3>6 DEF EntryAt
      <4> HIDE DEF next, e
      <4> QED
        BY <3>4, <4>1, <4>2, OneMoreCrawled
    <3> QED
      BY <3>5, <3>6
  <2> QED
    BY <2>2, <2>3
<1>7. 1 \in Int /\ N + 1 \in Int /\ 1 \in 1..(N + 1)
  BY <1>4
<1>8. \A i \in 1..(N + 1) : i \in T
  <2> HIDE DEF T, N
  <2> QED
    BY <1>6, <1>7, Downwards
<1>9. AtRecord(lines, b, off, 1)
  <2>1. off[1] = 0
    BY <1>1 DEF AreRecords
  <2>2. Len(Crawled) \in Nat
    BY QuestionSearchAssumption, IsSeqFacts
  <2>3. b[1] = off[1] + 1
    BY <1>4, <2>1
  <2>4. 1 \in 1..(Len(Crawled) + 1)
    BY <2>2
  <2> QED
    BY <2>3, <2>4 DEF AtRecord
<1> QED
  BY <1>5, <1>7, <1>8, <1>9

LEMMA FilesAreCrawled == \A entries \in Files : AreCrawled(entries)
<1> SUFFICES ASSUME NEW n \in 0..Len(Contents(Crawled))
             PROVE  AreCrawled(Entries(SubSeq(Contents(Crawled), 1, n)))
  BY DEF Files
<1> QED
  BY CrawledTextsAssumption, EntriesAreCrawled

-----------------------------------------------------------------------------
(* The tables hold as many answers as questions, and only texts asked or   *)
(* crawled.                                                                *)

IsStored(text, answers) ==
  \/ text \in Questions /\ answers = << >>
  \/ IsCrawled(text, answers)

AreStored(db) ==
  /\ IsSeq(db.question) /\ IsSeq(db.answer) /\ Len(db.answer) = Len(db.question)
  /\ \A id \in 1..Len(db.question) : IsStored(db.question[id], db.answer[id])

LEMMA InsertedIsStored ==
  ASSUME NEW db, AreStored(db), NEW text, NEW answers, IsStored(text, answers)
  PROVE  AreStored(Inserted(db, text, answers))
<1> DEFINE new == Inserted(db, text, answers)
           n == Len(db.question)
<1>1. new.question = Append(db.question, text) /\ new.answer = Append(db.answer, answers)
  BY DEF Inserted, Stored
<1> HIDE DEF new
<1>2. n \in Nat /\ IsSeq(db.question) /\ IsSeq(db.answer) /\ Len(db.answer) = n
  BY IsSeqFacts DEF AreStored
<1>3. /\ IsSeq(new.question) /\ Len(new.question) = n + 1 /\ new.question[n + 1] = text
      /\ \A id \in 1..n : new.question[id] = db.question[id]
  BY <1>1, <1>2, AppendIsSeq
<1>4. /\ IsSeq(new.answer) /\ Len(new.answer) = n + 1 /\ new.answer[n + 1] = answers
      /\ \A id \in 1..n : new.answer[id] = db.answer[id]
  BY <1>1, <1>2, AppendIsSeq
<1>5. ASSUME NEW id \in 1..(n + 1)
      PROVE  IsStored(new.question[id], new.answer[id])
  <2>1. CASE id = n + 1
    BY <1>3, <1>4, <2>1
  <2>2. CASE id # n + 1
    <3>1. id \in 1..n
      BY <1>2, <2>2
    <3>2. IsStored(db.question[id], db.answer[id])
      BY <3>1 DEF AreStored
    <3> QED
      BY <1>3, <1>4, <3>1, <3>2
  <2> QED
    BY <2>1, <2>2
<1>6. AreStored(new)
  BY <1>3, <1>4, <1>5 DEF AreStored
<1> QED
  BY <1>6 DEF new

LEMMA AddedAreStored ==
  ASSUME NEW db, AreStored(db), NEW entries, AreCrawled(entries),
         NEW f, f = AddedUpTo(db, entries, f, Len(entries))
  PROVE  AreStored(f[Len(entries)])
<1> DEFINE n == Len(entries)
           T == {k \in 0..n : AreStored(f[k])}
<1>1. n \in Nat /\ \A k \in 1..n : IsStored(entries[k].question, entries[k].answers)
  BY IsSeqFacts DEF AreCrawled, IsStored
<1>2. ASSUME NEW k \in 0..n, \A j \in 0..(k - 1) : j \in T
      PROVE  k \in T
  <2>1. f[k] = AddedUpTo(db, entries, f, n)[k]
    BY Zenon
  <2>2. f[k] = IF k = 0 THEN db ELSE Added(f[k - 1], entries[k])
    BY <2>1 DEF AddedUpTo
  <2>3. CASE k = 0
    BY <2>2, <2>3
  <2>4. CASE k # 0
    <3>1. k - 1 \in 0..(k - 1) /\ k \in 1..n
      BY <1>1, <2>4
    <3>2. AreStored(f[k - 1])
      BY <1>2, <3>1
    <3>3. AreStored(Inserted(f[k - 1], entries[k].question, entries[k].answers))
      BY <1>1, <3>1, <3>2, InsertedIsStored
    <3> QED
      BY <2>2, <2>4, <3>2, <3>3 DEF Added
  <2> QED
    BY <2>3, <2>4
<1>3. 0 \in Int /\ n \in Int /\ n \in 0..n
  BY <1>1
<1>4. \A k \in 0..n : k \in T
  <2> HIDE DEF T, n
  <2> QED
    BY <1>2, <1>3, Upwards
<1> QED
  BY <1>3, <1>4

LEMMA InitStored == Init => AreStored(Tables)
<1> SUFFICES ASSUME Init PROVE AreStored(Tables)
  OBVIOUS
<1>1. question = << >> /\ answer = << >>
  BY DEF Init
<1>2. Len(<< >>) = 0
  OBVIOUS
<1> QED
  BY <1>1, <1>2, NothingIsSeq DEF AreStored, Tables

LEMMA BecomeStored ==
  ASSUME NEW db, AreStored(db), BecomeTables(db)
  PROVE  AreStored(Tables)'
BY DEF BecomeTables, AreStored, Tables

LEMMA NextStored == AreStored(Tables) /\ [Next]_vars => AreStored(Tables)'
<1> SUFFICES ASSUME AreStored(Tables), [Next]_vars PROVE AreStored(Tables)'
  OBVIOUS
<1>1. ASSUME NEW text \in Questions, InsertQuestion(text)
      PROVE  AreStored(Tables)'
  <2>1. AreStored(Inserted(Tables, text, << >>))
    BY InsertedIsStored DEF IsStored
  <2> QED
    BY <1>1, <2>1, BecomeStored DEF InsertQuestion
<1>2. ASSUME NEW entries \in Files, UpdateDataBase(entries)
      PROVE  AreStored(Tables)'
  <2>1. AreCrawled(entries)
    BY FilesAreCrawled
  <2>2. Len(entries) \in Nat
    BY <2>1, IsSeqFacts DEF AreCrawled
  <2>3. PICK f : f = AddedUpTo(Tables, entries, f, Len(entries)) /\ BecomeTables(f[Len(entries)])
    BY <1>2, <2>2, UpdateIs
  <2>4. AreStored(f[Len(entries)])
    BY <2>1, <2>3, AddedAreStored
  <2> QED
    BY <2>3, <2>4, BecomeStored
<1>3. ASSUME NEW key \in Keys, QueryQuestion(key)
      PROVE  AreStored(Tables)'
  <2>1. question' = question /\ answer' = answer
    BY <1>3 DEF QueryQuestion, tables
  <2> QED
    BY <2>1 DEF AreStored, Tables
<1>4. CASE UNCHANGED vars
  <2>1. question' = question /\ answer' = answer
    BY <1>4 DEF vars, tables
  <2> QED
    BY <2>1 DEF AreStored, Tables
<1> QED
  BY <1>1, <1>2, <1>3, <1>4 DEF Next

(* Wherever the crawler's file ends, and whatever it and the clients asked *)
(* before, the table holds nothing but the clients' questions and those    *)
(* crawled, whole, with answers found for them, whole and in order from    *)
(* the first.                                                              *)
THEOREM StoredAsCrawledHolds == Spec => []StoredAsCrawled
<1>1. AreStored(Tables) => StoredAsCrawled
  <2> SUFFICES ASSUME AreStored(Tables), NEW id \in DOMAIN question
               PROVE  IsStored(question[id], answer[id])
    BY DEF StoredAsCrawled, IsStored, IsCrawled
  <2>1. IsSeq(question)
    BY DEF AreStored, Tables
  <2>2. id \in 1..Len(question)
    BY <2>1, IsSeqFacts
  <2> QED
    BY <2>2 DEF AreStored, Tables
<1> QED
  BY InitStored, NextStored, <1>1, PTL DEF Spec

=============================================================================
