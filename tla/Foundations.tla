---------------------------- MODULE Foundations -----------------------------
(***************************************************************************)
(* Facts about library operators that the proofs share.  Finite sets of    *)
(* integers have a greatest and a least member, which follows from the     *)
(* well-foundedness of strict inclusion on finite sets without an          *)
(* induction.  FlattenSeq works one list at a time: the recursion behind   *)
(* it is shown to have a solution, and facts about every prefix are shown  *)
(* by looking at the least index that would violate them.                  *)
(***************************************************************************)
EXTENDS Integers, FiniteSets, Sequences, SequencesExt, FiniteSetsExt,
        FiniteSetTheorems, WellFoundedInduction, TLAPS

(* A family of subsets of a finite set that is not empty has a smallest member. *)
LEMMA MinimalSubset ==
    ASSUME NEW S, IsFiniteSet(S), NEW F, F \subseteq SUBSET S, F # {}
    PROVE  \E X \in F : \A Y \in F : Y \subseteq X => Y = X
<1>1. IsWellFoundedOn(StrictSubsetOrdering(S), FiniteSubsetsOf(S))
  BY FS_StrictSubsetOrderingWellFounded
<1>2. FiniteSubsetsOf(S) = SUBSET S
  BY FS_FiniteSubsetsOfFinite
<1>3. PICK X \in F : \A Y \in F : <<Y, X>> \notin StrictSubsetOrdering(S)
  BY <1>1, <1>2, WFMin
<1>4. \A Y \in F : Y \subseteq X => Y = X
  <2> SUFFICES ASSUME NEW Y \in F, Y \subseteq X, Y # X PROVE FALSE
    OBVIOUS
  <2>1. <<Y, X>> \in (SUBSET S) \X (SUBSET S)
    OBVIOUS
  <2> QED BY <1>3, <2>1 DEF StrictSubsetOrdering
<1> QED BY <1>4

(* A smallest set that still reaches as high as S has one member.          *)
LEMMA MaxExists ==
    ASSUME NEW S, IsFiniteSet(S), S # {}
    PROVE  S \subseteq Int => \E x \in S : \A y \in S : x >= y
<1> DEFINE F == {T \in SUBSET S : T # {} /\ \A x \in S \ T : \E y \in T : y >= x}
<1>1. F # {} /\ F \subseteq SUBSET S
  <2>1. S \in F
    OBVIOUS
  <2> QED BY <2>1
<1> HIDE DEF F
<1>2. PICK X \in F : \A Y \in F : Y \subseteq X => Y = X
  BY <1>1, MinimalSubset
<1> USE DEF F
<1> HAVE S \subseteq Int
<1>3. PICK x \in X : TRUE
  OBVIOUS
<1>4. SUFFICES ASSUME NEW y \in S, ~(x >= y) PROVE FALSE
  OBVIOUS
<1>5. PICK z \in X : z >= y
  BY <1>4
<1>6. z > x /\ z \in X /\ X \subseteq S
  BY <1>5, <1>4
<1>7. X \ {x} \in F
  BY <1>6
<1> QED BY <1>2, <1>3, <1>7

LEMMA MinExists ==
    ASSUME NEW S, IsFiniteSet(S), S # {}
    PROVE  S \subseteq Int => \E x \in S : \A y \in S : x <= y
<1> DEFINE F == {T \in SUBSET S : T # {} /\ \A x \in S \ T : \E y \in T : y <= x}
<1>1. F # {} /\ F \subseteq SUBSET S
  <2>1. S \in F
    OBVIOUS
  <2> QED BY <2>1
<1> HIDE DEF F
<1>2. PICK X \in F : \A Y \in F : Y \subseteq X => Y = X
  BY <1>1, MinimalSubset
<1> USE DEF F
<1> HAVE S \subseteq Int
<1>3. PICK x \in X : TRUE
  OBVIOUS
<1>4. SUFFICES ASSUME NEW y \in S, ~(x <= y) PROVE FALSE
  OBVIOUS
<1>5. PICK z \in X : z <= y
  BY <1>4
<1>6. z < x /\ z \in X /\ X \subseteq S
  BY <1>5, <1>4
<1>7. X \ {x} \in F
  BY <1>6
<1> QED BY <1>2, <1>3, <1>7

(* Max and Min of a finite set of integers are what they are said to be. *)
LEMMA MaxIsGreatest ==
    ASSUME NEW S, S \subseteq Int, IsFiniteSet(S), S # {}
    PROVE  Max(S) \in S /\ \A y \in S : Max(S) >= y
BY MaxExists DEF Max

LEMMA MinIsLeast ==
    ASSUME NEW S, S \subseteq Int, IsFiniteSet(S), S # {}
    PROVE  Min(S) \in S /\ \A y \in S : Min(S) <= y
BY MinExists DEF Min

(* A set of integers between two integers is finite. *)
LEMMA BoundedIsFinite ==
    ASSUME NEW a \in Int, NEW b \in Int, NEW S, S \subseteq a .. b
    PROVE  IsFiniteSet(S)
BY FS_Interval, FS_Subset

(* The members of a finite set that fewer than n others exceed are at most n. *)
LEMMA NewestAreFew ==
    ASSUME NEW S, S \subseteq Int, IsFiniteSet(S), NEW n \in Nat,
           NEW T, T \subseteq S, \A c \in T : Cardinality({d \in S : d > c}) < n
    PROVE  Cardinality(T) <= n
<1>1. IsFiniteSet(T) /\ T \subseteq Int
  BY FS_Subset
<1>2. CASE T = {}
  BY <1>2, FS_EmptySet
<1>3. CASE T # {}
  <2>1. Min(T) \in T /\ \A y \in T : Min(T) <= y
    BY <1>1, <1>3, MinIsLeast
  <2>2. PICK m \in T : \A y \in T : m <= y
    BY <2>1
  <2> DEFINE Above == {d \in S : d > m}
  <2>3. IsFiniteSet(Above) /\ T \ {m} \subseteq Above
    BY <1>1, <2>2, FS_Subset
  <2>4. Cardinality(T \ {m}) <= Cardinality(Above)
    BY <2>3, FS_Subset
  <2>5. Cardinality(T \ {m}) = Cardinality(T) - 1
    BY <1>1, <2>2, FS_RemoveElement
  <2>6. Cardinality(Above) < n
    BY <2>2
  <2>7. Cardinality(T) \in Nat /\ Cardinality(Above) \in Nat
    BY <1>1, <2>3, FS_CardinalityType
  <2> HIDE DEF Above
  <2> QED BY <2>4, <2>5, <2>6, <2>7
<1> QED BY <1>2, <1>3

-----------------------------------------------------------------------------
(* The equation FlattenSeq solves, for the first m lists.                  *)
Flattens(g, seqs, m) ==
    g = [i \in 1 .. m |-> IF i = 1 THEN seqs[i] ELSE g[i-1] \o seqs[i]]

(* A property of indices that holds of none holds of no least one.         *)
LEMMA LeastIndex ==
    ASSUME NEW n \in Nat, NEW Bad, Bad \subseteq 0 .. n, Bad # {}
    PROVE  \E m \in Bad : \A k \in 0 .. n : k < m => k \notin Bad
<1>1. 0 \in Int /\ n \in Int /\ Bad \subseteq Int
  OBVIOUS
<1>3. IsFiniteSet(Bad)
  BY <1>1, BoundedIsFinite
<1>2. PICK m \in Bad : \A k \in Bad : m <= k
  BY <1>1, <1>3, MinExists
<1> QED BY <1>1, <1>2

LEMMA LeastPlaces ==
    \A n \in Nat : \A B \in SUBSET (0 .. n) :
       B # {} => \E m \in B : \A k \in 0 .. n : k < m => k \notin B
BY LeastIndex

LEMMA FlattensExists ==
    ASSUME NEW seqs, NEW n \in Nat
    PROVE  \E g : Flattens(g, seqs, n)
<1> DEFINE Bad == {m \in 0 .. n : ~\E g : Flattens(g, seqs, m)}
<1> SUFFICES ASSUME Bad # {} PROVE FALSE
  OBVIOUS
<1>1. PICK m \in Bad : \A k \in 0 .. n : k < m => k \notin Bad
  <2> HIDE DEF Bad
  <2> SUFFICES Bad \subseteq 0 .. n
    BY LeastIndex
  <2> QED BY DEF Bad
<1>2. CASE m = 0
  <2> DEFINE g == [i \in 1 .. 0 |-> seqs[i]]
  <2>1. 1 .. 0 = {}
    OBVIOUS
  <2>2. Flattens(g, seqs, 0)
    BY <2>1 DEF Flattens
  <2> QED BY <1>1, <1>2, <2>2
<1>3. CASE m # 0
  <2>1. m \in Nat /\ m > 0 /\ m - 1 \in 0 .. n /\ m - 1 < m
    BY <1>1, <1>3
  <2>2. PICK g : Flattens(g, seqs, m - 1)
    BY <1>1, <2>1
  <2> DEFINE h == [i \in 1 .. m |-> IF i = m THEN IF m = 1 THEN seqs[1] ELSE g[m-1] \o seqs[m]
                                    ELSE g[i]]
  <2>3. ASSUME NEW i \in 1 .. m
        PROVE  h[i] = IF i = 1 THEN seqs[i] ELSE h[i-1] \o seqs[i]
    <3>1. CASE i = m
      <4>1. CASE m = 1
        BY <3>1, <4>1
      <4>2. CASE m # 1
        <5>1. m - 1 \in 1 .. m /\ m - 1 # m
          BY <2>1, <4>2
        <5> QED BY <3>1, <4>2, <5>1
      <4> QED BY <4>1, <4>2
    <3>2. CASE i # m
      <4>1. i \in 1 .. m - 1
        BY <3>2, <2>1
      <4>2. g[i] = IF i = 1 THEN seqs[i] ELSE g[i-1] \o seqs[i]
        BY <4>1, <2>2 DEF Flattens
      <4>3. i # 1 => i - 1 \in 1 .. m /\ i - 1 # m
        BY <4>1, <2>1
      <4> QED BY <3>2, <4>2, <4>3
    <3> QED BY <3>1, <3>2
  <2>4. h = [i \in 1 .. m |-> h[i]]
    OBVIOUS
  <2> HIDE DEF h
  <2>5. Flattens(h, seqs, m)
    BY <2>3, <2>4 DEF Flattens
  <2> QED BY <1>1, <2>5
<1> QED BY <1>2, <1>3

LEMMA FlattenStep ==
    ASSUME NEW seqs, NEW n \in Nat, Len(seqs) = n, n # 0
    PROVE  \E g : Flattens(g, seqs, n) /\ FlattenSeq(seqs) = g[n]
<1> DEFINE G == CHOOSE g : g = [i \in 1 .. Len(seqs) |->
                     IF i = 1 THEN seqs[i] ELSE g[i-1] \o seqs[i]]
<1>1. FlattenSeq(seqs) = G[Len(seqs)]
  BY DEF FlattenSeq
<1>2. \E g : g = [i \in 1 .. Len(seqs) |-> IF i = 1 THEN seqs[i] ELSE g[i-1] \o seqs[i]]
  BY FlattensExists DEF Flattens
<1>3. G = [i \in 1 .. Len(seqs) |-> IF i = 1 THEN seqs[i] ELSE G[i-1] \o seqs[i]]
  BY <1>2, Zenon
<1> HIDE DEF G
<1>4. Flattens(G, seqs, n)
  BY <1>3 DEF Flattens
<1> QED BY <1>1, <1>4

FirstOf(seqs, m) == [i \in 1 .. m |-> seqs[i]]

LEMMA FirstOfLen ==
    ASSUME NEW seqs, NEW m \in Nat
    PROVE  /\ Len(FirstOf(seqs, m)) = m
           /\ \A i \in 1 .. m : FirstOf(seqs, m)[i] = seqs[i]
           /\ \A k \in 0 .. m : FirstOf(FirstOf(seqs, m), k) = FirstOf(seqs, k)
<1>1. Len(FirstOf(seqs, m)) = m /\ \A i \in 1 .. m : FirstOf(seqs, m)[i] = seqs[i]
  BY DEF FirstOf
<1>2. ASSUME NEW k \in 0 .. m PROVE FirstOf(FirstOf(seqs, m), k) = FirstOf(seqs, k)
  <2>1. \A i \in 1 .. k : i \in 1 .. m
    OBVIOUS
  <2> QED BY <1>1, <2>1 DEF FirstOf
<1> QED BY <1>1, <1>2

LEMMA FlattenNothing == ASSUME NEW seqs PROVE FlattenSeq(FirstOf(seqs, 0)) = <<>>
<1>1. FirstOf(seqs, 0) = <<>>
  BY DEF FirstOf
<1> QED BY <1>1 DEF FlattenSeq

(* Solutions agree where they overlap.                                     *)
LEMMA FlattensAgree ==
    ASSUME NEW seqs, NEW n \in Nat, NEW m \in 0 .. n,
           NEW g, Flattens(g, seqs, n), NEW h, Flattens(h, FirstOf(seqs, m), m)
    PROVE  \A i \in 1 .. m : g[i] = h[i]
<1> DEFINE Bad == {i \in 1 .. m : g[i] # h[i]}
<1> SUFFICES ASSUME Bad # {} PROVE FALSE
  OBVIOUS
<1>1. PICK k \in Bad : \A i \in 0 .. m : i < k => i \notin Bad
  <2>1. Bad \subseteq 0 .. m /\ m \in Nat
    OBVIOUS
  <2> HIDE DEF Bad
  <2> QED BY <2>1, LeastIndex
<1>2. k \in 1 .. m /\ k \in 1 .. n /\ FirstOf(seqs, m)[k] = seqs[k]
  BY FirstOfLen
<1>3. /\ g[k] = IF k = 1 THEN seqs[k] ELSE g[k-1] \o seqs[k]
      /\ h[k] = IF k = 1 THEN seqs[k] ELSE h[k-1] \o seqs[k]
  BY <1>2 DEF Flattens
<1>4. k # 1 => k - 1 \in 1 .. m /\ k - 1 \in 0 .. m /\ k - 1 < k
  BY <1>2
<1>5. g[k] = h[k]
  BY <1>1, <1>3, <1>4
<1> QED BY <1>1, <1>5

(* One more list is appended at the end.                                   *)
LEMMA FlattenNext ==
    ASSUME NEW seqs, NEW n \in Nat, NEW S, seqs[n + 1] \in Seq(S)
    PROVE  FlattenSeq(FirstOf(seqs, n + 1)) = FlattenSeq(FirstOf(seqs, n)) \o seqs[n + 1]
<1> DEFINE f == FirstOf(seqs, n + 1)
           e == FirstOf(seqs, n)
<1>1. /\ Len(f) = n + 1 /\ n + 1 \in Nat /\ n + 1 # 0 /\ f[n + 1] = seqs[n + 1]
      /\ Len(e) = n /\ FirstOf(f, n) = e
  BY FirstOfLen
<1> HIDE DEF f, e
<1>2. PICK g : Flattens(g, f, n + 1) /\ FlattenSeq(f) = g[n + 1]
  BY <1>1, FlattenStep
<1>3. g[n + 1] = IF n + 1 = 1 THEN f[n + 1] ELSE g[n + 1 - 1] \o f[n + 1]
  <2>1. PICK k \in Nat : k = n + 1 /\ k \in 1 .. k
    OBVIOUS
  <2>2. g[k] = IF k = 1 THEN f[k] ELSE g[k - 1] \o f[k]
    BY <1>2, <2>1 DEF Flattens
  <2> QED BY <2>1, <2>2
<1>4. CASE n = 0
  <2>1. FlattenSeq(e) = <<>>
    BY <1>4, FlattenNothing DEF e
  <2>2. <<>> \o seqs[n + 1] = seqs[n + 1]
    OBVIOUS
  <2> QED BY <1>1, <1>2, <1>3, <1>4, <2>1, <2>2 DEF e, f
<1>5. CASE n # 0
  <2>1. PICK h : Flattens(h, e, n) /\ FlattenSeq(e) = h[n]
    BY <1>1, <1>5, FlattenStep
  <2>2. n \in 0 .. n + 1 /\ n \in 1 .. n /\ n + 1 # 1 /\ n + 1 - 1 = n
    BY <1>5
  <2>3. \A i \in 1 .. n : g[i] = h[i]
    BY <1>1, <1>2, <2>1, <2>2, FlattensAgree
  <2>4. g[n] = h[n]
    BY <2>2, <2>3
  <2> QED BY <1>1, <1>2, <1>3, <2>1, <2>2, <2>4 DEF e, f
<1> QED BY <1>4, <1>5

(* Lists of one type flatten to a list of that type.                       *)
LEMMA FlattenType ==
    ASSUME NEW seqs, NEW n \in Nat, NEW S, \A i \in 1 .. n : seqs[i] \in Seq(S)
    PROVE  FlattenSeq(FirstOf(seqs, n)) \in Seq(S)
<1> DEFINE Bad == {m \in 0 .. n : FlattenSeq(FirstOf(seqs, m)) \notin Seq(S)}
<1> SUFFICES ASSUME Bad # {} PROVE FALSE
  BY DEF Bad
<1>1. PICK m \in Bad : \A k \in 0 .. n : k < m => k \notin Bad
  <2>1. Bad \subseteq 0 .. n
    OBVIOUS
  <2> HIDE DEF Bad
  <2> QED BY <2>1, LeastIndex
<1>2. m # 0
  <2>0. <<>> \in Seq(S) /\ FlattenSeq(FirstOf(seqs, 0)) = <<>>
    BY FlattenNothing
  <2>1. FlattenSeq(FirstOf(seqs, 0)) \in Seq(S)
    BY <2>0
  <2> QED BY <1>1, <2>1
<1>3. m - 1 \in Nat /\ m - 1 \in 0 .. n /\ m - 1 < m /\ m = (m - 1) + 1 /\ m \in 1 .. n
  BY <1>1, <1>2
<1>4. PICK k \in Nat : k = m - 1
  BY <1>3
<1>5. FlattenSeq(FirstOf(seqs, k)) \in Seq(S) /\ seqs[k + 1] \in Seq(S)
  BY <1>1, <1>3, <1>4
<1>6. FlattenSeq(FirstOf(seqs, k + 1)) = FlattenSeq(FirstOf(seqs, k)) \o seqs[k + 1]
  BY <1>5, FlattenNext
<1>7. FlattenSeq(FirstOf(seqs, k + 1)) \in Seq(S)
  <2>1. PICK x \in Seq(S) : x = FlattenSeq(FirstOf(seqs, k))
    BY <1>5
  <2>2. PICK y \in Seq(S) : y = seqs[k + 1]
    BY <1>5
  <2>3. x \o y \in Seq(S)
    OBVIOUS
  <2> QED BY <1>6, <2>1, <2>2, <2>3
<1> QED BY <1>1, <1>3, <1>4, <1>7

(* Empty lists add nothing: a stretch of them leaves the result as it was. *)
LEMMA FlattenEmptyStretch ==
    ASSUME NEW seqs, NEW n \in Nat, NEW m \in 0 .. n, NEW S,
           \A i \in 1 .. m : seqs[i] \in Seq(S),
           \A i \in m + 1 .. n : seqs[i] = <<>>
    PROVE  FlattenSeq(FirstOf(seqs, n)) = FlattenSeq(FirstOf(seqs, m))
<1> DEFINE Bad == {k \in 0 .. n : k >= m /\ FlattenSeq(FirstOf(seqs, k)) # FlattenSeq(FirstOf(seqs, m))}
<1> SUFFICES ASSUME Bad # {} PROVE FALSE
  BY DEF Bad
<1>1. PICK k \in Bad : \A i \in 0 .. n : i < k => i \notin Bad
  <2>1. Bad \subseteq 0 .. n
    OBVIOUS
  <2> HIDE DEF Bad
  <2> QED BY <2>1, LeastIndex
<1>2. k # m
  BY <1>1
<1>3. k - 1 \in Nat /\ k - 1 \in 0 .. n /\ k - 1 < k /\ k - 1 >= m /\ k \in m + 1 .. n
  BY <1>1, <1>2
<1>4. PICK j \in Nat : j = k - 1
  BY <1>3
<1>5. /\ FlattenSeq(FirstOf(seqs, j)) = FlattenSeq(FirstOf(seqs, m))
      /\ seqs[j + 1] = <<>> /\ seqs[j + 1] \in Seq(S)
  <2>1. j + 1 = k
    BY <1>3, <1>4
  <2>2. FlattenSeq(FirstOf(seqs, j)) = FlattenSeq(FirstOf(seqs, m))
    BY <1>1, <1>3, <1>4
  <2>3. seqs[k] = <<>>
    BY <1>3
  <2>4. <<>> \in Seq(S)
    OBVIOUS
  <2> QED BY <2>1, <2>2, <2>3, <2>4
<1>6. FlattenSeq(FirstOf(seqs, j + 1)) = FlattenSeq(FirstOf(seqs, j)) \o seqs[j + 1]
  BY <1>5, FlattenNext
<1>7. FlattenSeq(FirstOf(seqs, m)) \in Seq(S)
  BY FlattenType
<1>8. FlattenSeq(FirstOf(seqs, j + 1)) = FlattenSeq(FirstOf(seqs, m))
  BY <1>5, <1>6, <1>7
<1> QED BY <1>1, <1>3, <1>4, <1>8

(* A single list among empty ones is the result.                           *)
LEMMA FlattenSingle ==
    ASSUME NEW seqs, NEW n \in Nat, NEW k \in 1 .. n, NEW S, seqs[k] \in Seq(S),
           \A i \in 1 .. n : i # k => seqs[i] = <<>>
    PROVE  FlattenSeq(FirstOf(seqs, n)) = seqs[k]
<1>1. PICK j \in Nat : j = k - 1
  OBVIOUS
<1>2. \A i \in 1 .. n : seqs[i] \in Seq(S)
  <2>1. <<>> \in Seq(S)
    OBVIOUS
  <2> QED BY <2>1
<1>3. FlattenSeq(FirstOf(seqs, j)) = <<>>
  <2>1. /\ 0 \in 0 .. j /\ \A i \in 1 .. 0 : seqs[i] \in Seq(S)
        /\ \A i \in 0 + 1 .. j : seqs[i] = <<>>
    BY <1>1
  <2>2. FlattenSeq(FirstOf(seqs, j)) = FlattenSeq(FirstOf(seqs, 0))
    BY <2>1, FlattenEmptyStretch
  <2> QED BY <2>2, FlattenNothing
<1>4. FlattenSeq(FirstOf(seqs, j + 1)) = <<>> \o seqs[j + 1]
  BY <1>1, <1>3, FlattenNext
<1>5. FlattenSeq(FirstOf(seqs, k)) = seqs[k]
  BY <1>1, <1>4
<1>6. FlattenSeq(FirstOf(seqs, n)) = FlattenSeq(FirstOf(seqs, k))
  <2>1. k \in 0 .. n /\ \A i \in k + 1 .. n : seqs[i] = <<>>
    OBVIOUS
  <2> QED BY <1>2, <2>1, FlattenEmptyStretch
<1> QED BY <1>5, <1>6

(* Lists of one element each flatten to the list of those elements, after  *)
(* whatever came before them.                                              *)
LEMMA FlattenOnes ==
    ASSUME NEW S, NEW seqs, NEW m \in Nat, NEW items \in Seq(S),
           \A i \in 1 .. m : seqs[i] = <<>>,
           \A i \in 1 .. Len(items) : seqs[m + i] = <<items[i]>>
    PROVE  FlattenSeq(FirstOf(seqs, m + Len(items))) = items
<1> DEFINE First(k) == SubSeq(items, 1, k)
           Bad == {k \in 0 .. Len(items) : FlattenSeq(FirstOf(seqs, m + k)) # First(k)}
<1>0. Len(items) \in Nat /\ First(Len(items)) = items /\ Len(items) \in 0 .. Len(items)
  OBVIOUS
<1> SUFFICES ASSUME Bad # {} PROVE FALSE
  <2>1. FlattenSeq(FirstOf(seqs, m + Len(items))) = First(Len(items))
    BY <1>0
  <2> HIDE DEF First
  <2> QED BY <1>0, <2>1
<1>1. PICK k \in Bad : \A i \in 0 .. Len(items) : i < k => i \notin Bad
  <2>1. Bad \subseteq 0 .. Len(items)
    OBVIOUS
  <2> HIDE DEF Bad
  <2> QED BY <1>0, <2>1, LeastIndex
<1>2. k # 0
  <2>1. FlattenSeq(FirstOf(seqs, m)) = FlattenSeq(FirstOf(seqs, 0))
    <3>1. /\ 0 \in 0 .. m /\ \A i \in 1 .. 0 : seqs[i] \in Seq(S)
          /\ \A i \in 0 + 1 .. m : seqs[i] = <<>>
      OBVIOUS
    <3> QED BY <3>1, FlattenEmptyStretch
  <2>2. First(0) = <<>>
    OBVIOUS
  <2>3. FlattenSeq(FirstOf(seqs, m)) = <<>> /\ m + 0 = m
    BY <2>1, FlattenNothing
  <2>4. FlattenSeq(FirstOf(seqs, m + 0)) = First(0)
    BY <2>2, <2>3
  <2> QED BY <1>1, <2>4
<1>3. PICK j \in 0 .. Len(items) : j + 1 = k /\ j \in Nat /\ j < k
  BY <1>0, <1>1, <1>2
<1>4. FlattenSeq(FirstOf(seqs, m + j)) = First(j)
  BY <1>1, <1>3
<1>5. k \in 1 .. Len(items) /\ items[k] \in S
  BY <1>0, <1>1, <1>2
<1>6. seqs[(m + j) + 1] = <<items[k]>> /\ <<items[k]>> \in Seq(S) /\ m + j \in Nat
  BY <1>3, <1>5
<1>7. FlattenSeq(FirstOf(seqs, (m + j) + 1)) = First(j) \o <<items[k]>>
  BY <1>4, <1>6, FlattenNext
<1>8. First(j) \o <<items[k]>> = First(k)
  BY <1>0, <1>3, <1>5
<1>9. (m + j) + 1 = m + k
  BY <1>0, <1>3
<1> QED BY <1>1, <1>7, <1>8, <1>9

(* The flattened list has the members of the lists, and no others.         *)
LEMMA FlattenMembers ==
    ASSUME NEW seqs, NEW n \in Nat, NEW S, \A i \in 1 .. n : seqs[i] \in Seq(S)
    PROVE  LET flat == FlattenSeq(FirstOf(seqs, n))
           IN  \A x : (\E j \in DOMAIN flat : flat[j] = x)
                         <=> \E i \in 1 .. n : \E k \in DOMAIN seqs[i] : seqs[i][k] = x
<1> DEFINE Flat(m) == FlattenSeq(FirstOf(seqs, m))
           Has(list, x) == \E j \in DOMAIN list : list[j] = x
           Right(m) == \A x : Has(Flat(m), x) <=> \E i \in 1 .. m : Has(seqs[i], x)
           Bad == {m \in 0 .. n : ~Right(m)}
<1>1. ASSUME NEW u \in Seq(S), NEW v \in Seq(S), NEW x
      PROVE  Has(u \o v, x) <=> Has(u, x) \/ Has(v, x)
  <2>1. /\ Len(u) \in Nat /\ Len(v) \in Nat
        /\ DOMAIN u = 1 .. Len(u) /\ DOMAIN v = 1 .. Len(v)
        /\ DOMAIN (u \o v) = 1 .. Len(u) + Len(v)
    OBVIOUS
  <2>2. ASSUME NEW j \in DOMAIN (u \o v)
        PROVE  \/ j \in DOMAIN u /\ (u \o v)[j] = u[j]
               \/ j - Len(u) \in DOMAIN v /\ (u \o v)[j] = v[j - Len(u)]
    BY <2>1
  <2>3. ASSUME NEW j \in DOMAIN u PROVE j \in DOMAIN (u \o v) /\ (u \o v)[j] = u[j]
    BY <2>1
  <2>4. ASSUME NEW j \in DOMAIN v
        PROVE  Len(u) + j \in DOMAIN (u \o v) /\ (u \o v)[Len(u) + j] = v[j]
    BY <2>1
  <2> QED BY <2>2, <2>3, <2>4
<1> SUFFICES ASSUME Bad # {} PROVE FALSE
  <2>1. n \in 0 .. n
    OBVIOUS
  <2> QED BY <2>1
<1>2. PICK m \in Bad : \A k \in 0 .. n : k < m => k \notin Bad
  <2>1. Bad \subseteq 0 .. n
    OBVIOUS
  <2> HIDE DEF Bad
  <2> QED BY <2>1, LeastIndex
<1>3. CASE m = 0
  <2>1. Flat(0) = <<>> /\ 1 .. 0 = {} /\ DOMAIN <<>> = {}
    BY FlattenNothing
  <2> HIDE DEF Flat
  <2>2. Right(0)
    BY <2>1
  <2> QED BY <1>2, <1>3, <2>2
<1>4. CASE m # 0
  <2>1. m - 1 \in Nat /\ m - 1 \in 0 .. n /\ m - 1 < m /\ m = (m - 1) + 1 /\ m \in 1 .. n
    BY <1>2, <1>4
  <2>2. PICK k \in Nat : k = m - 1
    BY <2>1
  <2>3. seqs[m] \in Seq(S) /\ Flat(k) \in Seq(S)
    <3>1. \A i \in 1 .. k : i \in 1 .. n
      BY <2>1, <2>2
    <3> QED BY <2>1, <3>1, FlattenType
  <2>4. Flat(m) = Flat(k) \o seqs[m]
    BY <2>1, <2>2, <2>3, FlattenNext
  <2>5. Right(k)
    <3>1. k \in 0 .. n /\ k \notin Bad
      BY <1>2, <2>1, <2>2
    <3> HIDE DEF Right
    <3> QED BY <3>1
  <2>6. \A i : i \in 1 .. m <=> i \in 1 .. k \/ i = m
    BY <2>1, <2>2
  <2>7. PICK u \in Seq(S) : u = Flat(k)
    BY <2>3
  <2> HIDE DEF Flat, Has
  <2>8. \A x : Has(Flat(m), x) <=> Has(u, x) \/ Has(seqs[m], x)
    BY <1>1, <2>3, <2>4, <2>7
  <2>9. Right(m)
    BY <2>5, <2>6, <2>7, <2>8
  <2> QED BY <1>2, <2>9
<1> QED BY <1>3, <1>4
=============================================================================
