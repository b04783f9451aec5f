-------------------------- MODULE StructuralProofs --------------------------
(***************************************************************************)
(* What the structural store is after each operation, each realization of  *)
(* recorded effects and each declarative target, for any number of keys    *)
(* and subjects.                                                           *)
(***************************************************************************)
EXTENDS Collection, Foundations, FiniteSetTheorems, SequenceTheorems

-----------------------------------------------------------------------------
(* Lists                                                                   *)

LEMMA ListDomain ==
    ASSUME NEW T, NEW list \in Seq(T)
    PROVE  Len(list) \in Nat /\ DOMAIN list = 1 .. Len(list) /\ \A i \in DOMAIN list : list[i] \in T
OBVIOUS

LEMMA IsList ==
    ASSUME NEW T, NEW n \in Nat, NEW list \in [1 .. n -> T]
    PROVE  list \in Seq(T) /\ Len(list) = n
OBVIOUS

LEMMA AppendIs ==
    ASSUME NEW T, NEW list \in Seq(T), NEW x \in T
    PROVE  LET longer == Append(list, x)
           IN  /\ longer \in Seq(T) /\ Len(longer) = Len(list) + 1
               /\ DOMAIN longer = DOMAIN list \cup {Len(list) + 1}
               /\ longer[Len(list) + 1] = x
               /\ \A i \in DOMAIN list : longer[i] = list[i]
               /\ ToSet(longer) = ToSet(list) \cup {x}
               /\ IsInjective(list) /\ x \notin ToSet(list) => IsInjective(longer)
<1> DEFINE longer == Append(list, x)
<1>1. /\ longer \in Seq(T) /\ Len(longer) = Len(list) + 1
      /\ DOMAIN longer = DOMAIN list \cup {Len(list) + 1}
      /\ longer[Len(list) + 1] = x
      /\ \A i \in DOMAIN list : longer[i] = list[i]
  OBVIOUS
<1> HIDE DEF longer
<1>2. Len(list) + 1 \notin DOMAIN list
  OBVIOUS
<1>3. ToSet(longer) = ToSet(list) \cup {x}
  BY <1>1 DEF ToSet
<1>4. IsInjective(list) /\ x \notin ToSet(list) => IsInjective(longer)
  BY <1>1, <1>2 DEF IsInjective, ToSet
<1> QED BY <1>1, <1>3, <1>4 DEF longer

(* Of the selection from the first n items of p.list.                      *)
WithinStep(S, r, x) == IF x \in S THEN Append(r, x) ELSE r
WithinHolds(p, n, r) ==
    /\ r \in Seq(p.type)
    /\ ToSet(r) = {p.list[i] : i \in {j \in 1 .. n : p.list[j] \in p.S}}
    /\ IsInjective(p.list) => IsInjective(r)
    /\ n > 0 /\ p.list[1] \in p.S => r # <<>> /\ r[1] = p.list[1]
    /\ r # <<>> => \E i \in 1 .. n : /\ r[Len(r)] = p.list[i]
                                     /\ \A j \in 1 .. n : j > i => p.list[j] \notin p.S
Selecting == INSTANCE Stepwise WITH Step <- WithinStep, Holds <- WithinHolds

LEMMA WithinIs ==
    ASSUME NEW T, NEW list \in Seq(T), NEW S
    PROVE  LET r == Within(list, S)
           IN  /\ r \in Seq(T) /\ ToSet(r) = ToSet(list) \cap S
               /\ IsInjective(list) => IsInjective(r)
               /\ list # <<>> /\ list[1] \in S => r # <<>> /\ r[1] = list[1]
               /\ r # <<>> => \E i \in DOMAIN list :
                                /\ r[Len(r)] = list[i]
                                /\ \A j \in DOMAIN list : j > i => list[j] \notin S
<1> DEFINE p == [type |-> T, list |-> list, S |-> S]
<1>1. Within(list, S) = Selecting!Folded(S, <<>>, list)
  BY DEF Within, Selecting!Folded, Selecting!Greatest, WithinStep, FoldLeft, MapThenFoldSet, Max
<1>2. PICK n \in Nat : n = Len(list) /\ DOMAIN list = 1 .. n
  BY ListDomain
<1>3. WithinHolds(p, 0, <<>>)
  BY DEF WithinHolds, ToSet, IsInjective
<1>4. ASSUME NEW r, NEW k \in 1 .. n, WithinHolds(p, k - 1, r)
      PROVE  WithinHolds(p, k, WithinStep(S, r, list[k]))
  <2>1. /\ r \in Seq(T)
        /\ ToSet(r) = {list[i] : i \in {j \in 1 .. k - 1 : list[j] \in S}}
        /\ IsInjective(list) => IsInjective(r)
        /\ k - 1 > 0 /\ list[1] \in S => r # <<>> /\ r[1] = list[1]
        /\ r # <<>> => \E i \in 1 .. k - 1 : /\ r[Len(r)] = list[i]
                                             /\ \A j \in 1 .. k - 1 : j > i => list[j] \notin S
    BY <1>4 DEF WithinHolds
  <2>2. 1 .. k = (1 .. k - 1) \cup {k} /\ k \notin 1 .. k - 1 /\ list[k] \in T /\ k > 0
    BY <1>2
  <2>3. CASE list[k] \in S
    <3> PICK x \in T : x = list[k]
      BY <2>2
    <3> PICK q : q = Append(r, x)
      OBVIOUS
    <3>1. /\ q \in Seq(T) /\ Len(q) = Len(r) + 1 /\ q[Len(r) + 1] = x
          /\ ToSet(q) = ToSet(r) \cup {x} /\ \A i \in DOMAIN r : q[i] = r[i]
          /\ IsInjective(r) /\ x \notin ToSet(r) => IsInjective(q)
      <4>1. r \in Seq(T)
        BY <2>1
      <4> QED BY ONLY <4>1, x \in T, q = Append(r, x), AppendIs
    <3>2. WithinStep(S, r, list[k]) = q
      BY <2>3 DEF WithinStep
    <3>3. ToSet(q) = {list[i] : i \in {j \in 1 .. k : list[j] \in S}}
      <4>1. {j \in 1 .. k : list[j] \in S} = {j \in 1 .. k - 1 : list[j] \in S} \cup {k}
        BY <2>2, <2>3
      <4>2. ToSet(q) = {list[i] : i \in {j \in 1 .. k - 1 : list[j] \in S}} \cup {list[k]}
        BY <2>1, <3>1
      <4> QED BY <4>1, <4>2
    <3>4. IsInjective(list) => IsInjective(q)
      <4>1. IsInjective(list) => x \notin ToSet(r)
        BY <1>2, <2>1, <2>2 DEF IsInjective
      <4> QED BY <2>1, <3>1, <4>1
    <3>5. q # <<>> /\ q[Len(q)] = list[k]
      BY <3>1
    <3>6. list[1] \in S => q[1] = list[1]
      <4>1. CASE k = 1
        <5>1. ToSet(r) = {}
          BY <2>1, <4>1
        <5>2. DOMAIN r = {}
          BY <5>1 DEF ToSet
        <5>3. r = <<>>
          BY <5>2, <2>1
        <5> QED BY <5>3, <3>1, <4>1
      <4>2. CASE k # 1
        <5>1. list[1] \in S => r # <<>> /\ r[1] = list[1]
          BY <2>1, <4>2
        <5>2. r # <<>> => 1 \in DOMAIN r
          BY <2>1
        <5> QED BY <3>1, <5>1, <5>2
      <4> QED BY <4>1, <4>2
    <3>7. \E i \in 1 .. k : q[Len(q)] = list[i] /\ \A j \in 1 .. k : j > i => list[j] \notin S
      <4>1. \A j \in 1 .. k : ~(j > k)
        OBVIOUS
      <4> QED BY <2>2, <3>5, <4>1
    <3> QED BY <3>1, <3>2, <3>3, <3>4, <3>5, <3>6, <3>7 DEF WithinHolds
  <2>4. CASE list[k] \notin S
    <3>1. WithinStep(S, r, list[k]) = r
      BY <2>4 DEF WithinStep
    <3>2. ToSet(r) = {list[i] : i \in {j \in 1 .. k : list[j] \in S}}
      BY <2>1, <2>2, <2>4
    <3>3. list[1] \in S => k - 1 > 0
      BY <2>2, <2>4
    <3>4. ASSUME r # <<>>
          PROVE  \E i \in 1 .. k : r[Len(r)] = list[i] /\ \A j \in 1 .. k : j > i => list[j] \notin S
      <4>1. PICK i \in 1 .. k - 1 : r[Len(r)] = list[i] /\ \A j \in 1 .. k - 1 : j > i => list[j] \notin S
        BY <2>1, <3>4
      <4>2. i \in 1 .. k /\ \A j \in 1 .. k : j > i => list[j] \notin S
        BY <2>2, <2>4, <4>1
      <4> QED BY <4>1, <4>2
    <3> QED BY <2>1, <3>1, <3>2, <3>3, <3>4 DEF WithinHolds
  <2> QED BY <2>3, <2>4
<1>5. WithinHolds(p, n, Within(list, S))
  <2>1. Selecting!PlacesAreOrdered(n)
    BY LeastPlaces DEF Selecting!PlacesAreOrdered
  <2> QED BY <1>1, <1>2, <1>3, <1>4, <2>1, Selecting!FoldKeeps
<1>6. {list[i] : i \in {j \in 1 .. n : list[j] \in S}} = ToSet(list) \cap S
  BY <1>2 DEF ToSet
<1>7. list # <<>> => n > 0
  BY <1>2
<1> QED BY <1>2, <1>5, <1>6, <1>7 DEF WithinHolds

LEMMA LeastPlace ==
    ASSUME NEW n \in Nat, NEW I \in SUBSET (1 .. n)
    PROVE  LET i == IF I # {} THEN Min(I) ELSE 0
           IN  i \in 0 .. n /\ (i = 0 <=> I = {}) /\ (i # 0 => i \in I)
<1>1. CASE I # {}
  <2>1. I \subseteq 0 .. n
    OBVIOUS
  <2>2. PICK m \in I : \A k \in 0 .. n : k < m => k \notin I
    BY <1>1, <2>1, LeastIndex
  <2>3. \E x \in I : \A y \in I : x <= y
    BY <2>1, <2>2
  <2>4. Min(I) \in I
    BY <2>3 DEF Min
  <2>5. PICK i \in I : i = Min(I)
    BY <2>4
  <2>6. i \in 1 .. n
    OBVIOUS
  <2> QED BY <1>1, <2>5, <2>6
<1> QED BY <1>1

(* r is a with b behind it, their lengths being x and y.                   *)
Joined(T, a, b, x, y, r) ==
    /\ r \in Seq(T) /\ Len(r) = x + y
    /\ \A i \in 1 .. x : r[i] = a[i]
    /\ \A i \in x + 1 .. x + y : r[i] = b[i - x]

LEMMA JoinedIs ==
    ASSUME NEW T, NEW a \in Seq(T), NEW b \in Seq(T), NEW x \in Nat, Len(a) = x, NEW y \in Nat, Len(b) = y
    PROVE  Joined(T, a, b, x, y, a \o b)
<1>1. a \o b \in Seq(T) /\ Len(a \o b) = x + y
  OBVIOUS
<1>2. \A i \in 1 .. x : (a \o b)[i] = a[i]
  OBVIOUS
<1>3. \A i \in x + 1 .. x + y : (a \o b)[i] = b[i - x]
  OBVIOUS
<1> QED BY <1>1, <1>2, <1>3 DEF Joined

LEMMA ConcatIs ==
    ASSUME NEW T, NEW a \in Seq(T), NEW b \in Seq(T)
    PROVE  /\ a \o b \in Seq(T) /\ ToSet(a \o b) = ToSet(a) \cup ToSet(b)
           /\ IsInjective(a) /\ IsInjective(b) /\ ToSet(a) \cap ToSet(b) = {} => IsInjective(a \o b)
<1> DEFINE c == a \o b
<1>1. /\ c \in Seq(T) /\ DOMAIN c = 1 .. Len(a) + Len(b)
      /\ \A i \in DOMAIN a : i \in DOMAIN c /\ c[i] = a[i]
      /\ \A i \in DOMAIN c : i > Len(a) => i - Len(a) \in DOMAIN b /\ c[i] = b[i - Len(a)]
  OBVIOUS
<1>2. \A i \in DOMAIN b : Len(a) + i \in DOMAIN c /\ c[Len(a) + i] = b[i]
  OBVIOUS
<1>3. DOMAIN a = 1 .. Len(a) /\ Len(a) \in Nat /\ DOMAIN b = 1 .. Len(b) /\ Len(b) \in Nat
  OBVIOUS
<1> HIDE DEF c
<1>4. \A i \in DOMAIN c : i <= Len(a) => i \in DOMAIN a
  BY <1>1, <1>3
<1>5. \A i \in DOMAIN c : i > Len(a) \/ i <= Len(a)
  BY <1>1, <1>3
<1>6. ToSet(c) = ToSet(a) \cup ToSet(b)
  BY <1>1, <1>2, <1>4, <1>5 DEF ToSet
<1>7. ASSUME IsInjective(a), IsInjective(b), ToSet(a) \cap ToSet(b) = {} PROVE IsInjective(c)
  <2> SUFFICES ASSUME NEW i \in DOMAIN c, NEW j \in DOMAIN c, c[i] = c[j] PROVE i = j
    BY DEF IsInjective
  <2>1. CASE i <= Len(a) /\ j <= Len(a)
    BY <1>1, <1>4, <1>7, <2>1 DEF IsInjective
  <2>2. CASE i > Len(a) /\ j > Len(a)
    <3>1. i - Len(a) = j - Len(a)
      BY <1>1, <1>7, <2>2 DEF IsInjective
    <3> QED BY <1>1, <1>3, <3>1
  <2>a. \A x \in DOMAIN c : x <= Len(a) => c[x] \in ToSet(a)
    BY <1>1, <1>4 DEF ToSet
  <2>b. \A x \in DOMAIN c : x > Len(a) => c[x] \in ToSet(b)
    BY <1>1 DEF ToSet
  <2>3. CASE i <= Len(a) /\ j > Len(a)
    BY <1>7, <2>3, <2>a, <2>b
  <2>4. CASE i > Len(a) /\ j <= Len(a)
    BY <1>7, <2>4, <2>a, <2>b
  <2> QED BY <1>5, <2>1, <2>2, <2>3, <2>4
<1> QED BY <1>1, <1>6, <1>7 DEF c

(* A list in two parts.                                                    *)
FrontOf(a, list, p) == Len(a) = p /\ \A i \in 1 .. p : a[i] = list[i]
RestOf(b, list, p)  == Len(b) = Len(list) - p /\ \A i \in 1 .. Len(list) - p : b[i] = list[p + i]

LEMMA SplitIs ==
    ASSUME NEW T, NEW list \in Seq(T), NEW p \in 0 .. Len(list),
           NEW a \in Seq(T), FrontOf(a, list, p), NEW b \in Seq(T), RestOf(b, list, p)
    PROVE  /\ ToSet(a) \cup ToSet(b) = ToSet(list)
           /\ IsInjective(list) => IsInjective(a) /\ IsInjective(b) /\ ToSet(a) \cap ToSet(b) = {}
<1>0. PICK n \in Nat : n = Len(list)
  OBVIOUS
<1>1. /\ DOMAIN a = 1 .. p /\ DOMAIN b = 1 .. n - p /\ DOMAIN list = 1 .. n
      /\ \A i \in 1 .. p : a[i] = list[i]
      /\ \A i \in 1 .. n - p : b[i] = list[p + i]
  BY <1>0 DEF FrontOf, RestOf
<1>2. /\ \A i \in 1 .. p : i \in 1 .. n
      /\ \A i \in 1 .. n - p : p + i \in 1 .. n /\ p + i \notin 1 .. p
      /\ \A i, j \in 1 .. n - p : p + i = p + j => i = j
  BY <1>0
<1>3. \A i \in 1 .. n : i \in 1 .. p \/ (i - p \in 1 .. n - p /\ p + (i - p) = i)
  BY <1>0
<1>4. \A i \in 1 .. n : list[i] \in ToSet(a) \cup ToSet(b)
  <2> TAKE i \in 1 .. n
  <2>1. CASE i \in 1 .. p
    BY <1>1, <2>1 DEF ToSet
  <2>2. CASE i - p \in 1 .. n - p /\ p + (i - p) = i
    BY <1>1, <2>2 DEF ToSet
  <2> QED BY <1>3, <2>1, <2>2
<1>5. ToSet(a) \subseteq ToSet(list)
  BY <1>1, <1>2 DEF ToSet
<1>6. ToSet(b) \subseteq ToSet(list)
  BY <1>1, <1>2 DEF ToSet
<1>7. ToSet(list) \subseteq ToSet(a) \cup ToSet(b)
  BY <1>1, <1>4 DEF ToSet
<1>8. ASSUME IsInjective(list) PROVE IsInjective(a) /\ IsInjective(b) /\ ToSet(a) \cap ToSet(b) = {}
  <2>1. \A i, j \in 1 .. n : list[i] = list[j] => i = j
    BY <1>1, <1>8 DEF IsInjective
  <2>2. IsInjective(a)
    BY <1>1, <1>2, <2>1 DEF IsInjective
  <2>3. IsInjective(b)
    BY <1>1, <1>2, <2>1 DEF IsInjective
  <2>4. ASSUME NEW i \in 1 .. p, NEW j \in 1 .. n - p, a[i] = b[j] PROVE FALSE
    <3>1. a[i] = list[i] /\ b[j] = list[p + j] /\ i \in 1 .. n /\ p + j \in 1 .. n /\ i # p + j
      BY <1>1, <1>2
    <3> QED BY <2>1, <2>4, <3>1
  <2>5. ToSet(a) \cap ToSet(b) = {}
    BY <1>1, <2>4 DEF ToSet
  <2> QED BY <2>2, <2>3, <2>5
<1> QED BY <1>5, <1>6, <1>7, <1>8

LEMMA ReverseIs ==
    ASSUME NEW T, NEW list \in Seq(T)
    PROVE  /\ Reverse(list) \in Seq(T) /\ ToSet(Reverse(list)) = ToSet(list)
           /\ IsInjective(list) => IsInjective(Reverse(list))
<1> DEFINE r == Reverse(list)
           n == Len(list)
<1>1. r \in Seq(T) /\ DOMAIN r = 1 .. n /\ \A i \in 1 .. n : r[i] = list[(n - i) + 1]
  BY DEF Reverse
<1>2. DOMAIN list = 1 .. n /\ n \in Nat /\ \A i \in 1 .. n : (n - i) + 1 \in 1 .. n /\ (n - ((n - i) + 1)) + 1 = i
  OBVIOUS
<1>3. \A i, j \in 1 .. n : (n - i) + 1 = (n - j) + 1 => i = j
  OBVIOUS
<1> HIDE DEF r, n
<1>4. ToSet(r) = ToSet(list)
  BY <1>1, <1>2 DEF ToSet
<1>5. IsInjective(list) => IsInjective(r)
  BY <1>1, <1>2, <1>3 DEF IsInjective
<1> QED BY <1>1, <1>4, <1>5 DEF r

LEMMA PrefixIs ==
    ASSUME NEW T, NEW list \in Seq(T), NEW p \in 0 .. Len(list)
    PROVE  LET a == SubSeq(list, 1, p)
           IN  a \in Seq(T) /\ FrontOf(a, list, p)
<1>1. \A i \in 1 .. p : list[i] \in T
  OBVIOUS
<1>2. p \in Int /\ 0 <= p
  OBVIOUS
<1>3. /\ SubSeq(list, 1, p) \in Seq(T)
      /\ Len(SubSeq(list, 1, p)) = IF 1 <= p THEN p - 1 + 1 ELSE 0
      /\ \A i \in 1 .. p - 1 + 1 : SubSeq(list, 1, p)[i] = list[1 + i - 1]
  BY <1>1, <1>2, SubSeqProperties
<1>4. (IF 1 <= p THEN p - 1 + 1 ELSE 0) = p /\ p - 1 + 1 = p /\ \A i \in 1 .. p : 1 + i - 1 = i
  BY <1>2
<1> QED BY <1>3, <1>4 DEF FrontOf

LEMMA SuffixIs ==
    ASSUME NEW T, NEW list \in Seq(T), NEW p \in 0 .. Len(list)
    PROVE  LET b == SubSeq(list, p + 1, Len(list))
           IN  b \in Seq(T) /\ RestOf(b, list, p)
<1> DEFINE n == Len(list)
           m == p + 1
<1>1. \A i \in m .. n : list[i] \in T
  OBVIOUS
<1>2. m \in Int /\ n \in Int /\ p \in Int /\ p <= n
  OBVIOUS
<1>3. /\ (IF m <= n THEN n - m + 1 ELSE 0) = n - p /\ n - m + 1 = n - p
      /\ \A i \in 1 .. n - p : m + i - 1 = p + i
  BY <1>2
<1> HIDE DEF n, m
<1>4. /\ SubSeq(list, m, n) \in Seq(T)
      /\ Len(SubSeq(list, m, n)) = IF m <= n THEN n - m + 1 ELSE 0
      /\ \A i \in 1 .. n - m + 1 : SubSeq(list, m, n)[i] = list[m + i - 1]
  BY <1>1, <1>2, SubSeqProperties
<1>5. /\ SubSeq(list, m, n) \in Seq(T) /\ Len(SubSeq(list, m, n)) = n - p
      /\ \A i \in 1 .. n - p : SubSeq(list, m, n)[i] = list[p + i]
  BY <1>3, <1>4
<1> QED BY <1>5 DEF RestOf, n, m

LEMMA InsertAtIs ==
    ASSUME NEW T, NEW list \in Seq(T), NEW x \in T, NEW p \in 1 .. Len(list) + 1
    PROVE  LET longer == InsertAt(list, p, x)
           IN  /\ longer \in Seq(T) /\ ToSet(longer) = ToSet(list) \cup {x}
               /\ IsInjective(list) /\ x \notin ToSet(list) => IsInjective(longer)
<1>1. p - 1 \in 0 .. Len(list) /\ (p - 1) + 1 = p
  OBVIOUS
<1>2. PICK a : a = SubSeq(list, 1, p - 1)
  OBVIOUS
<1>3. PICK b : b = SubSeq(list, p, Len(list))
  OBVIOUS
<1>4. a \in Seq(T) /\ FrontOf(a, list, p - 1)
  BY <1>1, <1>2, PrefixIs
<1>5. b \in Seq(T) /\ RestOf(b, list, p - 1)
  BY <1>1, <1>3, SuffixIs
<1>6. PICK c : c = Append(a, x)
  OBVIOUS
<1>7. /\ c \in Seq(T) /\ ToSet(c) = ToSet(a) \cup {x}
      /\ IsInjective(a) /\ x \notin ToSet(a) => IsInjective(c)
  BY <1>4, <1>6, AppendIs
<1>8. InsertAt(list, p, x) = c \o b
  <2>1. a \o <<x>> = c
    BY <1>4, <1>6
  <2> QED BY <1>2, <1>3, <2>1 DEF InsertAt
<1>9. ToSet(a) \cup ToSet(b) = ToSet(list) /\ (IsInjective(list) =>
        IsInjective(a) /\ IsInjective(b) /\ ToSet(a) \cap ToSet(b) = {})
  BY <1>1, <1>4, <1>5, SplitIs
<1>10. /\ c \o b \in Seq(T) /\ ToSet(c \o b) = ToSet(c) \cup ToSet(b)
       /\ IsInjective(c) /\ IsInjective(b) /\ ToSet(c) \cap ToSet(b) = {} => IsInjective(c \o b)
  BY <1>5, <1>7, ConcatIs
<1> QED BY <1>7, <1>8, <1>9, <1>10

LEMMA RemoveAtIs ==
    ASSUME NEW T, NEW list \in Seq(T), NEW p \in DOMAIN list, IsInjective(list)
    PROVE  LET r == RemoveAt(list, p)
           IN  r \in Seq(T) /\ ToSet(r) = ToSet(list) \ {list[p]} /\ IsInjective(r)
<1>1. p - 1 \in 0 .. Len(list) /\ (p - 1) + 1 = p /\ p \in 0 .. Len(list) /\ DOMAIN list = 1 .. Len(list)
  OBVIOUS
<1>2. PICK a : a = SubSeq(list, 1, p - 1)
  OBVIOUS
<1>3. PICK b : b = SubSeq(list, p + 1, Len(list))
  OBVIOUS
<1>4. a \in Seq(T) /\ FrontOf(a, list, p - 1)
  BY <1>1, <1>2, PrefixIs
<1>5. b \in Seq(T) /\ RestOf(b, list, p)
  BY <1>1, <1>3, SuffixIs
<1>6. PICK c : c = Append(a, list[p])
  OBVIOUS
<1>7. /\ c \in Seq(T) /\ ToSet(c) = ToSet(a) \cup {list[p]} /\ Len(c) = p /\ c[p] = list[p]
      /\ \A i \in 1 .. p - 1 : c[i] = a[i]
  BY <1>4, <1>6, AppendIs DEF FrontOf
<1>8. FrontOf(c, list, p)
  <2>1. \A i \in 1 .. p : i = p \/ i \in 1 .. p - 1
    BY <1>1
  <2> QED BY <1>4, <1>7, <2>1 DEF FrontOf
<1>9. ToSet(c) \cup ToSet(b) = ToSet(list) /\ IsInjective(c) /\ IsInjective(b) /\ ToSet(c) \cap ToSet(b) = {}
  BY <1>1, <1>5, <1>7, <1>8, SplitIs
<1>10. IsInjective(a) /\ list[p] \notin ToSet(a)
  <2>1. DOMAIN a = 1 .. p - 1 /\ DOMAIN c = 1 .. p /\ p \notin 1 .. p - 1 /\ p \in 1 .. p
        /\ \A i \in 1 .. p - 1 : i \in 1 .. p
    BY <1>1, <1>4, <1>7 DEF FrontOf
  <2> QED BY <1>7, <1>9, <2>1 DEF IsInjective, ToSet
<1>11. /\ a \o b \in Seq(T) /\ ToSet(a \o b) = ToSet(a) \cup ToSet(b)
       /\ IsInjective(a) /\ IsInjective(b) /\ ToSet(a) \cap ToSet(b) = {} => IsInjective(a \o b)
  BY <1>4, <1>5, ConcatIs
<1>12. RemoveAt(list, p) = a \o b
  BY <1>2, <1>3 DEF RemoveAt
<1>13. ToSet(a) \cup ToSet(b) = ToSet(list) \ {list[p]} /\ ToSet(a) \cap ToSet(b) = {}
  BY <1>7, <1>9, <1>10
<1> QED BY <1>9, <1>10, <1>11, <1>12, <1>13

-----------------------------------------------------------------------------
(* What stands in which order                                              *)

(* Items of the first n of a list, in the order in which they stood.       *)
Sifted(list, n, r) ==
    /\ \A i \in DOMAIN r : \E a \in 1 .. n : r[i] = list[a]
    /\ \A i, j \in DOMAIN r : i < j => \E a, b \in 1 .. n : a < b /\ r[i] = list[a] /\ r[j] = list[b]
SiftHolds(p, n, r) == r \in Seq(p.type) /\ Sifted(p.list, n, r)
Sifting == INSTANCE Stepwise WITH Step <- WithinStep, Holds <- SiftHolds

LEMMA WithinInOrder ==
    ASSUME NEW T, NEW list \in Seq(T), NEW S
    PROVE  LET r == Within(list, S)
           IN  \A i, j \in DOMAIN r : i < j =>
                  \E a, b \in DOMAIN list : a < b /\ r[i] = list[a] /\ r[j] = list[b]
<1> DEFINE p == [type |-> T, list |-> list, S |-> S]
<1>1. Within(list, S) = Sifting!Folded(S, <<>>, list)
  BY DEF Within, Sifting!Folded, Sifting!Greatest, WithinStep, FoldLeft, MapThenFoldSet, Max
<1>2. PICK n \in Nat : n = Len(list) /\ DOMAIN list = 1 .. n
  BY ListDomain
<1>3. SiftHolds(p, 0, <<>>)
  BY DEF SiftHolds, Sifted
<1>4. ASSUME NEW r, NEW k \in 1 .. n, SiftHolds(p, k - 1, r)
      PROVE  SiftHolds(p, k, WithinStep(S, r, list[k]))
  <2>3. /\ r \in Seq(T) /\ \A i \in DOMAIN r : \E a \in 1 .. k - 1 : r[i] = list[a]
        /\ \A i, j \in DOMAIN r : i < j => \E a, b \in 1 .. k - 1 : a < b /\ r[i] = list[a] /\ r[j] = list[b]
    BY <1>4 DEF SiftHolds, Sifted
  <2>4. 1 .. k = (1 .. k - 1) \cup {k} /\ (\A a \in 1 .. k - 1 : a < k) /\ list[k] \in T
    BY <1>2
  <2>5. CASE list[k] \notin S
    <3>1. WithinStep(S, r, list[k]) = r
      BY <2>5 DEF WithinStep
    <3>2. \A i, j \in DOMAIN r : i < j => \E a, b \in 1 .. k : a < b /\ r[i] = list[a] /\ r[j] = list[b]
      <4> SUFFICES ASSUME NEW i \in DOMAIN r, NEW j \in DOMAIN r, i < j
                   PROVE  \E a, b \in 1 .. k : a < b /\ r[i] = list[a] /\ r[j] = list[b]
        OBVIOUS
      <4>1. PICK a, b \in 1 .. k - 1 : a < b /\ r[i] = list[a] /\ r[j] = list[b]
        BY <2>3
      <4> QED BY <2>4, <4>1
    <3>3. \A i \in DOMAIN r : \E a \in 1 .. k : r[i] = list[a]
      BY <2>3, <2>4
    <3>4. Sifted(list, k, r)
      BY <3>2, <3>3 DEF Sifted
    <3> QED BY <2>3, <3>1, <3>4 DEF SiftHolds
  <2>6. CASE list[k] \in S
    <3> PICK x \in T : x = list[k]
      BY <2>4
    <3> PICK q : q = Append(r, x)
      OBVIOUS
    <3>1. /\ q \in Seq(T) /\ Len(q) = Len(r) + 1 /\ q[Len(r) + 1] = x
          /\ DOMAIN q = DOMAIN r \cup {Len(r) + 1} /\ \A i \in DOMAIN r : q[i] = r[i]
      BY <2>3, AppendIs
    <3>2. DOMAIN r = 1 .. Len(r) /\ Len(r) \in Nat
      BY <2>3, ListDomain
    <3>3. WithinStep(S, r, list[k]) = q
      BY <2>6 DEF WithinStep
    <3>4. ASSUME NEW i \in DOMAIN q, NEW j \in DOMAIN q, i < j
          PROVE  \E a, b \in 1 .. k : a < b /\ q[i] = list[a] /\ q[j] = list[b]
      <4>1. i \in DOMAIN r
        BY <3>1, <3>2, <3>4
      <4>2. CASE j \in DOMAIN r
        <5>1. PICK a, b \in 1 .. k - 1 : a < b /\ r[i] = list[a] /\ r[j] = list[b]
          BY <2>3, <3>4, <4>1, <4>2
        <5> QED BY <2>4, <3>1, <4>1, <4>2, <5>1
      <4>3. CASE j \notin DOMAIN r
        <5>1. q[j] = list[k]
          BY <3>1, <4>3
        <5>3. PICK a \in 1 .. k - 1 : r[i] = list[a]
          BY <2>3, <4>1
        <5> QED BY <2>4, <3>1, <4>1, <5>1, <5>3
      <4> QED BY <4>2, <4>3
    <3>5. ASSUME NEW i \in DOMAIN q PROVE \E a \in 1 .. k : q[i] = list[a]
      <4>1. CASE i \in DOMAIN r
        BY <2>3, <2>4, <3>1, <4>1
      <4>2. CASE i \notin DOMAIN r
        BY <2>4, <3>1, <4>2
      <4> QED BY <4>1, <4>2
    <3>6. Sifted(list, k, q)
      BY <3>4, <3>5 DEF Sifted
    <3> QED BY <3>1, <3>3, <3>6 DEF SiftHolds
  <2> QED BY <2>5, <2>6
<1>5. SiftHolds(p, n, Within(list, S))
  <2>1. Sifting!PlacesAreOrdered(n)
    BY LeastPlaces DEF Sifting!PlacesAreOrdered
  <2> QED BY <1>1, <1>2, <1>3, <1>4, <2>1, Sifting!FoldKeeps
<1>6. Sifted(list, n, Within(list, S))
  BY <1>5 DEF SiftHolds
<1> QED BY <1>2, <1>6 DEF Sifted

(* What stands in this order in a stands so in b.                          *)
OrderKept(a, b) == \A x, y : InOrder(a, x, y) => InOrder(b, x, y)

LEMMA WithinKeeps ==
    ASSUME NEW T, NEW list \in Seq(T), IsInjective(list), NEW S
    PROVE  /\ OrderKept(Within(list, S), list)
           /\ \A x, y \in S : InOrder(list, x, y) => InOrder(Within(list, S), x, y)
<1> PICK r : r = Within(list, S)
  OBVIOUS
<1>1. \A i, j \in DOMAIN r : i < j => \E a, b \in DOMAIN list : a < b /\ r[i] = list[a] /\ r[j] = list[b]
  BY WithinInOrder
<1>2. r \in Seq(T) /\ ToSet(r) = ToSet(list) \cap S
  BY WithinIs
<1>3. OrderKept(r, list)
  BY <1>1 DEF OrderKept, InOrder
<1>4. ASSUME NEW x \in S, NEW y \in S, InOrder(list, x, y) PROVE InOrder(r, x, y)
  <2>1. PICK a, b \in DOMAIN list : a < b /\ list[a] = x /\ list[b] = y
    BY <1>4 DEF InOrder
  <2>2. x \in ToSet(r) /\ y \in ToSet(r)
    BY <1>2, <2>1 DEF ToSet
  <2>3. PICK i, j \in DOMAIN r : r[i] = x /\ r[j] = y
    BY <2>2 DEF ToSet
  <2>4. i \in Nat /\ j \in Nat /\ a \in Nat /\ b \in Nat
    BY <1>2, <2>1, <2>3
  <2>5. i # j
    BY <2>1, <2>3, <2>4 DEF IsInjective
  <2>6. ~(j < i)
    <3> SUFFICES ASSUME j < i PROVE FALSE
      OBVIOUS
    <3>1. PICK c, d \in DOMAIN list : c < d /\ r[j] = list[c] /\ r[i] = list[d]
      BY <1>1
    <3>2. c = b /\ d = a
      BY <2>1, <2>3, <3>1 DEF IsInjective
    <3> QED BY <2>1, <2>4, <3>1, <3>2
  <2> QED BY <2>3, <2>4, <2>5, <2>6 DEF InOrder
<1> QED BY <1>3, <1>4

LEMMA AppendKeeps ==
    ASSUME NEW T, NEW list \in Seq(T), NEW x \in T
    PROVE  OrderKept(list, Append(list, x))
<1>1. PICK q : q = Append(list, x)
  OBVIOUS
<1>2. DOMAIN q = DOMAIN list \cup {Len(list) + 1} /\ \A i \in DOMAIN list : q[i] = list[i]
  BY <1>1, AppendIs
<1> QED BY <1>1, <1>2 DEF OrderKept, InOrder

LEMMA InsertAtKeeps ==
    ASSUME NEW T, NEW list \in Seq(T), NEW x \in T, NEW p \in 1 .. Len(list) + 1
    PROVE  OrderKept(list, InsertAt(list, p, x))
<1>1. p - 1 \in 0 .. Len(list) /\ (p - 1) + 1 = p
  OBVIOUS
<1>2. PICK a : a = SubSeq(list, 1, p - 1)
  OBVIOUS
<1>3. PICK b : b = SubSeq(list, p, Len(list))
  OBVIOUS
<1>4. a \in Seq(T) /\ FrontOf(a, list, p - 1)
  BY <1>1, <1>2, PrefixIs
<1>5. b \in Seq(T) /\ RestOf(b, list, p - 1)
  BY <1>1, <1>3, SuffixIs
<1>6. PICK c : c = Append(a, x)
  OBVIOUS
<1> PICK n \in Nat : n = Len(list) /\ DOMAIN list = 1 .. n
  BY ListDomain
<1>7. c \in Seq(T) /\ Len(c) = p /\ \A i \in 1 .. p - 1 : c[i] = list[i]
  <2>1. Len(a) = p - 1 /\ DOMAIN a = 1 .. p - 1 /\ \A i \in 1 .. p - 1 : a[i] = list[i]
    BY <1>1, <1>4 DEF FrontOf
  <2>2. c \in Seq(T) /\ Len(c) = Len(a) + 1 /\ \A i \in DOMAIN a : c[i] = a[i]
    BY <1>4, <1>6, AppendIs
  <2> QED BY <1>1, <2>1, <2>2
<1>8. InsertAt(list, p, x) = c \o b
  <2>1. a \o <<x>> = c
    BY <1>4, <1>6
  <2> QED BY <1>2, <1>3, <2>1 DEF InsertAt
<1> PICK y \in Nat : y = n - (p - 1)
  BY <1>1
<1>9. Len(b) = y /\ \A i \in 1 .. y : b[i] = list[(p - 1) + i]
  BY <1>1, <1>5 DEF RestOf
<1> PICK q : q = InsertAt(list, p, x)
  OBVIOUS
<1>10. Joined(T, c, b, p, y, q)
  BY <1>1, <1>5, <1>7, <1>8, <1>9, JoinedIs
<1>11. q \in Seq(T) /\ Len(q) = p + y /\ (\A i \in 1 .. p : q[i] = c[i]) /\ \A i \in p + 1 .. p + y : q[i] = b[i - p]
  BY <1>10 DEF Joined
<1> DEFINE at(i) == IF i < p THEN i ELSE i + 1
<1>12. ASSUME NEW i \in 1 .. n PROVE at(i) \in DOMAIN q /\ q[at(i)] = list[i]
  <2>1. DOMAIN q = 1 .. p + y /\ p + y = n + 1
    BY <1>11
  <2>2. CASE i < p
    <3>1. i \in 1 .. p /\ i \in 1 .. p - 1 /\ at(i) = i
      BY <2>2
    <3> QED BY <1>7, <1>11, <2>1, <3>1
  <2>3. CASE ~(i < p)
    <3>1. PICK j \in 1 .. y : j = i + 1 - p
      BY <2>3
    <3>2. at(i) \in p + 1 .. p + y /\ at(i) - p = j /\ (p - 1) + j = i
      BY <2>3, <3>1
    <3> QED BY <1>9, <1>11, <2>1, <3>2
  <2> QED BY <2>2, <2>3
<1>13. \A i, j \in 1 .. n : i < j => at(i) < at(j)
  OBVIOUS
<1> HIDE DEF at
<1>14. OrderKept(list, q)
  BY <1>12, <1>13 DEF OrderKept, InOrder
<1> QED BY <1>14

(* Lists with the same items in the same order are the same.               *)
LEMMA SameLine ==
    ASSUME NEW T, NEW a \in Seq(T), NEW b \in Seq(T), IsInjective(a), IsInjective(b),
           ToSet(a) = ToSet(b), OrderKept(a, b)
    PROVE  a = b
<1> PICK n \in Nat : n = Len(a) /\ DOMAIN a = 1 .. n
  BY ListDomain
<1> PICK m \in Nat : m = Len(b) /\ DOMAIN b = 1 .. m
  BY ListDomain
<1>1. \A i \in 1 .. n : \E j \in 1 .. m : b[j] = a[i]
  BY DEF ToSet
<1>2. \A j \in 1 .. m : \E i \in 1 .. n : a[i] = b[j]
  BY DEF ToSet
<1>3. \A i, j \in 1 .. n : i < j => \A k, l \in 1 .. m : a[i] = b[k] /\ a[j] = b[l] => k < l
  <2> SUFFICES ASSUME NEW i \in 1 .. n, NEW j \in 1 .. n, i < j, NEW k \in 1 .. m, NEW l \in 1 .. m,
                      a[i] = b[k], a[j] = b[l]
               PROVE  k < l
    OBVIOUS
  <2>1. InOrder(a, a[i], a[j])
    BY DEF InOrder
  <2>2. InOrder(b, a[i], a[j])
    BY <2>1 DEF OrderKept
  <2>3. PICK c, d \in 1 .. m : c < d /\ b[c] = a[i] /\ b[d] = a[j]
    BY <2>2 DEF InOrder
  <2>4. c = k /\ d = l
    BY <2>3 DEF IsInjective
  <2> QED BY <2>3, <2>4
<1> DEFINE Bad == {i \in 1 .. n : ~(i \in 1 .. m /\ a[i] = b[i])}
<1>4. Bad = {}
  <2> SUFFICES ASSUME Bad # {} PROVE FALSE
    OBVIOUS
  <2>1. PICK i \in Bad : \A k \in 0 .. n : k < i => k \notin Bad
    <3>1. Bad \subseteq 0 .. n
      OBVIOUS
    <3> HIDE DEF Bad
    <3> QED BY <3>1, LeastIndex
  <2>2. i \in 1 .. n /\ ~(i \in 1 .. m /\ a[i] = b[i]) /\ \A k \in 1 .. n : k < i => k \in 1 .. m /\ a[k] = b[k]
    BY <2>1
  <2> HIDE DEF Bad
  <2>3. PICK j \in 1 .. m : b[j] = a[i]
    BY <1>1, <2>2
  <2>4. ~(j < i)
    <3> SUFFICES ASSUME j < i PROVE FALSE
      OBVIOUS
    <3>1. j \in 1 .. n /\ a[j] = b[j]
      BY <2>2
    <3> QED BY <2>2, <2>3, <3>1 DEF IsInjective
  <2>5. j > i /\ i \in 1 .. m
    BY <2>2, <2>3, <2>4
  <2>6. PICK k \in 1 .. n : a[k] = b[i]
    BY <1>2, <2>5
  <2>7. ~(k < i)
    <3> SUFFICES ASSUME k < i PROVE FALSE
      OBVIOUS
    <3>1. k \in 1 .. m /\ b[k] = b[i]
      BY <2>2, <2>6
    <3> QED BY <2>5, <3>1 DEF IsInjective
  <2>8. k # i
    BY <2>2, <2>5, <2>6
  <2>9. i < k
    BY <2>2, <2>7, <2>8
  <2>10. j < i
    BY <1>3, <2>2, <2>3, <2>5, <2>6, <2>9
  <2> QED BY <2>2, <2>4, <2>10
<1>5. \A i \in 1 .. n : i \in 1 .. m /\ a[i] = b[i]
  BY <1>4
<1>6. n = m
  <2>1. n <= m
    BY <1>5
  <2>2. ASSUME n < m PROVE FALSE
    <3>1. PICK i \in 1 .. n : a[i] = b[m]
      BY <1>2, <2>2
    <3>2. i \in 1 .. m /\ b[i] = b[m] /\ i # m /\ m \in 1 .. m
      BY <1>5, <2>2, <3>1
    <3> QED BY <3>2 DEF IsInjective
  <2> QED BY <2>1, <2>2
<1> QED BY <1>5, <1>6

-----------------------------------------------------------------------------
(* The store                                                               *)

Nodes == [subject : Nat, key : Keys]

Live(states) == {s \in DOMAIN states : states[s] # NoKey}
RowsOf(states) == {Node(s, states[s]) : s \in Live(states)}

(* What every store is: all of it follows from the subjects' states, but   *)
(* for the order of the chain.                                             *)
KeysAreApart(states) == \A s, t \in Live(states) : states[s] = states[t] => s = t
IdsTell(ids, states) ==
    /\ DOMAIN ids = {states[s] : s \in Live(states)}
    /\ \A s \in Live(states) : ids[states[s]] = s
ChainTells(chain, states) ==
    chain \in Seq(Nodes) /\ IsInjective(chain) /\ ToSet(chain) = RowsOf(states)
IsStore(w) ==
    w = [ids |-> w.ids, states |-> w.states, chain |-> w.chain, frontier |-> w.frontier, next |-> w.next]

Sound(w) ==
    /\ IsStore(w)
    /\ w.next \in Nat /\ w.next > 0
    /\ w.states \in [1 .. w.next - 1 -> Keys \cup {NoKey}]
    /\ KeysAreApart(w.states)
    /\ IdsTell(w.ids, w.states)
    /\ ChainTells(w.chain, w.states)

LEMMA LiveIs ==
    ASSUME NEW w, Sound(w), NEW s \in Live(w.states)
    PROVE  /\ s \in Nat /\ s > 0 /\ s < w.next /\ s \in DOMAIN w.states
           /\ w.states[s] \in Keys /\ w.states[s] # NoKey
           /\ w.states[s] \in DOMAIN w.ids /\ w.ids[w.states[s]] = s
           /\ Node(s, w.states[s]) \in ToSet(w.chain)
BY KeysAssumption DEF Sound, Live, IdsTell, ChainTells, RowsOf

LEMMA RowIs ==
    ASSUME NEW w, Sound(w), NEW i \in DOMAIN w.chain
    PROVE  LET s == w.chain[i].subject
           IN  s \in Live(w.states) /\ w.chain[i].key = w.states[s] /\ w.chain[i] = Node(s, w.states[s])
<1>1. w.chain[i] \in RowsOf(w.states)
  BY DEF Sound, ChainTells, ToSet
<1>2. PICK s \in Live(w.states) : w.chain[i] = Node(s, w.states[s])
  BY <1>1 DEF RowsOf
<1>3. w.chain[i].subject = s /\ w.chain[i].key = w.states[s]
  BY <1>2 DEF Node
<1> QED BY <1>2, <1>3

(* A subject, and so a key, has one place in the chain.                    *)
LEMMA OnePlace ==
    ASSUME NEW w, Sound(w)
    PROVE  \A i, j \in DOMAIN w.chain :
              w.chain[i].subject = w.chain[j].subject \/ w.chain[i].key = w.chain[j].key => i = j
<1> SUFFICES ASSUME NEW i \in DOMAIN w.chain, NEW j \in DOMAIN w.chain,
                    w.chain[i].subject = w.chain[j].subject \/ w.chain[i].key = w.chain[j].key
             PROVE  i = j
  OBVIOUS
<1>1. w.chain[i].subject = w.chain[j].subject
  BY RowIs DEF Sound, KeysAreApart
<1>2. w.chain[i] = w.chain[j]
  BY <1>1, RowIs
<1> QED BY <1>2 DEF Sound, ChainTells, IsInjective

(* The order of the subjects outside of T in a is that in b.               *)
LineKept(a, b, T) == \A s, t : s \notin T /\ t \notin T /\ InOrder(a, s, t) => InOrder(b, s, t)
KeepsOrder(w, v, T) == LineKept(SubjectsOf(w.chain), SubjectsOf(v.chain), T)

LEMMA SubjectsKept ==
    ASSUME NEW a, NEW b, OrderKept(a, b)
    PROVE  LineKept(SubjectsOf(a), SubjectsOf(b), {})
<1> SUFFICES ASSUME NEW s, NEW t, InOrder(SubjectsOf(a), s, t) PROVE InOrder(SubjectsOf(b), s, t)
  BY DEF LineKept
<1>1. PICK i, j \in DOMAIN a : i < j /\ a[i].subject = s /\ a[j].subject = t
  BY DEF InOrder, SubjectsOf
<1>2. InOrder(b, a[i], a[j])
  BY <1>1 DEF OrderKept, InOrder
<1>3. PICK k, l \in DOMAIN b : k < l /\ b[k] = a[i] /\ b[l] = a[j]
  BY <1>2 DEF InOrder
<1> QED BY <1>1, <1>3 DEF InOrder, SubjectsOf

LEMMA LineTransitive ==
    ASSUME NEW a, NEW b, NEW c, NEW T, LineKept(a, b, T), LineKept(b, c, T)
    PROVE  LineKept(a, c, T)
BY DEF LineKept

LEMMA LineWider ==
    ASSUME NEW a, NEW b, NEW S, NEW T, LineKept(a, b, S), S \subseteq T
    PROVE  LineKept(a, b, T)
BY DEF LineKept

LEMMA SoundAgrees ==
    ASSUME NEW w, Sound(w)
    PROVE  IndexesAgree(w)
<1>1. \A i, j \in DOMAIN w.chain : w.chain[i].subject = w.chain[j].subject => i = j
  BY OnePlace
<1>2. {<<node.key, node.subject>> : node \in ToSet(w.chain)}
        = {<<k, w.ids[k]>> : k \in DOMAIN w.ids}
  <2>1. ToSet(w.chain) = RowsOf(w.states) /\ DOMAIN w.ids = {w.states[s] : s \in Live(w.states)}
        /\ \A s \in Live(w.states) : w.ids[w.states[s]] = s
    BY DEF Sound, ChainTells, IdsTell
  <2>2. \A s : Node(s, w.states[s]).key = w.states[s] /\ Node(s, w.states[s]).subject = s
    BY DEF Node
  <2>3. {<<node.key, node.subject>> : node \in ToSet(w.chain)} = {<<w.states[s], s>> : s \in Live(w.states)}
    BY <2>1, <2>2 DEF RowsOf
  <2>4. {<<k, w.ids[k]>> : k \in DOMAIN w.ids} = {<<w.states[s], s>> : s \in Live(w.states)}
    BY <2>1
  <2> QED BY <2>3, <2>4
<1>3. {<<node.subject, node.key>> : node \in ToSet(w.chain)}
         = {<<s, w.states[s]>> : s \in {t \in DOMAIN w.states : w.states[t] # NoKey}}
  <2>1. ToSet(w.chain) = RowsOf(w.states)
    BY DEF Sound, ChainTells
  <2>2. \A s : Node(s, w.states[s]).key = w.states[s] /\ Node(s, w.states[s]).subject = s
    BY DEF Node
  <2> QED BY <2>1, <2>2 DEF RowsOf, Live
<1>4. \A s \in DOMAIN w.states : s < w.next
  BY DEF Sound
<1> QED BY <1>1, <1>2, <1>3, <1>4 DEF IndexesAgree

LEMMA IndexOfSubjectIs ==
    ASSUME NEW T, NEW chain \in Seq(T), NEW s
    PROVE  LET i == IndexOfSubject(chain, s)
           IN  /\ i \in 0 .. Len(chain)
               /\ i = 0 <=> \A j \in DOMAIN chain : chain[j].subject # s
               /\ i # 0 => i \in DOMAIN chain /\ chain[i].subject = s
<1> DEFINE I == {i \in 1 .. Len(chain) : chain[i].subject = s}
<1>1. IndexOfSubject(chain, s) = IF I # {} THEN Min(I) ELSE 0
  BY DEF IndexOfSubject, SelectInSeq
<1>2. Len(chain) \in Nat /\ I \in SUBSET (1 .. Len(chain)) /\ DOMAIN chain = 1 .. Len(chain)
  OBVIOUS
<1>3. I = {} <=> \A j \in DOMAIN chain : chain[j].subject # s
  BY <1>2
<1>4. \A i \in I : i \in DOMAIN chain /\ chain[i].subject = s
  BY <1>2
<1> HIDE DEF I
<1> QED BY <1>1, <1>2, <1>3, <1>4, LeastPlace

LEMMA IndexOfKeyIs ==
    ASSUME NEW T, NEW chain \in Seq(T), NEW k
    PROVE  LET i == IndexOfKey(chain, k)
           IN  /\ i \in 0 .. Len(chain)
               /\ i = 0 <=> \A j \in DOMAIN chain : chain[j].key # k
               /\ i # 0 => i \in DOMAIN chain /\ chain[i].key = k
<1> DEFINE I == {i \in 1 .. Len(chain) : chain[i].key = k}
<1>1. IndexOfKey(chain, k) = IF I # {} THEN Min(I) ELSE 0
  BY DEF IndexOfKey, SelectInSeq
<1>2. Len(chain) \in Nat /\ I \in SUBSET (1 .. Len(chain)) /\ DOMAIN chain = 1 .. Len(chain)
  OBVIOUS
<1>3. I = {} <=> \A j \in DOMAIN chain : chain[j].key # k
  BY <1>2
<1>4. \A i \in I : i \in DOMAIN chain /\ chain[i].key = k
  BY <1>2
<1> HIDE DEF I
<1> QED BY <1>1, <1>2, <1>3, <1>4, LeastPlace

(* The key of a row is what its state says.                                *)
LEMMA KeyInIs ==
    ASSUME NEW w, Sound(w), NEW s
    PROVE  KeyIn(w.chain, s) = IF s \in DOMAIN w.states THEN w.states[s] ELSE NoKey
<1> DEFINE i == IndexOfSubject(w.chain, s)
<1>0. w.chain \in Seq(Nodes)
  BY DEF Sound, ChainTells
<1>1. /\ i = 0 <=> \A j \in DOMAIN w.chain : w.chain[j].subject # s
      /\ i # 0 => i \in DOMAIN w.chain /\ w.chain[i].subject = s
  BY <1>0, IndexOfSubjectIs
<1>2. CASE s \in Live(w.states)
  <2>1. Node(s, w.states[s]) \in ToSet(w.chain) /\ s \in DOMAIN w.states
    BY <1>2, LiveIs
  <2>2. \E j \in DOMAIN w.chain : w.chain[j].subject = s
    BY <2>1 DEF ToSet, Node
  <2>3. i # 0 /\ i \in DOMAIN w.chain /\ w.chain[i].subject = s
    BY <1>1, <2>2
  <2>4. w.chain[i].key = w.states[s]
    <3> HIDE DEF i
    <3> QED BY <2>3, RowIs
  <2> QED BY <2>1, <2>3, <2>4 DEF KeyIn
<1>3. CASE s \notin Live(w.states)
  <2>1. i = 0
    <3> HIDE DEF i
    <3> QED BY <1>1, <1>3, RowIs
  <2>2. s \in DOMAIN w.states => w.states[s] = NoKey
    BY <1>3 DEF Live
  <2> QED BY <2>1, <2>2 DEF KeyIn
<1> QED BY <1>2, <1>3

-----------------------------------------------------------------------------
(* What the operations make of the subjects' states                        *)

Indexed(w, ids, states)            == [w EXCEPT !.ids = ids, !.states = states]
Ordered(w, chain, frontier)        == [w EXCEPT !.chain = chain, !.frontier = frontier]
Grown(w, chain, next, frontier)    == [w EXCEPT !.chain = chain, !.next = next, !.frontier = frontier]
Shrunk(w, chain, states, frontier) == [w EXCEPT !.chain = chain, !.states = states, !.frontier = frontier]

LEMMA ReplacedFields ==
    ASSUME NEW w, IsStore(w)
    PROVE  /\ \A x : [w EXCEPT !.ids = x] = [ids |-> x, states |-> w.states, chain |-> w.chain,
                                             frontier |-> w.frontier, next |-> w.next]
           /\ \A x : [w EXCEPT !.chain = x] = [ids |-> w.ids, states |-> w.states, chain |-> x,
                                               frontier |-> w.frontier, next |-> w.next]
           /\ \A x, y : Indexed(w, x, y)
                 = [ids |-> x, states |-> y, chain |-> w.chain, frontier |-> w.frontier, next |-> w.next]
           /\ \A x, y : Ordered(w, x, y)
                 = [ids |-> w.ids, states |-> w.states, chain |-> x, frontier |-> y, next |-> w.next]
           /\ \A x, y, z : Grown(w, x, y, z)
                 = [ids |-> w.ids, states |-> w.states, chain |-> x, frontier |-> z, next |-> y]
           /\ \A x, y, z : Shrunk(w, x, y, z)
                 = [ids |-> w.ids, states |-> y, chain |-> x, frontier |-> z, next |-> w.next]
<1>1. \A x : [w EXCEPT !.ids = x] = [ids |-> x, states |-> w.states, chain |-> w.chain, frontier |-> w.frontier, next |-> w.next]
  BY DEF IsStore
<1>2. \A x : [w EXCEPT !.chain = x] = [ids |-> w.ids, states |-> w.states, chain |-> x, frontier |-> w.frontier, next |-> w.next]
  BY DEF IsStore
<1>3. ASSUME NEW x, NEW y
      PROVE  Indexed(w, x, y)
               = [ids |-> x, states |-> y, chain |-> w.chain, frontier |-> w.frontier, next |-> w.next]
  <2>1. Indexed(w, x, y)
           = [[w EXCEPT !.ids = x] EXCEPT !.states = y]
    BY DEF IsStore, Indexed
  <2>2. PICK u : u = [ids |-> x, states |-> w.states, chain |-> w.chain, frontier |-> w.frontier, next |-> w.next]
    OBVIOUS
  <2>3. [w EXCEPT !.ids = x] = u
    BY <2>2 DEF IsStore
  <2>4. [u EXCEPT !.states = y]
           = [ids |-> x, states |-> y, chain |-> w.chain, frontier |-> w.frontier, next |-> w.next]
    BY <2>2
  <2> QED BY <2>1, <2>3, <2>4
<1>4. ASSUME NEW x, NEW y
      PROVE  Ordered(w, x, y)
               = [ids |-> w.ids, states |-> w.states, chain |-> x, frontier |-> y, next |-> w.next]
  <2>1. Ordered(w, x, y)
           = [[w EXCEPT !.chain = x] EXCEPT !.frontier = y]
    BY DEF IsStore, Ordered
  <2>2. PICK u : u = [ids |-> w.ids, states |-> w.states, chain |-> x, frontier |-> w.frontier, next |-> w.next]
    OBVIOUS
  <2>3. [w EXCEPT !.chain = x] = u
    BY <2>2 DEF IsStore
  <2>4. [u EXCEPT !.frontier = y]
           = [ids |-> w.ids, states |-> w.states, chain |-> x, frontier |-> y, next |-> w.next]
    BY <2>2
  <2> QED BY <2>1, <2>3, <2>4
<1>5. ASSUME NEW x, NEW y, NEW z
      PROVE  Grown(w, x, y, z)
               = [ids |-> w.ids, states |-> w.states, chain |-> x, frontier |-> z, next |-> y]
  <2>1. Grown(w, x, y, z)
           = [[[w EXCEPT !.chain = x] EXCEPT !.next = y] EXCEPT !.frontier = z]
    BY DEF IsStore, Grown
  <2>2. PICK u : u = [ids |-> w.ids, states |-> w.states, chain |-> x, frontier |-> w.frontier, next |-> w.next]
    OBVIOUS
  <2>3. [w EXCEPT !.chain = x] = u
    BY <2>2 DEF IsStore
  <2>4. PICK v : v = [ids |-> w.ids, states |-> w.states, chain |-> x, frontier |-> w.frontier, next |-> y]
    OBVIOUS
  <2>5. [u EXCEPT !.next = y] = v
    BY <2>2, <2>4
  <2>6. [v EXCEPT !.frontier = z]
           = [ids |-> w.ids, states |-> w.states, chain |-> x, frontier |-> z, next |-> y]
    BY <2>4
  <2> QED BY <2>1, <2>3, <2>5, <2>6
<1>6. ASSUME NEW x, NEW y, NEW z
      PROVE  Shrunk(w, x, y, z)
               = [ids |-> w.ids, states |-> y, chain |-> x, frontier |-> z, next |-> w.next]
  <2>1. Shrunk(w, x, y, z)
           = [[[w EXCEPT !.chain = x] EXCEPT !.states = y] EXCEPT !.frontier = z]
    BY DEF IsStore, Shrunk
  <2>2. PICK u : u = [ids |-> w.ids, states |-> w.states, chain |-> x, frontier |-> w.frontier, next |-> w.next]
    OBVIOUS
  <2>3. [w EXCEPT !.chain = x] = u
    BY <2>2 DEF IsStore
  <2>4. PICK v : v = [ids |-> w.ids, states |-> y, chain |-> x, frontier |-> w.frontier, next |-> w.next]
    OBVIOUS
  <2>5. [u EXCEPT !.states = y] = v
    BY <2>2, <2>4
  <2>6. [v EXCEPT !.frontier = z]
           = [ids |-> w.ids, states |-> y, chain |-> x, frontier |-> z, next |-> w.next]
    BY <2>4
  <2> QED BY <2>1, <2>3, <2>5, <2>6
<1> QED BY <1>1, <1>2, <1>3, <1>4, <1>5, <1>6, Zenon

LEMMA ActivateIs ==
    ASSUME NEW w, IsStore(w), NEW s, NEW k
    PROVE  ActivateSubject(w, s, k)
              = [ids |-> SetKey(w.ids, k, s), states |-> SetKey(w.states, s, k),
                 chain |-> w.chain, frontier |-> w.frontier, next |-> w.next]
<1> PICK x, y : x = SetKey(w.ids, k, s) /\ y = SetKey(w.states, s, k)
  OBVIOUS
<1>1. ActivateSubject(w, s, k) = Indexed(w, x, y)
  BY DEF ActivateSubject, Indexed
<1> QED BY <1>1, ReplacedFields

Forgotten(ids, k) == [x \in DOMAIN ids \ {k} |-> ids[x]]

LEMMA ForgetIs ==
    ASSUME NEW w, IsStore(w), NEW k
    PROVE  ForgetKey(w, k) = [ids |-> Forgotten(w.ids, k), states |-> w.states,
                              chain |-> w.chain, frontier |-> w.frontier, next |-> w.next]
<1> PICK x : x = Forgotten(w.ids, k)
  OBVIOUS
<1>1. ForgetKey(w, k) = [w EXCEPT !.ids = x]
  BY DEF ForgetKey, Forgotten
<1> QED BY <1>1, ReplacedFields

Lengthened(states, n, k) == [s \in 1 .. n |-> IF s = n THEN k ELSE states[s]]

(* v is w with one more row, at k.                                         *)
AddedOne(w, v, k) ==
    /\ Sound(v) /\ v.next = w.next + 1 /\ v.states = Lengthened(w.states, w.next, k)
    /\ DOMAIN v.ids = DOMAIN w.ids \cup {k} /\ v.ids[k] = w.next
    /\ \A x \in DOMAIN w.ids : v.ids[x] = w.ids[x]
    /\ v.chain = Append(w.chain, Node(w.next, k))

LEMMA CreateSubjectIs ==
    ASSUME NEW w, Sound(w), NEW k \in Keys, k \notin DOMAIN w.ids, NEW frontier
    PROVE  AddedOne(w, CreateSubject(w, w.next, k, frontier), k)
<1> PICK n : n = w.next
  OBVIOUS
<1> DEFINE v == CreateSubject(w, n, k, frontier)
           states == Lengthened(w.states, n, k)
<1>1. /\ n \in Nat /\ n > 0 /\ w.states \in [1 .. n - 1 -> Keys \cup {NoKey}]
      /\ DOMAIN w.states = 1 .. n - 1 /\ k # NoKey
  BY KeysAssumption DEF Sound
<1>2. v = [ids |-> SetKey(w.ids, k, n), states |-> SetKey(w.states, n, k),
           chain |-> Append(w.chain, Node(n, k)), frontier |-> frontier, next |-> n + 1]
  <2>1. (IF n + 1 > n THEN n + 1 ELSE n) = n + 1
    BY <1>1
  <2>2. PICK a : a = ActivateSubject(w, n, k)
    OBVIOUS
  <2>3. a = [ids |-> SetKey(w.ids, k, n), states |-> SetKey(w.states, n, k),
             chain |-> w.chain, frontier |-> w.frontier, next |-> n]
    BY <2>2, ActivateIs DEF Sound
  <2>4. v = [a EXCEPT !.chain = Append(a.chain, Node(n, k)),
                      !.next = IF n + 1 > a.next THEN n + 1 ELSE a.next, !.frontier = frontier]
    BY <2>2 DEF CreateSubject
  <2>5. IsStore(a) /\ a.next = n
    BY <2>3 DEF IsStore
  <2>6. PICK chain : chain = Append(a.chain, Node(n, k))
    OBVIOUS
  <2>7. v = Grown(a, chain, n + 1, frontier)
    BY <2>1, <2>4, <2>5, <2>6 DEF Grown
  <2> HIDE DEF v
  <2>8. v = [ids |-> a.ids, states |-> a.states, chain |-> chain, frontier |-> frontier, next |-> n + 1]
    BY <2>5, <2>7, ReplacedFields
  <2> QED BY <2>3, <2>6, <2>8
<1>3. SetKey(w.states, n, k) = states
  <2>1. 1 .. n = (1 .. n - 1) \cup {n} /\ n \notin 1 .. n - 1 /\ DOMAIN w.states = 1 .. n - 1
    BY <1>1
  <2> QED BY <2>1 DEF SetKey, Lengthened
<1>4. /\ v.ids = SetKey(w.ids, k, n) /\ v.states = states /\ v.next = n + 1
      /\ v.chain = Append(w.chain, Node(n, k)) /\ IsStore(v)
  BY <1>2, <1>3 DEF IsStore
<1>5. /\ DOMAIN v.ids = DOMAIN w.ids \cup {k} /\ v.ids[k] = n
      /\ \A x \in DOMAIN w.ids : v.ids[x] = w.ids[x]
  BY <1>4 DEF SetKey
<1>6. DOMAIN states = 1 .. n /\ (\A s \in 1 .. n - 1 : states[s] = w.states[s]) /\ states[n] = k
      /\ states \in [1 .. n -> Keys \cup {NoKey}]
  BY <1>1 DEF Lengthened
<1> HIDE DEF v, states
<1>7. Live(states) = Live(w.states) \cup {n} /\ n \notin Live(w.states)
      /\ \A s \in Live(w.states) : states[s] = w.states[s]
  BY <1>1, <1>6 DEF Live
<1>8. KeysAreApart(states)
  <2>1. \A s \in Live(w.states) : states[s] # k
    BY <1>7 DEF Sound, IdsTell
  <2> QED BY <1>6, <1>7, <2>1 DEF KeysAreApart, Sound
<1>9. IdsTell(v.ids, states)
  <2>1. DOMAIN w.ids = {w.states[s] : s \in Live(w.states)} /\ \A s \in Live(w.states) : w.ids[w.states[s]] = s
    BY DEF Sound, IdsTell
  <2>2. {states[s] : s \in Live(states)} = DOMAIN w.ids \cup {k}
    BY <1>6, <1>7, <2>1
  <2> QED BY <1>5, <1>6, <1>7, <2>1, <2>2 DEF IdsTell
<1>10. ChainTells(v.chain, states)
  <2>1. w.chain \in Seq(Nodes) /\ IsInjective(w.chain) /\ ToSet(w.chain) = RowsOf(w.states)
    BY DEF Sound, ChainTells
  <2>2. PICK node \in Nodes : node = Node(n, k)
    BY <1>1 DEF Node, Nodes
  <2>3. node \notin RowsOf(w.states)
    BY <1>7, <2>2 DEF RowsOf, Node
  <2>4. RowsOf(states) = RowsOf(w.states) \cup {node}
    BY <1>6, <1>7, <2>2 DEF RowsOf
  <2> QED BY <1>4, <2>1, <2>2, <2>3, <2>4, AppendIs DEF ChainTells
<1>11. n + 1 \in Nat /\ n + 1 > 0 /\ (n + 1) - 1 = n
  BY <1>1
<1> QED BY <1>4, <1>5, <1>6, <1>8, <1>9, <1>10, <1>11 DEF AddedOne, Sound, v, states

(* A row that is there changes its key, or goes.                           *)
LEMMA RestatedKeys ==
    ASSUME NEW w, Sound(w), NEW s \in DOMAIN w.states, NEW k \in Keys \cup {NoKey},
           k = NoKey \/ k \notin DOMAIN w.ids \/ k = w.states[s]
    PROVE  LET states == [w.states EXCEPT ![s] = k]
           IN  /\ states \in [1 .. w.next - 1 -> Keys \cup {NoKey}]
               /\ states[s] = k /\ \A t \in DOMAIN w.states \ {s} : states[t] = w.states[t]
               /\ Live(states) \ {s} = Live(w.states) \ {s}
               /\ s \in Live(states) <=> k # NoKey
               /\ KeysAreApart(states)
<1> DEFINE states == [w.states EXCEPT ![s] = k]
<1>1. /\ w.states \in [1 .. w.next - 1 -> Keys \cup {NoKey}] /\ DOMAIN w.states = 1 .. w.next - 1
      /\ KeysAreApart(w.states)
  BY DEF Sound
<1>2. /\ states \in [1 .. w.next - 1 -> Keys \cup {NoKey}]
      /\ DOMAIN states = DOMAIN w.states
      /\ states[s] = k /\ \A t \in DOMAIN w.states \ {s} : states[t] = w.states[t]
  BY <1>1
<1> HIDE DEF states
<1>3. Live(states) \ {s} = Live(w.states) \ {s}
  BY <1>2 DEF Live
<1>4. s \in Live(states) <=> k # NoKey
  BY <1>2 DEF Live
<1>5. \A t \in Live(w.states) \ {s} : k # NoKey => w.states[t] # k
  <2> TAKE t \in Live(w.states) \ {s}
  <2>1. w.states[t] \in DOMAIN w.ids /\ t \in DOMAIN w.states
    BY LiveIs
  <2>2. w.states[s] = w.states[t] => s \in Live(w.states)
    BY DEF Live
  <2> QED BY <1>1, <2>1, <2>2 DEF KeysAreApart
<1>6. KeysAreApart(states)
  <2> SUFFICES ASSUME NEW x \in Live(states), NEW y \in Live(states), states[x] = states[y] PROVE x = y
    BY DEF KeysAreApart
  <2>1. \A t \in Live(states) \ {s} : t \in Live(w.states) \ {s} /\ states[t] = w.states[t]
    BY <1>2, <1>3 DEF Live
  <2>2. CASE x = s \/ y = s
    BY <1>2, <1>4, <1>5, <2>1, <2>2
  <2>3. CASE x # s /\ y # s
    BY <1>1, <2>1, <2>3 DEF KeysAreApart
  <2> QED BY <2>2, <2>3
<1> QED BY <1>2, <1>3, <1>4, <1>6 DEF states

LEMMA TombstoneSubjectIs ==
    ASSUME NEW w, Sound(w), NEW s \in Live(w.states), NEW frontier
    PROVE  LET v == TombstoneSubject(w, s, w.states[s], frontier)
           IN  /\ Sound(v) /\ v.next = w.next
               /\ v.states = [w.states EXCEPT ![s] = NoKey]
               /\ KeepsOrder(w, v, {s})
<1> PICK k : k = w.states[s]
  OBVIOUS
<1> DEFINE v == TombstoneSubject(w, s, k, frontier)
           states == [w.states EXCEPT ![s] = NoKey]
           rest == Within(w.chain, {node \in ToSet(w.chain) : node.key # k})
<1>0. /\ IsStore(w) /\ s \in DOMAIN w.states /\ k \in Keys /\ k # NoKey /\ k \in DOMAIN w.ids
      /\ w.states \in [1 .. w.next - 1 -> Keys \cup {NoKey}]
      /\ DOMAIN w.ids = {w.states[t] : t \in Live(w.states)}
      /\ \A t \in Live(w.states) : w.ids[w.states[t]] = t
      /\ w.chain \in Seq(Nodes) /\ IsInjective(w.chain) /\ ToSet(w.chain) = RowsOf(w.states)
      /\ KeysAreApart(w.states)
  BY LiveIs DEF Sound, IdsTell, ChainTells
<1>1. v = [ids |-> Forgotten(w.ids, k), states |-> SetKey(w.states, s, NoKey), chain |-> rest,
           frontier |-> frontier, next |-> w.next]
  <2>1. PICK a : a = ForgetKey(w, k)
    OBVIOUS
  <2>2. a = [ids |-> Forgotten(w.ids, k), states |-> w.states, chain |-> w.chain,
             frontier |-> w.frontier, next |-> w.next]
    BY <1>0, <2>1, ForgetIs
  <2>3. IsStore(a) /\ a.chain = w.chain /\ a.states = w.states
    BY <2>2 DEF IsStore
  <2>4. PICK c, d : c = rest /\ d = SetKey(w.states, s, NoKey)
    OBVIOUS
  <2>5. v = Shrunk(a, c, d, frontier)
    BY <2>1, <2>3, <2>4 DEF TombstoneSubject, Shrunk
  <2> HIDE DEF v
  <2>6. v = [ids |-> a.ids, states |-> d, chain |-> c, frontier |-> frontier, next |-> a.next]
    BY <2>3, <2>5, ReplacedFields
  <2> QED BY <2>2, <2>4, <2>6
<1>2. SetKey(w.states, s, NoKey) = states
  <2>1. DOMAIN w.states \cup {s} = DOMAIN w.states
    BY <1>0
  <2> QED BY <2>1 DEF SetKey
<1>3. /\ IsStore(v) /\ v.ids = Forgotten(w.ids, k) /\ v.states = states /\ v.next = w.next
      /\ v.chain = rest
  BY <1>1, <1>2 DEF IsStore
<1>4. /\ states \in [1 .. w.next - 1 -> Keys \cup {NoKey}] /\ states[s] = NoKey
      /\ \A t \in DOMAIN w.states \ {s} : states[t] = w.states[t]
      /\ Live(states) \ {s} = Live(w.states) \ {s} /\ s \notin Live(states) /\ KeysAreApart(states)
  BY <1>0, RestatedKeys
<1> HIDE DEF v, states, rest
<1>5. Live(states) = Live(w.states) \ {s} /\ \A t \in Live(states) : states[t] = w.states[t]
  BY <1>4 DEF Live
<1>6. \A t \in Live(states) : states[t] # k
  BY <1>0, <1>5 DEF KeysAreApart
<1>7. IdsTell(v.ids, states)
  <2>1. {states[t] : t \in Live(states)} = DOMAIN w.ids \ {k}
    BY <1>0, <1>5, <1>6
  <2> QED BY <1>0, <1>3, <1>5, <1>6, <2>1 DEF IdsTell, Forgotten
<1>8. ChainTells(v.chain, states)
  <2>1. /\ rest \in Seq(Nodes) /\ IsInjective(rest)
        /\ ToSet(rest) = {node \in ToSet(w.chain) : node.key # k}
    BY <1>0, WithinIs DEF rest
  <2>2. RowsOf(states) = {node \in RowsOf(w.states) : node.key # k}
    BY <1>0, <1>5, <1>6 DEF RowsOf, Node
  <2> QED BY <1>0, <1>3, <2>1, <2>2 DEF ChainTells
<1>9. KeepsOrder(w, v, {s})
  <2> PICK S : S = {node \in ToSet(w.chain) : node.key # k}
    OBVIOUS
  <2> SUFFICES ASSUME NEW t, NEW u, t # s, u # s, InOrder(SubjectsOf(w.chain), t, u)
               PROVE  InOrder(SubjectsOf(v.chain), t, u)
    BY DEF KeepsOrder, LineKept
  <2>1. PICK i, j \in DOMAIN w.chain : i < j /\ w.chain[i].subject = t /\ w.chain[j].subject = u
    BY DEF InOrder, SubjectsOf
  <2>2. \A h \in DOMAIN w.chain : w.chain[h].subject # s => w.chain[h] \in S
    <3> TAKE h \in DOMAIN w.chain
    <3>1. w.chain[h].subject \in Live(w.states) /\ w.chain[h].key = w.states[w.chain[h].subject]
      BY RowIs
    <3>2. w.chain[h].key = k => w.chain[h].subject = s
      BY <3>1, <1>0 DEF KeysAreApart
    <3> QED BY <3>2 DEF ToSet
  <2>3. w.chain[i] \in S /\ w.chain[j] \in S /\ InOrder(w.chain, w.chain[i], w.chain[j])
    BY <2>1, <2>2 DEF InOrder
  <2>4. InOrder(Within(w.chain, S), w.chain[i], w.chain[j])
    BY <1>0, <2>3, WithinKeeps
  <2>5. v.chain = Within(w.chain, S)
    BY <1>3 DEF rest
  <2>6. PICK a, b \in DOMAIN v.chain : a < b /\ v.chain[a] = w.chain[i] /\ v.chain[b] = w.chain[j]
    BY <2>4, <2>5 DEF InOrder
  <2> QED BY <2>1, <2>6 DEF InOrder, SubjectsOf
<1> QED BY <1>3, <1>4, <1>7, <1>8, <1>9 DEF Sound, v, states

LEMMA TransferSubjectIs ==
    ASSUME NEW w, Sound(w), NEW s \in Live(w.states), NEW to \in Keys, to \notin DOMAIN w.ids
    PROVE  LET v == TransferSubject(w, s, w.states[s], to)
           IN  /\ Sound(v) /\ v.next = w.next
               /\ v.states = [w.states EXCEPT ![s] = to]
               /\ SubjectsOf(v.chain) = SubjectsOf(w.chain)
<1> PICK k : k = w.states[s]
  OBVIOUS
<1> PICK i : i = IndexOfKey(w.chain, k)
  OBVIOUS
<1> DEFINE v == TransferSubject(w, s, k, to)
           states == [w.states EXCEPT ![s] = to]
           ids == SetKey(Forgotten(w.ids, k), to, s)
           chain == [w.chain EXCEPT ![i].key = to]
<1>0. /\ IsStore(w) /\ s \in DOMAIN w.states /\ k \in Keys /\ k # NoKey /\ k \in DOMAIN w.ids
      /\ w.states \in [1 .. w.next - 1 -> Keys \cup {NoKey}] /\ s \in Nat
      /\ DOMAIN w.ids = {w.states[t] : t \in Live(w.states)}
      /\ \A t \in Live(w.states) : w.ids[w.states[t]] = t
      /\ w.chain \in Seq(Nodes) /\ IsInjective(w.chain) /\ ToSet(w.chain) = RowsOf(w.states)
      /\ KeysAreApart(w.states) /\ to # NoKey /\ Node(s, k) \in ToSet(w.chain)
  BY LiveIs, KeysAssumption DEF Sound, IdsTell, ChainTells
<1>a. i \in DOMAIN w.chain /\ i # 0 /\ w.chain[i].key = k
  <2>1. \E j \in DOMAIN w.chain : w.chain[j].key = k
    BY <1>0 DEF ToSet, Node
  <2> QED BY <1>0, <2>1, IndexOfKeyIs
<1>b. w.chain[i] = Node(s, k)
  BY <1>a, RowIs DEF Sound, KeysAreApart
<1>1. v = [ids |-> ids, states |-> SetKey(w.states, s, to), chain |-> chain,
           frontier |-> w.frontier, next |-> w.next]
  <2>1. PICK a : a = ForgetKey(w, k)
    OBVIOUS
  <2>2. a = [ids |-> Forgotten(w.ids, k), states |-> w.states, chain |-> w.chain,
             frontier |-> w.frontier, next |-> w.next]
    BY <1>0, <2>1, ForgetIs
  <2>3. IsStore(a)
    BY <2>2 DEF IsStore
  <2>4. PICK b : b = ActivateSubject(a, s, to)
    OBVIOUS
  <2>5. b = [ids |-> SetKey(a.ids, to, s), states |-> SetKey(a.states, s, to),
             chain |-> a.chain, frontier |-> a.frontier, next |-> a.next]
    BY <2>3, <2>4, ActivateIs
  <2>6. IsStore(b) /\ b.chain = w.chain
    BY <2>2, <2>5 DEF IsStore
  <2>7. PICK c : c = chain
    OBVIOUS
  <2>8. v = [b EXCEPT !.chain = c]
    <3>1. PICK d : d = IF i = 0 THEN Append(b.chain, Node(s, to)) ELSE [b.chain EXCEPT ![i].key = to]
      OBVIOUS
    <3>2. v = [b EXCEPT !.chain = d]
      BY <2>1, <2>4, <2>6, <3>1 DEF TransferSubject
    <3>3. d = c
      BY <1>a, <2>6, <2>7, <3>1
    <3> QED BY <3>2, <3>3
  <2> HIDE DEF v
  <2>9. v = [ids |-> b.ids, states |-> b.states, chain |-> c, frontier |-> b.frontier, next |-> b.next]
    BY <2>6, <2>8, ReplacedFields
  <2> QED BY <2>2, <2>5, <2>7, <2>9
<1>2. SetKey(w.states, s, to) = states
  <2>1. DOMAIN w.states \cup {s} = DOMAIN w.states
    BY <1>0
  <2> QED BY <2>1 DEF SetKey
<1>3. /\ IsStore(v) /\ v.ids = ids /\ v.states = states /\ v.next = w.next /\ v.chain = chain
  BY <1>1, <1>2 DEF IsStore
<1>4. /\ states \in [1 .. w.next - 1 -> Keys \cup {NoKey}] /\ states[s] = to
      /\ \A t \in DOMAIN w.states \ {s} : states[t] = w.states[t]
      /\ Live(states) \ {s} = Live(w.states) \ {s} /\ s \in Live(states) /\ KeysAreApart(states)
  BY <1>0, RestatedKeys
<1>c. /\ chain \in Seq(Nodes) /\ DOMAIN chain = DOMAIN w.chain /\ chain[i] = Node(s, to)
      /\ \A j \in DOMAIN w.chain \ {i} : chain[j] = w.chain[j]
  <2>1. [w.chain[i] EXCEPT !.key = to] = Node(s, to)
    BY <1>b DEF Node
  <2>2. Node(s, to) \in Nodes
    BY <1>0 DEF Node, Nodes
  <2>3. chain = [w.chain EXCEPT ![i] = Node(s, to)]
    BY <2>1
  <2>4. PICK node, line : node = Node(s, to) /\ line = w.chain
    OBVIOUS
  <2>5. node \in Nodes /\ line \in Seq(Nodes) /\ i \in DOMAIN line /\ chain = [line EXCEPT ![i] = node]
    BY <1>0, <1>a, <2>2, <2>3, <2>4
  <2> HIDE DEF chain
  <2>6. /\ chain \in Seq(Nodes) /\ DOMAIN chain = DOMAIN line /\ chain[i] = node
        /\ \A j \in DOMAIN line \ {i} : chain[j] = line[j]
    BY <2>5
  <2> QED BY <2>4, <2>6
<1> HIDE DEF v, states, chain, ids
<1>5. Live(states) = Live(w.states) /\ \A t \in Live(states) : t # s => states[t] = w.states[t]
  BY <1>4 DEF Live
<1>6. \A t \in Live(states) : t # s => states[t] # k
  BY <1>0, <1>5 DEF KeysAreApart
<1>7. IdsTell(v.ids, states)
  <2>1. {states[t] : t \in Live(states)} = (DOMAIN w.ids \ {k}) \cup {to}
    BY <1>0, <1>4, <1>5, <1>6
  <2>2. /\ DOMAIN ids = (DOMAIN w.ids \ {k}) \cup {to} /\ ids[to] = s
        /\ \A x \in DOMAIN w.ids \ {k} : ids[x] = w.ids[x]
    BY DEF ids, SetKey, Forgotten
  <2>3. \A t \in Live(states) : ids[states[t]] = t
    <3> TAKE t \in Live(states)
    <3>1. CASE t = s
      BY <1>4, <2>2, <3>1
    <3>2. CASE t # s
      <4>1. t \in Live(w.states) /\ states[t] = w.states[t] /\ states[t] # k
        BY <1>5, <1>6, <3>2
      <4> QED BY <1>0, <2>2, <4>1
    <3> QED BY <3>1, <3>2
  <2> QED BY <1>3, <2>1, <2>2, <2>3 DEF IdsTell
<1>8. ChainTells(v.chain, states)
  <2>1. \A j \in DOMAIN w.chain \ {i} : w.chain[j].subject # s
    BY <1>a, <1>b, OnePlace DEF Node
  <2>2. \A j \in DOMAIN w.chain \ {i} :
           /\ chain[j].subject \in Live(states) \ {s}
           /\ chain[j] = Node(chain[j].subject, states[chain[j].subject])
    <3> TAKE j \in DOMAIN w.chain \ {i}
    <3>1. /\ chain[j] = w.chain[j] /\ w.chain[j].subject \in Live(w.states) /\ w.chain[j].subject # s
          /\ w.chain[j] = Node(w.chain[j].subject, w.states[w.chain[j].subject])
      BY <1>c, <2>1, RowIs
    <3> QED BY <1>5, <3>1
  <2>3. IsInjective(chain)
    <3>1. chain[i].subject = s
      BY <1>c DEF Node
    <3> QED BY <1>0, <1>c, <2>2, <3>1 DEF IsInjective
  <2>4. ToSet(chain) \subseteq RowsOf(states)
    BY <1>4, <1>c, <2>2 DEF ToSet, RowsOf
  <2>5. RowsOf(states) \subseteq ToSet(chain)
    <3> SUFFICES ASSUME NEW t \in Live(states) PROVE Node(t, states[t]) \in ToSet(chain)
      BY DEF RowsOf
    <3>1. CASE t = s
      BY <1>4, <1>a, <1>c, <3>1 DEF ToSet
    <3>2. CASE t # s
      <4>1. Node(t, w.states[t]) \in ToSet(w.chain) /\ states[t] = w.states[t]
        BY <1>0, <1>5, <3>2 DEF RowsOf
      <4>2. PICK j \in DOMAIN w.chain : w.chain[j] = Node(t, w.states[t])
        BY <4>1 DEF ToSet
      <4>3. j # i
        BY <1>b, <3>2, <4>2 DEF Node
      <4> QED BY <1>c, <4>1, <4>2, <4>3 DEF ToSet
    <3> QED BY <3>1, <3>2
  <2> QED BY <1>3, <1>c, <2>3, <2>4, <2>5 DEF ChainTells
<1>9. SubjectsOf(v.chain) = SubjectsOf(w.chain)
  <2>1. chain[i].subject = w.chain[i].subject
    BY <1>b, <1>c DEF Node
  <2>2. \A j \in DOMAIN w.chain : chain[j].subject = w.chain[j].subject
    BY <1>c, <2>1
  <2> QED BY <1>3, <1>c, <2>2 DEF SubjectsOf
<1> QED BY <1>3, <1>4, <1>7, <1>8, <1>9 DEF Sound, v, states

LEMMA RestorePlaceIs ==
    ASSUME NEW T, NEW chain \in Seq(T), NEW left, NEW right
    PROVE  RestorePlace(chain, left, right) \in 1 .. Len(chain) + 1
<1> PICK l, r \in 0 .. Len(chain) : l = IndexOfSubject(chain, left) /\ r = IndexOfSubject(chain, right)
  BY IndexOfSubjectIs
<1>1. CASE r # 0
  BY <1>1 DEF RestorePlace
<1>2. CASE r = 0 /\ l # 0
  BY <1>2 DEF RestorePlace
<1>3. CASE r = 0 /\ l = 0
  BY <1>3 DEF RestorePlace
<1> QED BY <1>1, <1>2, <1>3

LEMMA RestoreSubjectIs ==
    ASSUME NEW w, Sound(w), NEW s \in DOMAIN w.states, w.states[s] = NoKey,
           NEW k \in Keys, k \notin DOMAIN w.ids, NEW left, NEW right, NEW frontier
    PROVE  LET v == RestoreSubject(w, s, k, left, right, frontier)
           IN  /\ Sound(v) /\ v.next = w.next
               /\ v.states = [w.states EXCEPT ![s] = k]
               /\ KeepsOrder(w, v, {})
<1> PICK p : p = RestorePlace(w.chain, left, right)
  OBVIOUS
<1> PICK node : node = Node(s, k)
  OBVIOUS
<1> DEFINE v == RestoreSubject(w, s, k, left, right, frontier)
           states == [w.states EXCEPT ![s] = k]
           ids == SetKey(w.ids, k, s)
           chain == InsertAt(w.chain, p, node)
<1>0. /\ IsStore(w) /\ w.states \in [1 .. w.next - 1 -> Keys \cup {NoKey}] /\ s \in Nat
      /\ DOMAIN w.ids = {w.states[t] : t \in Live(w.states)}
      /\ \A t \in Live(w.states) : w.ids[w.states[t]] = t
      /\ w.chain \in Seq(Nodes) /\ IsInjective(w.chain) /\ ToSet(w.chain) = RowsOf(w.states)
      /\ KeysAreApart(w.states) /\ k # NoKey /\ s \notin Live(w.states)
  BY KeysAssumption DEF Sound, IdsTell, ChainTells, Live
<1>1. v = [ids |-> ids, states |-> SetKey(w.states, s, k), chain |-> chain,
           frontier |-> frontier, next |-> w.next]
  <2>4. PICK b : b = ActivateSubject(w, s, k)
    OBVIOUS
  <2>5. b = [ids |-> ids, states |-> SetKey(w.states, s, k),
             chain |-> w.chain, frontier |-> w.frontier, next |-> w.next]
    BY <1>0, <2>4, ActivateIs
  <2>6. IsStore(b) /\ b.chain = w.chain
    BY <2>5 DEF IsStore
  <2>7. PICK c : c = chain
    OBVIOUS
  <2>8. v = Ordered(b, c, frontier)
    BY <2>4, <2>6, <2>7 DEF RestoreSubject, Ordered
  <2> HIDE DEF v
  <2>9. v = [ids |-> b.ids, states |-> b.states, chain |-> c, frontier |-> frontier, next |-> b.next]
    BY <2>6, <2>8, ReplacedFields
  <2> QED BY <2>5, <2>7, <2>9
<1>2. SetKey(w.states, s, k) = states
  <2>1. DOMAIN w.states \cup {s} = DOMAIN w.states
    BY <1>0
  <2> QED BY <2>1 DEF SetKey
<1>3. /\ IsStore(v) /\ v.ids = ids /\ v.states = states /\ v.next = w.next /\ v.chain = chain
  BY <1>1, <1>2 DEF IsStore
<1>4. /\ states \in [1 .. w.next - 1 -> Keys \cup {NoKey}] /\ states[s] = k
      /\ \A t \in DOMAIN w.states \ {s} : states[t] = w.states[t]
      /\ Live(states) \ {s} = Live(w.states) \ {s} /\ s \in Live(states) /\ KeysAreApart(states)
  BY <1>0, RestatedKeys
<1> HIDE DEF v, states, chain, ids
<1>5. Live(states) = Live(w.states) \cup {s} /\ \A t \in Live(w.states) : states[t] = w.states[t]
  BY <1>0, <1>4 DEF Live
<1>7. IdsTell(v.ids, states)
  <2>1. {states[t] : t \in Live(states)} = DOMAIN w.ids \cup {k}
    BY <1>0, <1>4, <1>5
  <2>2. DOMAIN ids = DOMAIN w.ids \cup {k} /\ ids[k] = s /\ \A x \in DOMAIN w.ids : ids[x] = w.ids[x]
    BY DEF ids, SetKey
  <2> QED BY <1>0, <1>3, <1>4, <1>5, <2>1, <2>2 DEF IdsTell
<1>8. ChainTells(v.chain, states)
  <2>1. node \in Nodes /\ p \in 1 .. Len(w.chain) + 1
    BY <1>0, RestorePlaceIs DEF Node, Nodes
  <2>2. node \notin RowsOf(w.states)
    BY <1>0 DEF RowsOf, Node
  <2>3. RowsOf(states) = RowsOf(w.states) \cup {node}
    BY <1>4, <1>5 DEF RowsOf
  <2>4. chain \in Seq(Nodes) /\ ToSet(chain) = ToSet(w.chain) \cup {node} /\ IsInjective(chain)
    BY <1>0, <2>1, <2>2, InsertAtIs DEF chain
  <2> QED BY <1>0, <1>3, <2>3, <2>4 DEF ChainTells
<1>9. KeepsOrder(w, v, {})
  <2>1. node \in Nodes /\ p \in 1 .. Len(w.chain) + 1
    BY <1>0, RestorePlaceIs DEF Node, Nodes
  <2>2. OrderKept(w.chain, chain)
    BY <1>0, <2>1, InsertAtKeeps DEF chain
  <2> QED BY <1>3, <2>2, SubjectsKept DEF KeepsOrder
<1> QED BY <1>3, <1>4, <1>7, <1>8, <1>9 DEF Sound, v, states

(* The rows at some keys, in the order of the keys.                        *)
LEMMA NodesOfIs ==
    ASSUME NEW w, Sound(w), NEW keys \in Seq(Keys), IsInjective(keys), ToSet(keys) \subseteq DOMAIN w.ids
    PROVE  LET nodes == NodesOf(w.chain, keys)
           IN  /\ nodes \in Seq(Nodes) /\ DOMAIN nodes = DOMAIN keys /\ IsInjective(nodes)
               /\ \A i \in DOMAIN keys : nodes[i] = Node(w.ids[keys[i]], keys[i])
               /\ ToSet(nodes) = {node \in ToSet(w.chain) : node.key \in ToSet(keys)}
<1> DEFINE nodes == NodesOf(w.chain, keys)
<1>1. /\ w.chain \in Seq(Nodes) /\ ToSet(w.chain) = RowsOf(w.states)
      /\ DOMAIN w.ids = {w.states[t] : t \in Live(w.states)}
      /\ \A t \in Live(w.states) : w.ids[w.states[t]] = t
  BY DEF Sound, ChainTells, IdsTell
<1>2. ASSUME NEW i \in DOMAIN keys
      PROVE  /\ nodes[i] = Node(w.ids[keys[i]], keys[i])
             /\ nodes[i] \in ToSet(w.chain) /\ nodes[i].key = keys[i]
  <2>1. keys[i] \in DOMAIN w.ids
    BY DEF ToSet
  <2>2. PICK t \in Live(w.states) : keys[i] = w.states[t] /\ w.ids[keys[i]] = t
    BY <1>1, <2>1
  <2>3. Node(t, w.states[t]) \in ToSet(w.chain)
    BY <1>1 DEF RowsOf
  <2>4. PICK j : j = IndexOfKey(w.chain, keys[i])
    OBVIOUS
  <2>5. \E m \in DOMAIN w.chain : w.chain[m].key = keys[i]
    BY <2>2, <2>3 DEF ToSet, Node
  <2>6. j \in DOMAIN w.chain /\ w.chain[j].key = keys[i]
    BY <1>1, <2>4, <2>5, IndexOfKeyIs
  <2>7. w.chain[j] = Node(t, w.states[t])
    BY <2>2, <2>6, RowIs DEF Sound, KeysAreApart
  <2>8. nodes[i] = w.chain[j]
    BY <2>4 DEF NodesOf
  <2> HIDE DEF nodes
  <2> QED BY <2>2, <2>3, <2>7, <2>8 DEF Node
<1>3. nodes = [i \in DOMAIN keys |-> nodes[i]] /\ DOMAIN nodes = DOMAIN keys
  BY DEF NodesOf
<1> HIDE DEF nodes
<1>4. ToSet(w.chain) \subseteq Nodes
  BY <1>1 DEF ToSet
<1>5. nodes \in Seq(Nodes)
  <2>1. \A i \in 1 .. Len(keys) : nodes[i] \in Nodes
    BY <1>2, <1>4
  <2>2. nodes = [i \in 1 .. Len(keys) |-> nodes[i]]
    BY <1>3
  <2> QED BY <2>1, <2>2
<1>6. IsInjective(nodes)
  BY <1>2, <1>3 DEF IsInjective
<1>7. ToSet(nodes) = {node \in ToSet(w.chain) : node.key \in ToSet(keys)}
  <2>1. ToSet(nodes) \subseteq {node \in ToSet(w.chain) : node.key \in ToSet(keys)}
    BY <1>2, <1>3 DEF ToSet
  <2>2. ASSUME NEW node \in ToSet(w.chain), node.key \in ToSet(keys) PROVE node \in ToSet(nodes)
    <3>1. PICK i \in DOMAIN keys : node.key = keys[i]
      BY <2>2 DEF ToSet
    <3>2. PICK j \in DOMAIN w.chain : node = w.chain[j]
      BY DEF ToSet
    <3>3. PICK m \in DOMAIN w.chain : nodes[i] = w.chain[m]
      BY <1>2 DEF ToSet
    <3>4. nodes[i] = node
      BY <1>2, <3>1, <3>2, <3>3, OnePlace
    <3> QED BY <1>3, <3>4 DEF ToSet
  <2> QED BY <2>1, <2>2
<1> QED BY <1>2, <1>3, <1>5, <1>6, <1>7 DEF nodes

LEMMA ReorderedIs ==
    ASSUME NEW w, Sound(w), NEW chain \in Seq(Nodes), IsInjective(chain), ToSet(chain) = ToSet(w.chain),
           NEW frontier
    PROVE  LET v == Ordered(w, chain, frontier)
           IN  /\ Sound(v) /\ v.next = w.next /\ v.states = w.states /\ v.ids = w.ids /\ v.chain = chain
<1> DEFINE v == Ordered(w, chain, frontier)
<1>1. v = [ids |-> w.ids, states |-> w.states, chain |-> chain, frontier |-> frontier, next |-> w.next]
  BY ReplacedFields DEF Sound
<1> HIDE DEF v
<1>2. IsStore(v) /\ v.next = w.next /\ v.states = w.states /\ v.ids = w.ids /\ v.chain = chain
  BY <1>1 DEF IsStore
<1>3. ChainTells(v.chain, v.states)
  BY <1>2 DEF Sound, ChainTells
<1> QED BY <1>2, <1>3 DEF Sound, v

LEMMA MoveKeysToFrontIs ==
    ASSUME NEW w, Sound(w), NEW keys \in Seq(Keys), IsInjective(keys), ToSet(keys) \subseteq DOMAIN w.ids,
           NEW frontier
    PROVE  LET v == MoveKeysToFront(w, keys, frontier)
           IN  /\ Sound(v) /\ v.next = w.next /\ v.states = w.states /\ v.ids = w.ids
<1> DEFINE a == NodesOf(w.chain, keys)
           b == Within(w.chain, {node \in ToSet(w.chain) : node.key \notin ToSet(keys)})
<1>1. w.chain \in Seq(Nodes) /\ IsInjective(w.chain)
  BY DEF Sound, ChainTells
<1>2. /\ a \in Seq(Nodes) /\ IsInjective(a)
      /\ ToSet(a) = {node \in ToSet(w.chain) : node.key \in ToSet(keys)}
  BY NodesOfIs
<1>3. /\ b \in Seq(Nodes) /\ IsInjective(b)
      /\ ToSet(b) = {node \in ToSet(w.chain) : node.key \notin ToSet(keys)}
  BY <1>1, WithinIs
<1>4. PICK c : c = a \o b
  OBVIOUS
<1>5. MoveKeysToFront(w, keys, frontier) = Ordered(w, c, frontier)
  BY <1>4 DEF MoveKeysToFront, Ordered
<1> HIDE DEF a, b
<1>a. ToSet(a) \cap ToSet(b) = {} /\ ToSet(a) \cup ToSet(b) = ToSet(w.chain)
  BY <1>2, <1>3
<1>6. c \in Seq(Nodes) /\ IsInjective(c) /\ ToSet(c) = ToSet(w.chain)
  <2>1. a \o b \in Seq(Nodes) /\ ToSet(a \o b) = ToSet(a) \cup ToSet(b) /\ IsInjective(a \o b)
    BY <1>2, <1>3, <1>a, ConcatIs
  <2> QED BY <1>4, <1>a, <2>1
<1> QED BY <1>5, <1>6, ReorderedIs

LEMMA ReorderActiveKeysIs ==
    ASSUME NEW w, Sound(w), NEW keys \in Seq(Keys), IsInjective(keys), ToSet(keys) = DOMAIN w.ids,
           NEW frontier
    PROVE  LET v == ReorderActiveKeys(w, keys, frontier)
           IN  /\ Sound(v) /\ v.next = w.next /\ v.states = w.states /\ v.ids = w.ids
               /\ v.chain = NodesOf(w.chain, keys)
<1> PICK c : c = NodesOf(w.chain, keys)
  OBVIOUS
<1>1. /\ c \in Seq(Nodes) /\ IsInjective(c)
      /\ ToSet(c) = {node \in ToSet(w.chain) : node.key \in ToSet(keys)}
  BY NodesOfIs
<1>2. \A node \in ToSet(w.chain) : node.key \in DOMAIN w.ids
  BY DEF Sound, ChainTells, IdsTell, RowsOf, Node
<1>3. ToSet(c) = ToSet(w.chain)
  BY <1>1, <1>2
<1>4. ReorderActiveKeys(w, keys, frontier) = Ordered(w, c, frontier)
  BY DEF ReorderActiveKeys, Ordered
<1> QED BY <1>1, <1>3, <1>4, ReorderedIs

(* The states of which `keys` names the live rows.                         *)
Spread(states, keys) == [s \in DOMAIN states |-> IF s \in DOMAIN keys THEN keys[s] ELSE NoKey]

KeysNamed(keys) == \A s \in DOMAIN keys : keys[s] \in Keys

LEMMA InstallTargetIs ==
    ASSUME NEW w, Sound(w), NEW keys, KeysNamed(keys),
           NEW rows \in Seq(Nat), CanInstall(w, keys, rows), NEW frontier
    PROVE  LET v == InstallTarget(w, keys, rows, frontier)
           IN  Sound(v) /\ v.next = w.next /\ v.states = Spread(w.states, keys)
<1> DEFINE v == InstallTarget(w, keys, rows, frontier)
           states == Spread(w.states, keys)
           ids == [k \in {keys[s] : s \in DOMAIN keys} |-> CHOOSE s \in DOMAIN keys : keys[s] = k]
           chain == [i \in DOMAIN rows |-> Node(rows[i], keys[rows[i]])]
<1>0. /\ \A s, t \in DOMAIN keys : keys[s] = keys[t] => s = t
      /\ DOMAIN keys \subseteq DOMAIN w.states
      /\ Len(rows) = Cardinality(DOMAIN keys) /\ ToSet(rows) = DOMAIN keys
      /\ w.next \in Nat /\ w.next > 0 /\ w.states \in [1 .. w.next - 1 -> Keys \cup {NoKey}]
      /\ \A s \in DOMAIN keys : keys[s] \in Keys /\ keys[s] # NoKey
  BY KeysAssumption DEF CanInstall, Sound, KeysNamed
<1>1. /\ v.ids = ids /\ v.states = states /\ v.chain = chain /\ v.next = w.next /\ IsStore(v)
  BY DEF InstallTarget, IsStore, Spread
<1>2. /\ states \in [1 .. w.next - 1 -> Keys \cup {NoKey}] /\ DOMAIN states = DOMAIN w.states
      /\ \A s \in DOMAIN keys : states[s] = keys[s]
      /\ \A s \in DOMAIN w.states : s \notin DOMAIN keys => states[s] = NoKey
  BY <1>0 DEF Spread
<1>3. Live(states) = DOMAIN keys
  BY <1>0, <1>2 DEF Live
<1> HIDE DEF v, states
<1>4. KeysAreApart(states)
  BY <1>0, <1>2, <1>3 DEF KeysAreApart
<1>5. IdsTell(ids, states)
  <2>1. DOMAIN ids = {states[s] : s \in Live(states)}
    BY <1>2, <1>3
  <2>2. ASSUME NEW s \in DOMAIN keys PROVE ids[keys[s]] = s
    <3>1. \A t \in DOMAIN keys : keys[t] = keys[s] => t = s
      BY <1>0
    <3>2. (CHOOSE t \in DOMAIN keys : keys[t] = keys[s]) = s
      BY <3>1
    <3> QED BY <3>2
  <2> HIDE DEF ids
  <2> QED BY <1>2, <1>3, <2>1, <2>2 DEF IdsTell
<1>6. IsInjective(rows)
  <2> PICK n \in Nat : n = Len(rows) /\ DOMAIN rows = 1 .. n
    BY ListDomain
  <2>1. rows \in Surjection(1 .. n, DOMAIN keys)
    <3>1. rows \in [1 .. n -> DOMAIN keys]
      BY <1>0 DEF ToSet
    <3>2. \A t \in DOMAIN keys : \E i \in 1 .. n : rows[i] = t
      BY <1>0 DEF ToSet
    <3> QED BY <3>1, <3>2 DEF Surjection
  <2>2. IsFiniteSet(1 .. n) /\ Cardinality(1 .. n) = n
    <3>1. 1 \in Int /\ n \in Int /\ (IF 1 > n THEN 0 ELSE n - 1 + 1) = n
      OBVIOUS
    <3> QED BY <3>1, FS_Interval
  <2>3. rows \in Injection(1 .. n, DOMAIN keys)
    BY <1>0, <2>1, <2>2, FS_SurjSameCardinalityImpliesInj
  <2> QED BY <2>3 DEF Injection
<1>7. ChainTells(chain, states)
  <2>1. \A i \in DOMAIN rows : rows[i] \in DOMAIN keys /\ rows[i] \in Nat
    BY <1>0 DEF ToSet
  <2>2. \A i \in DOMAIN rows : chain[i] \in Nodes /\ chain[i].subject = rows[i]
    BY <1>0, <2>1 DEF Node, Nodes
  <2>3. DOMAIN chain = DOMAIN rows /\ \A i \in DOMAIN rows : chain[i] = Node(rows[i], states[rows[i]])
    BY <1>2, <2>1
  <2>4. chain = [i \in 1 .. Len(rows) |-> chain[i]] /\ DOMAIN rows = 1 .. Len(rows) /\ Len(rows) \in Nat
    BY ListDomain
  <2> HIDE DEF chain
  <2>5. chain \in Seq(Nodes)
    BY <2>2, <2>4
  <2>6. IsInjective(chain)
    BY <1>6, <2>2, <2>3 DEF IsInjective
  <2>7. ToSet(chain) = RowsOf(states)
    BY <1>0, <1>3, <2>1, <2>3 DEF ToSet, RowsOf
  <2> QED BY <2>5, <2>6, <2>7 DEF ChainTells
<1> QED BY <1>0, <1>1, <1>2, <1>4, <1>5, <1>7 DEF Sound, v, states

-----------------------------------------------------------------------------
(* Several rows at a time                                                  *)

FirstItems(list, n) == {list[i] : i \in 1 .. n}

(* v is w with rows for the keys K that w has no row at.                   *)
Added(w, v, K) ==
    /\ Sound(v) /\ v.next >= w.next
    /\ \A s \in DOMAIN w.states : s \in DOMAIN v.states /\ v.states[s] = w.states[s]
    /\ \A s \in DOMAIN v.states : s >= w.next => v.states[s] \in K \ DOMAIN w.ids
    /\ DOMAIN v.ids = DOMAIN w.ids \cup K
    /\ \A k \in DOMAIN w.ids : v.ids[k] = w.ids[k]
    /\ \A k \in K \ DOMAIN w.ids : v.ids[k] >= w.next

CreateStep(frontier, w, k) == IF k \in DOMAIN w.ids THEN w ELSE CreateSubject(w, w.next, k, frontier)
CreateHolds(p, n, v) == Added(p.store, v, FirstItems(p.list, n))
Creating == INSTANCE Stepwise WITH Step <- CreateStep, Holds <- CreateHolds

LEMMA AddedNext ==
    ASSUME NEW w, Sound(w), NEW v, NEW K, Added(w, v, K), NEW k \in Keys, NEW frontier
    PROVE  Added(w, CreateStep(frontier, v, k), K \cup {k})
<1>1. CASE k \in DOMAIN v.ids
  <2>1. CreateStep(frontier, v, k) = v
    BY <1>1 DEF CreateStep
  <2>2. v.ids[k] \in DOMAIN v.states /\ v.states[v.ids[k]] = k
    BY <1>1, LiveIs DEF Added, Sound, IdsTell
  <2>3. k \notin DOMAIN w.ids => k \in K
    BY <1>1 DEF Added
  <2> QED BY <1>1, <2>1, <2>3 DEF Added
<1>2. CASE k \notin DOMAIN v.ids
  <2> PICK u : u = CreateSubject(v, v.next, k, frontier)
    OBVIOUS
  <2>1. CreateStep(frontier, v, k) = u
    BY <1>2 DEF CreateStep
  <2>2. PICK n, m : n = v.next /\ m = w.next
    OBVIOUS
  <2>a. Sound(v)
    BY DEF Added
  <2>b. AddedOne(v, u, k)
    BY <1>2, <2>a, CreateSubjectIs
  <2>3. /\ Sound(u) /\ u.next = n + 1
        /\ u.states = [s \in 1 .. n |-> IF s = n THEN k ELSE v.states[s]]
        /\ DOMAIN u.ids = DOMAIN v.ids \cup {k} /\ u.ids[k] = n
        /\ \A x \in DOMAIN v.ids : u.ids[x] = v.ids[x]
    BY <2>2, <2>b DEF AddedOne, Lengthened
  <2>4. /\ n \in Nat /\ m \in Nat /\ n >= m /\ DOMAIN v.states = 1 .. n - 1 /\ DOMAIN w.states = 1 .. m - 1
        /\ \A s \in DOMAIN w.states : s \in DOMAIN v.states /\ v.states[s] = w.states[s]
        /\ \A s \in DOMAIN v.states : s >= m => v.states[s] \in K \ DOMAIN w.ids
        /\ DOMAIN v.ids = DOMAIN w.ids \cup K
        /\ \A x \in DOMAIN w.ids : v.ids[x] = w.ids[x]
        /\ \A x \in K \ DOMAIN w.ids : v.ids[x] >= m
    BY <2>2 DEF Added, Sound
  <2>5. u.next >= m
    BY <2>3, <2>4
  <2>6. \A s \in DOMAIN w.states : s \in DOMAIN u.states /\ u.states[s] = w.states[s]
    <3> TAKE s \in DOMAIN w.states
    <3>1. s \in 1 .. n - 1 /\ s \in 1 .. n /\ s # n
      BY <2>4
    <3> QED BY <2>3, <2>4, <3>1
  <2>7. \A s \in DOMAIN u.states : s >= m => u.states[s] \in (K \cup {k}) \ DOMAIN w.ids
    <3> SUFFICES ASSUME NEW s \in 1 .. n, s >= m PROVE u.states[s] \in (K \cup {k}) \ DOMAIN w.ids
      BY <2>3
    <3>1. CASE s = n
      BY <1>2, <2>3, <2>4, <3>1
    <3>2. CASE s # n
      <4>1. s \in DOMAIN v.states
        BY <2>4, <3>2
      <4> QED BY <2>3, <2>4, <3>2, <4>1
    <3> QED BY <3>1, <3>2
  <2>8. DOMAIN u.ids = DOMAIN w.ids \cup (K \cup {k})
    BY <2>3, <2>4
  <2>9. \A x \in DOMAIN w.ids : u.ids[x] = w.ids[x]
    BY <2>3, <2>4
  <2>10. \A x \in (K \cup {k}) \ DOMAIN w.ids : u.ids[x] >= m
    <3> TAKE x \in (K \cup {k}) \ DOMAIN w.ids
    <3>1. CASE x = k
      BY <2>3, <2>4, <3>1
    <3>2. CASE x # k
      BY <2>3, <2>4, <3>2
    <3> QED BY <3>1, <3>2
  <2> QED BY <2>1, <2>2, <2>3, <2>5, <2>6, <2>7, <2>8, <2>9, <2>10 DEF Added
<1> QED BY <1>1, <1>2

LEMMA CreateEachIs ==
    ASSUME NEW w, Sound(w), NEW keys \in Seq(Keys), NEW frontier
    PROVE  Added(w, CreateEach(w, keys, frontier), ToSet(keys))
<1> DEFINE p == [store |-> w, list |-> keys]
<1>1. CreateEach(w, keys, frontier) = Creating!Folded(frontier, w, keys)
  BY DEF CreateEach, Creating!Folded, Creating!Greatest, CreateStep, FoldLeft, MapThenFoldSet, Max
<1>2. PICK n \in Nat : n = Len(keys) /\ DOMAIN keys = 1 .. n
  BY ListDomain
<1>3. CreateHolds(p, 0, w)
  <2>1. FirstItems(keys, 0) = {}
    BY DEF FirstItems
  <2>2. Added(w, w, {})
    BY DEF Added, Sound
  <2> QED BY <2>1, <2>2 DEF CreateHolds
<1>4. ASSUME NEW v, NEW i \in 1 .. n, CreateHolds(p, i - 1, v)
      PROVE  CreateHolds(p, i, CreateStep(frontier, v, keys[i]))
  <2>1. keys[i] \in Keys /\ 1 .. i = (1 .. i - 1) \cup {i}
    BY <1>2
  <2>2. FirstItems(keys, i) = FirstItems(keys, i - 1) \cup {keys[i]}
    BY <2>1 DEF FirstItems
  <2>3. Added(w, v, FirstItems(keys, i - 1))
    BY <1>4 DEF CreateHolds
  <2> QED BY <2>1, <2>2, <2>3, AddedNext DEF CreateHolds
<1>5. CreateHolds(p, n, CreateEach(w, keys, frontier))
  <2>1. Creating!PlacesAreOrdered(n)
    BY LeastPlaces DEF Creating!PlacesAreOrdered
  <2> QED BY <1>1, <1>2, <1>3, <1>4, <2>1, Creating!FoldKeeps
<1>6. FirstItems(keys, n) = ToSet(keys)
  BY <1>2 DEF FirstItems, ToSet
<1> QED BY <1>5, <1>6 DEF CreateHolds

(* v is w without the rows of S.                                           *)
Removed(w, v, S) ==
    /\ Sound(v) /\ v.next = w.next
    /\ v.states = [s \in DOMAIN w.states |-> IF s \in S THEN NoKey ELSE w.states[s]]
    /\ KeepsOrder(w, v, S)

TombstoneStep(frontier, w, node) == TombstoneSubject(w, node.subject, node.key, frontier)
TombstoneHolds(p, n, v) == Removed(p.store, v, {p.list[i].subject : i \in 1 .. n})
Removing == INSTANCE Stepwise WITH Step <- TombstoneStep, Holds <- TombstoneHolds

LEMMA TombstoneEachIs ==
    ASSUME NEW w, Sound(w), NEW nodes \in Seq(Nodes), IsInjective(nodes), ToSet(nodes) \subseteq RowsOf(w.states),
           NEW frontier
    PROVE  Removed(w, TombstoneEach(w, nodes, frontier), {node.subject : node \in ToSet(nodes)})
<1> DEFINE p == [store |-> w, list |-> nodes]
<1>1. TombstoneEach(w, nodes, frontier) = Removing!Folded(frontier, w, nodes)
  BY DEF TombstoneEach, Removing!Folded, Removing!Greatest, TombstoneStep, FoldLeft, MapThenFoldSet, Max
<1>2. PICK n \in Nat : n = Len(nodes) /\ DOMAIN nodes = 1 .. n
  BY ListDomain
<1>3. TombstoneHolds(p, 0, w)
  <2>1. {nodes[i].subject : i \in 1 .. 0} = {}
    OBVIOUS
  <2>2. Removed(w, w, {})
    BY DEF Removed, Sound, KeepsOrder, LineKept
  <2> QED BY <2>1, <2>2 DEF TombstoneHolds
<1>4. ASSUME NEW v, NEW i \in 1 .. n, TombstoneHolds(p, i - 1, v)
      PROVE  TombstoneHolds(p, i, TombstoneStep(frontier, v, nodes[i]))
  <2> PICK S, R : S = {nodes[j].subject : j \in 1 .. i - 1} /\ R = {nodes[j].subject : j \in 1 .. i}
    OBVIOUS
  <2>1. PICK s \in Live(w.states) : nodes[i] = Node(s, w.states[s])
    BY <1>2 DEF ToSet, RowsOf
  <2>2. nodes[i].subject = s /\ nodes[i].key = w.states[s]
    BY <2>1 DEF Node
  <2>3. s \notin S
    <3> SUFFICES ASSUME NEW j \in 1 .. i - 1, nodes[j].subject = s PROVE FALSE
      OBVIOUS
    <3>1. j \in DOMAIN nodes /\ i \in DOMAIN nodes /\ i # j
      BY <1>2
    <3>2. PICK t \in Live(w.states) : nodes[j] = Node(t, w.states[t])
      BY <3>1 DEF ToSet, RowsOf
    <3>3. nodes[j] = nodes[i]
      BY <2>1, <3>2 DEF Node
    <3> QED BY <3>1, <3>3 DEF IsInjective
  <2>4. R = S \cup {s}
    <3>1. 1 .. i = (1 .. i - 1) \cup {i}
      BY <1>2
    <3> QED BY <2>2, <3>1
  <2>5. /\ Sound(v) /\ v.next = w.next
        /\ v.states = [t \in DOMAIN w.states |-> IF t \in S THEN NoKey ELSE w.states[t]]
        /\ KeepsOrder(w, v, S)
    BY <1>4 DEF TombstoneHolds, Removed
  <2>6. s \in Live(v.states) /\ v.states[s] = w.states[s]
    BY <2>1, <2>3, <2>5 DEF Live
  <2>7. PICK u : u = TombstoneSubject(v, s, v.states[s], frontier)
    OBVIOUS
  <2>8. Sound(u) /\ u.next = v.next /\ u.states = [v.states EXCEPT ![s] = NoKey] /\ KeepsOrder(v, u, {s})
    <3>1. Sound(v) /\ s \in Live(v.states)
      BY <2>5, <2>6
    <3> QED BY <2>7, <3>1, TombstoneSubjectIs
  <2>9. u.states = [t \in DOMAIN w.states |-> IF t \in R THEN NoKey ELSE w.states[t]]
    BY <2>4, <2>5, <2>8
  <2>10. TombstoneStep(frontier, v, nodes[i]) = u
    BY <2>2, <2>6, <2>7 DEF TombstoneStep
  <2>11. KeepsOrder(w, u, R)
    <3>1. S \subseteq R /\ {s} \subseteq R
      BY <2>4
    <3>2. KeepsOrder(w, v, R) /\ KeepsOrder(v, u, R)
      BY <2>5, <2>8, <3>1, LineWider DEF KeepsOrder
    <3> QED BY <3>2, LineTransitive DEF KeepsOrder
  <2> QED BY <2>5, <2>8, <2>9, <2>10, <2>11 DEF TombstoneHolds, Removed
<1>5. TombstoneHolds(p, n, TombstoneEach(w, nodes, frontier))
  <2>1. Removing!PlacesAreOrdered(n)
    BY LeastPlaces DEF Removing!PlacesAreOrdered
  <2> QED BY <1>1, <1>2, <1>3, <1>4, <2>1, Removing!FoldKeeps
<1>6. {nodes[i].subject : i \in 1 .. n} = {node.subject : node \in ToSet(nodes)}
  BY <1>2 DEF ToSet
<1> QED BY <1>5, <1>6 DEF TombstoneHolds

-----------------------------------------------------------------------------
(* What a list of effects makes of a store                                 *)

Effects == [subject : Nat, before : Keys \cup {NoKey}, after : Keys \cup {NoKey}, left : Nat, right : Nat]

(* Effects that one turn can hold: one per subject and none on a key that  *)
(* another one gives away.                                                 *)
EffectsFit(E, n) ==
    /\ E \subseteq Effects
    /\ \A e \in E : e.subject > 0 /\ e.subject < n /\ e.before # e.after
    /\ \A e, f \in E : e.subject = f.subject => e = f
    /\ \A e, f \in E : e.after = f.after /\ e.after # NoKey => e = f

Restates(old, new, E) ==
    /\ new \in [DOMAIN old -> Keys \cup {NoKey}]
    /\ \A e \in E : new[e.subject] = e.after
    /\ \A s \in DOMAIN old : (\A e \in E : e.subject # s) => new[s] = old[s]

Realized(w, v, E) == Sound(v) /\ v.next = w.next /\ Restates(w.states, v.states, E)

(* What ValidateEffects establishes about an effect.                       *)
Granted(w, E, e) ==
    /\ IsRemove(e) => w.states[e.subject] # NoKey
    /\ IsAdd(e) => w.states[e.subject] = NoKey
    /\ IsRekey(e) => w.states[e.subject] = e.before
    /\ e.after # NoKey => \/ e.after \notin DOMAIN w.ids
                          \/ \E d \in E : IsRemove(d) /\ w.states[d.subject] = e.after

LEMMA FitSubset ==
    ASSUME NEW E, NEW n, EffectsFit(E, n), NEW A \in SUBSET E
    PROVE  EffectsFit(A, n)
BY DEF EffectsFit

LEMMA EffectKind ==
    ASSUME NEW E, NEW n, EffectsFit(E, n), NEW e \in E
    PROVE  /\ e \in Effects /\ e.before # e.after
           /\ IsRemove(e) => ~IsAdd(e) /\ ~IsRekey(e)
           /\ IsAdd(e) => ~IsRemove(e) /\ ~IsRekey(e)
           /\ IsAdd(e) \/ IsRekey(e) <=> e.after # NoKey
           /\ IsAdd(e) \/ IsRekey(e) \/ IsRemove(e)
           /\ ~IsUpdate(e)
           /\ e.after # NoKey => e.after \in Keys
           /\ e.subject \in Nat /\ e.before \in Keys \cup {NoKey} /\ e.after \in Keys \cup {NoKey}
BY KeysAssumption DEF EffectsFit, Effects, IsRemove, IsAdd, IsRekey, IsUpdate

(* The key an effect needs is free once the removals are made.             *)
LEMMA KeyIsFree ==
    ASSUME NEW w, Sound(w), NEW E, EffectsFit(E, w.next), NEW A \in SUBSET E,
           \A d \in E : IsRemove(d) => d \in A,
           NEW v, Realized(w, v, A), NEW e \in E \ A, e.after # NoKey, Granted(w, E, e)
    PROVE  e.after \notin DOMAIN v.ids
<1> SUFFICES ASSUME e.after \in DOMAIN v.ids PROVE FALSE
  OBVIOUS
<1>1. PICK t \in Live(v.states) : v.states[t] = e.after
  BY DEF Realized, Sound, IdsTell
<1>2. \A f \in A : f.subject # t
  <2> SUFFICES ASSUME NEW f \in A, f.subject = t PROVE FALSE
    OBVIOUS
  <2>1. f.after = e.after
    BY <1>1 DEF Realized, Restates
  <2> QED BY <2>1 DEF EffectsFit
<1>3. t \in Live(w.states) /\ w.states[t] = e.after
  <2>1. t \in DOMAIN w.states /\ v.states[t] = w.states[t]
    BY <1>1, <1>2 DEF Realized, Restates, Live
  <2> QED BY <1>1, <2>1 DEF Live
<1>4. e.after \in DOMAIN w.ids
  BY <1>3 DEF Sound, IdsTell
<1>5. PICK d \in E : IsRemove(d) /\ w.states[d.subject] = e.after
  BY <1>4 DEF Granted
<1>6. d.subject \in Live(w.states)
  <2>1. d.subject \in Nat /\ d.subject > 0 /\ d.subject < w.next
    BY DEF EffectsFit, Effects
  <2>2. d.subject \in DOMAIN w.states
    BY <2>1 DEF Sound
  <2> QED BY <1>5, <2>2 DEF Live
<1> QED BY <1>2, <1>3, <1>5, <1>6 DEF Sound, KeysAreApart

LEMMA SubjectIsThere ==
    ASSUME NEW w, Sound(w), NEW E, EffectsFit(E, w.next), NEW A \in SUBSET E,
           NEW v, Realized(w, v, A), NEW e \in E \ A
    PROVE  e.subject \in DOMAIN w.states /\ e.subject \in DOMAIN v.states /\ v.states[e.subject] = w.states[e.subject]
<1>1. e.subject \in Nat /\ e.subject > 0 /\ e.subject < w.next
  BY DEF EffectsFit, Effects
<1>2. e.subject \in DOMAIN w.states
  BY <1>1 DEF Sound
<1>3. \A f \in A : f.subject # e.subject
  BY DEF EffectsFit
<1> QED BY <1>2, <1>3 DEF Realized, Restates

LEMMA RealizedNext ==
    ASSUME NEW w, Sound(w), NEW E, EffectsFit(E, w.next), NEW A \in SUBSET E,
           NEW v, Realized(w, v, A), NEW e \in E \ A,
           NEW u, Sound(u), u.next = v.next, u.states = [v.states EXCEPT ![e.subject] = e.after]
    PROVE  Realized(w, u, A \cup {e})
<1>1. /\ v.states \in [DOMAIN w.states -> Keys \cup {NoKey}] /\ v.next = w.next
      /\ \A f \in A : v.states[f.subject] = f.after
      /\ \A s \in DOMAIN w.states : (\A f \in A : f.subject # s) => v.states[s] = w.states[s]
  BY DEF Realized, Restates
<1>2. e.subject \in DOMAIN w.states /\ e.after \in Keys \cup {NoKey}
  BY SubjectIsThere, EffectKind
<1>3. u.states \in [DOMAIN w.states -> Keys \cup {NoKey}] /\ u.states[e.subject] = e.after
      /\ \A s \in DOMAIN w.states : s # e.subject => u.states[s] = v.states[s]
  BY <1>1, <1>2
<1>4. \A f \in A : f.subject # e.subject /\ f.subject \in DOMAIN w.states
  <2> TAKE f \in A
  <2>1. f.subject \in Nat /\ f.subject > 0 /\ f.subject < w.next /\ f.subject # e.subject
    BY DEF EffectsFit, Effects
  <2> QED BY <2>1 DEF Sound
<1>5. \A f \in A \cup {e} : u.states[f.subject] = f.after
  BY <1>1, <1>3, <1>4
<1>6. \A s \in DOMAIN w.states : (\A f \in A \cup {e} : f.subject # s) => u.states[s] = w.states[s]
  BY <1>1, <1>3
<1> QED BY <1>1, <1>3, <1>5, <1>6 DEF Realized, Restates

RestoreStep(frontier, w, e) == RestoreSubject(w, e.subject, e.after, e.left, e.right, frontier)
RekeyStep(nothing, w, e) == TransferSubject(w, e.subject, e.before, e.after)
RealizedHolds(p, n, v) ==
    Realized(p.store, v, p.done \cup FirstItems(p.list, n)) /\ KeepsOrder(p.store, v, p.moved)
Restoring == INSTANCE Stepwise WITH Step <- RestoreStep, Holds <- RealizedHolds
Rekeying == INSTANCE Stepwise WITH Step <- RekeyStep, Holds <- RealizedHolds

LEMMA RestoreOne ==
    ASSUME NEW w, Sound(w), NEW E, EffectsFit(E, w.next), NEW A \in SUBSET E,
           \A d \in E : IsRemove(d) => d \in A,
           NEW v, Realized(w, v, A), NEW e \in E \ A, IsAdd(e), Granted(w, E, e), NEW frontier
    PROVE  Realized(w, RestoreStep(frontier, v, e), A \cup {e}) /\ KeepsOrder(v, RestoreStep(frontier, v, e), {})
<1>0. PICK u : u = RestoreSubject(v, e.subject, e.after, e.left, e.right, frontier)
  OBVIOUS
<1>1. e.after # NoKey /\ e.after \in Keys
  BY EffectKind
<1>2. e.after \notin DOMAIN v.ids
  BY <1>1, KeyIsFree
<1>3. e.subject \in DOMAIN v.states /\ v.states[e.subject] = NoKey
  BY SubjectIsThere DEF Granted
<1>4. Sound(v)
  BY DEF Realized
<1>5. Sound(u) /\ u.next = v.next /\ u.states = [v.states EXCEPT ![e.subject] = e.after] /\ KeepsOrder(v, u, {})
  BY <1>0, <1>1, <1>2, <1>3, <1>4, RestoreSubjectIs
<1>6. RestoreStep(frontier, v, e) = u
  BY <1>0 DEF RestoreStep
<1> QED BY <1>5, <1>6, RealizedNext

LEMMA RekeyOne ==
    ASSUME NEW w, Sound(w), NEW E, EffectsFit(E, w.next), NEW A \in SUBSET E,
           \A d \in E : IsRemove(d) => d \in A,
           NEW v, Realized(w, v, A), NEW e \in E \ A, IsRekey(e), Granted(w, E, e), NEW nothing
    PROVE  Realized(w, RekeyStep(nothing, v, e), A \cup {e}) /\ KeepsOrder(v, RekeyStep(nothing, v, e), {})
<1>0. PICK u : u = TransferSubject(v, e.subject, v.states[e.subject], e.after)
  OBVIOUS
<1>1. e.after # NoKey /\ e.after \in Keys /\ e.before # NoKey
  BY EffectKind DEF IsRekey
<1>2. e.after \notin DOMAIN v.ids
  BY <1>1, KeyIsFree
<1>3. e.subject \in DOMAIN v.states /\ v.states[e.subject] = e.before
  BY SubjectIsThere DEF Granted
<1>4. Sound(v) /\ e.subject \in Live(v.states)
  BY <1>1, <1>3 DEF Realized, Live
<1>a. /\ Sound(u) /\ u.next = v.next /\ u.states = [v.states EXCEPT ![e.subject] = e.after]
      /\ SubjectsOf(u.chain) = SubjectsOf(v.chain)
  BY <1>0, <1>1, <1>2, <1>4, TransferSubjectIs
<1>5. Sound(u) /\ u.next = v.next /\ u.states = [v.states EXCEPT ![e.subject] = e.after] /\ KeepsOrder(v, u, {})
  BY <1>a DEF KeepsOrder, LineKept
<1>6. RekeyStep(nothing, v, e) = u
  BY <1>0, <1>3 DEF RekeyStep
<1> QED BY <1>5, <1>6, RealizedNext

Listed(list, n) == IsInjective(list) /\ DOMAIN list = 1 .. n

OneMore(list, i) ==
    /\ FirstItems(list, i) = FirstItems(list, i - 1) \cup {list[i]}
    /\ list[i] \notin FirstItems(list, i - 1) /\ list[i] \in ToSet(list)
    /\ FirstItems(list, i - 1) \subseteq ToSet(list)

LEMMA FirstItemsNext ==
    ASSUME NEW list, NEW n \in Nat, Listed(list, n), NEW i \in 1 .. n
    PROVE  OneMore(list, i)
<1>1. 1 .. i = (1 .. i - 1) \cup {i} /\ i \notin 1 .. i - 1 /\ \A j \in 1 .. i - 1 : j \in 1 .. n
  OBVIOUS
<1>2. list[i] \notin FirstItems(list, i - 1)
  BY <1>1 DEF FirstItems, IsInjective, Listed
<1>3. FirstItems(list, i - 1) \subseteq ToSet(list)
  BY <1>1 DEF FirstItems, ToSet, Listed
<1> QED BY <1>1, <1>2, <1>3 DEF OneMore, FirstItems, ToSet, Listed

LEMMA CommitRemovesIs ==
    ASSUME NEW w, Sound(w), NEW effects \in Seq(Effects), IsInjective(effects),
           EffectsFit(ToSet(effects), w.next),
           \A e \in ToSet(effects) : Granted(w, ToSet(effects), e), NEW fresh
    PROVE  /\ Realized(w, CommitRemoves(w, effects, fresh), {e \in ToSet(effects) : IsRemove(e)})
           /\ KeepsOrder(w, CommitRemoves(w, effects, fresh), {e.subject : e \in ToSet(effects)})
<1> DEFINE E == ToSet(effects)
           R == {e \in E : IsRemove(e)}
           removals == Within(effects, R)
           nodes == [i \in DOMAIN removals |-> Node(removals[i].subject, ActiveKeyForSubject(w, removals[i].subject))]
           v == TombstoneEach(w, nodes, fresh)
<1>1. removals \in Seq(Effects) /\ IsInjective(removals) /\ ToSet(removals) = R
  <2>1. ToSet(effects) \cap R = R
    OBVIOUS
  <2> HIDE DEF R
  <2>2. /\ removals \in Seq(Effects) /\ ToSet(removals) = ToSet(effects) \cap R
        /\ IsInjective(removals)
    BY WithinIs
  <2> QED BY <2>1, <2>2
<1>2. ASSUME NEW e \in R
      PROVE  /\ e \in E /\ e.subject \in Live(w.states) /\ e.after = NoKey /\ e.subject \in Nat
             /\ ActiveKeyForSubject(w, e.subject) = w.states[e.subject] /\ w.states[e.subject] \in Keys
  <2>1. e.subject \in Nat /\ e.subject > 0 /\ e.subject < w.next /\ w.states[e.subject] # NoKey
    BY DEF EffectsFit, Effects, Granted
  <2>2. e.subject \in DOMAIN w.states
    BY <2>1 DEF Sound
  <2>3. e.subject \in Live(w.states)
    BY <2>1, <2>2 DEF Live
  <2> QED BY <2>1, <2>2, <2>3, LiveIs DEF ActiveKeyForSubject, IsRemove
<1> HIDE DEF R
<1>3. \A i \in DOMAIN removals : removals[i] \in R
  BY <1>1 DEF ToSet
<1>4. \A i \in DOMAIN removals :
         /\ nodes[i] = Node(removals[i].subject, w.states[removals[i].subject])
         /\ nodes[i] \in Nodes /\ nodes[i] \in RowsOf(w.states) /\ nodes[i].subject = removals[i].subject
  BY <1>2, <1>3 DEF Node, Nodes, RowsOf
<1>5. DOMAIN nodes = DOMAIN removals /\ nodes = [i \in DOMAIN removals |-> nodes[i]]
  OBVIOUS
<1> HIDE DEF nodes, removals
<1>6. nodes \in Seq(Nodes)
  <2>1. DOMAIN removals = 1 .. Len(removals) /\ Len(removals) \in Nat
    BY <1>1, ListDomain
  <2> QED BY <1>4, <1>5, <2>1
<1>7. IsInjective(nodes)
  <2> SUFFICES ASSUME NEW i \in DOMAIN removals, NEW j \in DOMAIN removals, nodes[i] = nodes[j]
               PROVE  i = j
    BY <1>5 DEF IsInjective
  <2>1. removals[i].subject = removals[j].subject
    BY <1>4
  <2>2. removals[i] = removals[j]
    BY <1>2, <1>3, <2>1 DEF EffectsFit
  <2> QED BY <1>1, <2>2 DEF IsInjective
<1>8. ToSet(nodes) \subseteq RowsOf(w.states)
  BY <1>4, <1>5 DEF ToSet
<1>9. {node.subject : node \in ToSet(nodes)} = {e.subject : e \in R}
  BY <1>1, <1>4, <1>5 DEF ToSet
<1>10. Removed(w, v, {e.subject : e \in R})
  BY <1>6, <1>7, <1>8, <1>9, TombstoneEachIs
<1>11. v = CommitRemoves(w, effects, fresh)
  BY DEF CommitRemoves, nodes, removals, R
<1> HIDE DEF v
<1>12. Restates(w.states, v.states, R)
  <2>1. v.states = [s \in DOMAIN w.states |-> IF s \in {e.subject : e \in R} THEN NoKey ELSE w.states[s]]
    BY <1>10 DEF Removed
  <2>2. w.states \in [DOMAIN w.states -> Keys \cup {NoKey}]
    BY DEF Sound
  <2>3. \A e \in R : e.subject \in DOMAIN w.states
    BY <1>2 DEF Live
  <2>4. v.states \in [DOMAIN w.states -> Keys \cup {NoKey}]
    BY <2>1, <2>2
  <2>5. \A e \in R : v.states[e.subject] = e.after
    BY <1>2, <2>1, <2>3
  <2>6. \A s \in DOMAIN w.states : (\A e \in R : e.subject # s) => v.states[s] = w.states[s]
    BY <2>1
  <2> QED BY <2>4, <2>5, <2>6 DEF Restates
<1>13. KeepsOrder(w, v, {e.subject : e \in E})
  <2>1. {e.subject : e \in R} \subseteq {e.subject : e \in E}
    BY <1>2
  <2>2. KeepsOrder(w, v, {e.subject : e \in R})
    BY <1>10 DEF Removed
  <2> QED BY <2>1, <2>2, LineWider DEF KeepsOrder
<1> QED BY <1>10, <1>11, <1>12, <1>13 DEF Realized, Removed, R

LEMMA CommitRestoresIs ==
    ASSUME NEW w, Sound(w), NEW effects \in Seq(Effects), IsInjective(effects),
           EffectsFit(ToSet(effects), w.next),
           \A e \in ToSet(effects) : Granted(w, ToSet(effects), e), NEW fresh,
           NEW v, Realized(w, v, {e \in ToSet(effects) : IsRemove(e)}), NEW T, KeepsOrder(w, v, T)
    PROVE  /\ Realized(w, CommitRestores(v, effects, fresh), {e \in ToSet(effects) : IsRemove(e) \/ IsAdd(e)})
           /\ KeepsOrder(w, CommitRestores(v, effects, fresh), T)
<1> PICK E : E = ToSet(effects)
  OBVIOUS
<1> PICK R : R = {e \in E : IsRemove(e)}
  OBVIOUS
<1> PICK A : A = {e \in E : IsAdd(e)}
  OBVIOUS
<1> PICK list : list = Within(effects, A)
  OBVIOUS
<1> DEFINE p == [store |-> w, done |-> R, list |-> list, moved |-> T]
<1>1. list \in Seq(Effects) /\ IsInjective(list) /\ ToSet(list) = A
  <2>1. A \subseteq E
    OBVIOUS
  <2> QED BY <2>1, WithinIs
<1>2. PICK n \in Nat : n = Len(list) /\ DOMAIN list = 1 .. n
  BY <1>1, ListDomain
<1>3. CommitRestores(v, effects, fresh) = Restoring!Folded(fresh, v, list)
  BY DEF CommitRestores, Restoring!Folded, Restoring!Greatest, RestoreStep, FoldLeft, MapThenFoldSet, Max
<1>4. RealizedHolds(p, 0, v)
  <2>1. R \cup FirstItems(list, 0) = R
    BY DEF FirstItems
  <2>2. Realized(w, v, R)
    OBVIOUS
  <2> QED BY <2>1, <2>2 DEF RealizedHolds
<1>5. ASSUME NEW u, NEW i \in 1 .. n, RealizedHolds(p, i - 1, u)
      PROVE  RealizedHolds(p, i, RestoreStep(fresh, u, list[i]))
  <2>1. PICK D : D = R \cup FirstItems(list, i - 1)
    OBVIOUS
  <2>2. Realized(w, u, D)
    BY <1>5, <2>1 DEF RealizedHolds
  <2>a. OneMore(list, i)
    <3>1. Listed(list, n)
      BY <1>1, <1>2 DEF Listed
    <3> QED BY <3>1, FirstItemsNext
  <2>3. /\ R \cup FirstItems(list, i) = D \cup {list[i]} /\ list[i] \in A
        /\ list[i] \notin FirstItems(list, i - 1) /\ FirstItems(list, i - 1) \subseteq A
    BY <1>1, <2>1, <2>a DEF OneMore
  <2>4. list[i] \in E /\ IsAdd(list[i]) /\ ~IsRemove(list[i]) /\ EffectsFit(E, w.next)
    BY <2>3, EffectKind
  <2>5. D \subseteq E /\ list[i] \in E \ D /\ \A d \in E : IsRemove(d) => d \in D
    BY <2>1, <2>3, <2>4
  <2>6. Granted(w, E, list[i])
    BY <2>4
  <2>7. Realized(w, RestoreStep(fresh, u, list[i]), D \cup {list[i]}) /\ KeepsOrder(u, RestoreStep(fresh, u, list[i]), {})
    BY <2>2, <2>4, <2>5, <2>6, RestoreOne
  <2>8. KeepsOrder(w, RestoreStep(fresh, u, list[i]), T)
    BY <1>5, <2>7, LineWider, LineTransitive DEF RealizedHolds, KeepsOrder
  <2> QED BY <2>3, <2>7, <2>8 DEF RealizedHolds
<1>6. RealizedHolds(p, n, CommitRestores(v, effects, fresh))
  <2>1. Restoring!PlacesAreOrdered(n)
    BY LeastPlaces DEF Restoring!PlacesAreOrdered
  <2> QED BY <1>2, <1>3, <1>4, <1>5, <2>1, Restoring!FoldKeeps
<1>7. FirstItems(list, n) = A
  BY <1>1, <1>2 DEF FirstItems, ToSet
<1>8. R \cup A = {e \in ToSet(effects) : IsRemove(e) \/ IsAdd(e)}
  OBVIOUS
<1> QED BY <1>6, <1>7, <1>8 DEF RealizedHolds

LEMMA CommitRekeysIs ==
    ASSUME NEW w, Sound(w), NEW effects \in Seq(Effects), IsInjective(effects),
           EffectsFit(ToSet(effects), w.next),
           \A e \in ToSet(effects) : Granted(w, ToSet(effects), e),
           NEW v, Realized(w, v, {e \in ToSet(effects) : IsRemove(e) \/ IsAdd(e)}), NEW T, KeepsOrder(w, v, T)
    PROVE  Realized(w, CommitRekeys(v, effects), ToSet(effects)) /\ KeepsOrder(w, CommitRekeys(v, effects), T)
<1> PICK E : E = ToSet(effects)
  OBVIOUS
<1> PICK R : R = {e \in E : IsRemove(e) \/ IsAdd(e)}
  OBVIOUS
<1> PICK A : A = {e \in E : IsRekey(e)}
  OBVIOUS
<1> PICK list : list = Within(effects, A)
  OBVIOUS
<1> DEFINE p == [store |-> w, done |-> R, list |-> list, moved |-> T]
<1>1. list \in Seq(Effects) /\ IsInjective(list) /\ ToSet(list) = A
  <2>1. A \subseteq E
    OBVIOUS
  <2> QED BY <2>1, WithinIs
<1>2. PICK n \in Nat : n = Len(list) /\ DOMAIN list = 1 .. n
  BY <1>1, ListDomain
<1>3. CommitRekeys(v, effects) = Rekeying!Folded(NoKey, v, list)
  BY DEF CommitRekeys, Rekeying!Folded, Rekeying!Greatest, RekeyStep, FoldLeft, MapThenFoldSet, Max
<1>4. RealizedHolds(p, 0, v)
  <2>1. R \cup FirstItems(list, 0) = R
    BY DEF FirstItems
  <2>2. Realized(w, v, R)
    OBVIOUS
  <2> QED BY <2>1, <2>2 DEF RealizedHolds
<1>5. ASSUME NEW u, NEW i \in 1 .. n, RealizedHolds(p, i - 1, u)
      PROVE  RealizedHolds(p, i, RekeyStep(NoKey, u, list[i]))
  <2>1. PICK D : D = R \cup FirstItems(list, i - 1)
    OBVIOUS
  <2>2. Realized(w, u, D)
    BY <1>5, <2>1 DEF RealizedHolds
  <2>a. OneMore(list, i)
    <3>1. Listed(list, n)
      BY <1>1, <1>2 DEF Listed
    <3> QED BY <3>1, FirstItemsNext
  <2>3. /\ R \cup FirstItems(list, i) = D \cup {list[i]} /\ list[i] \in A
        /\ list[i] \notin FirstItems(list, i - 1) /\ FirstItems(list, i - 1) \subseteq A
    BY <1>1, <2>1, <2>a DEF OneMore
  <2>4. list[i] \in E /\ IsRekey(list[i]) /\ ~IsRemove(list[i]) /\ ~IsAdd(list[i]) /\ EffectsFit(E, w.next)
    BY <2>3, EffectKind
  <2>5. D \subseteq E /\ list[i] \in E \ D /\ \A d \in E : IsRemove(d) => d \in D
    BY <2>1, <2>3, <2>4
  <2>6. Granted(w, E, list[i])
    BY <2>4
  <2>7. Realized(w, RekeyStep(NoKey, u, list[i]), D \cup {list[i]}) /\ KeepsOrder(u, RekeyStep(NoKey, u, list[i]), {})
    BY <2>2, <2>4, <2>5, <2>6, RekeyOne
  <2>8. KeepsOrder(w, RekeyStep(NoKey, u, list[i]), T)
    BY <1>5, <2>7, LineWider, LineTransitive DEF RealizedHolds, KeepsOrder
  <2> QED BY <2>3, <2>7, <2>8 DEF RealizedHolds
<1>6. RealizedHolds(p, n, CommitRekeys(v, effects))
  <2>1. Rekeying!PlacesAreOrdered(n)
    BY LeastPlaces DEF Rekeying!PlacesAreOrdered
  <2> QED BY <1>2, <1>3, <1>4, <1>5, <2>1, Rekeying!FoldKeeps
<1>7. FirstItems(list, n) = A
  BY <1>1, <1>2 DEF FirstItems, ToSet
<1>8. R \cup A = ToSet(effects)
  BY EffectKind
<1> QED BY <1>6, <1>7, <1>8 DEF RealizedHolds

(* What the checks of the first n effects establish.                       *)
Checked(w, list, n, c) ==
    /\ c = [ok |-> c.ok, at |-> c.at, held |-> c.held] /\ c.ok \in BOOLEAN
    /\ DOMAIN c.at \subseteq {list[j].subject : j \in 1 .. n}
    /\ c.held \in [DOMAIN c.held -> BOOLEAN]
    /\ c.ok => /\ \A j \in 1 .. n : Granted(w, ToSet(list), list[j])
               /\ \A k \in DOMAIN c.held : c.held[k] = FALSE /\ k # NoKey =>
                     \E d \in ToSet(list) : IsRemove(d) /\ w.states[d.subject] = k

CheckStep(w, c, e) == CanApplyEffect(w, c, e)
CheckHolds(p, n, c) == Checked(p.store, p.list, n, c)
Checking == INSTANCE Stepwise WITH Step <- CheckStep, Holds <- CheckHolds

LEMMA CheckedNext ==
    ASSUME NEW w, Sound(w), NEW effects \in Seq(Effects), IsInjective(effects),
           EffectsFit(ToSet(effects), w.next), NEW i \in DOMAIN effects,
           NEW c, Checked(w, effects, i - 1, c)
    PROVE  Checked(w, effects, i, CanApplyEffect(w, c, effects[i]))
<1> DEFINE e == effects[i]
           E == ToSet(effects)
           key == IF e.subject \in DOMAIN c.at THEN c.at[e.subject] ELSE ActiveKeyForSubject(w, e.subject)
           occupied == IF e.after \in DOMAIN c.held THEN c.held[e.after] ELSE e.after \in DOMAIN w.ids
           fits == CASE IsRemove(e) -> key # NoKey
                     [] IsAdd(e) -> key = NoKey /\ ~occupied
                     [] OTHER -> key = e.before /\ ~occupied
           bare == IsRekey(e) /\ e.subject \notin DOMAIN c.at
           d == CanApplyEffect(w, c, e)
           held == SetKey(SetKey(c.held, key, FALSE), e.after, TRUE)
           at == SetKey(c.at, e.subject, e.after)
<1>1. d = IF bare THEN [c EXCEPT !.ok = c.ok /\ fits] ELSE [ok |-> c.ok /\ fits, at |-> at, held |-> held]
  BY DEF CanApplyEffect
<1>2. /\ c = [ok |-> c.ok, at |-> c.at, held |-> c.held] /\ c.ok \in BOOLEAN
      /\ DOMAIN c.at \subseteq {effects[j].subject : j \in 1 .. i - 1}
      /\ c.held \in [DOMAIN c.held -> BOOLEAN]
      /\ c.ok => /\ \A j \in 1 .. i - 1 : Granted(w, E, effects[j])
                 /\ \A k \in DOMAIN c.held : c.held[k] = FALSE /\ k # NoKey =>
                       \E f \in E : IsRemove(f) /\ w.states[f.subject] = k
  BY DEF Checked
<1>3. e \in E /\ DOMAIN effects = 1 .. Len(effects) /\ 1 .. i = (1 .. i - 1) \cup {i}
      /\ \A j \in 1 .. i - 1 : j \in DOMAIN effects /\ j # i
  BY DEF ToSet
<1>4. /\ e.before # e.after
      /\ IsRemove(e) => ~IsAdd(e) /\ ~IsRekey(e)
      /\ IsAdd(e) => ~IsRemove(e) /\ ~IsRekey(e)
      /\ IsAdd(e) \/ IsRekey(e) <=> e.after # NoKey
      /\ IsAdd(e) \/ IsRekey(e) \/ IsRemove(e)
  BY <1>3, EffectKind
<1>5. e.subject \notin DOMAIN c.at
  <2> SUFFICES ASSUME NEW j \in 1 .. i - 1, effects[j].subject = e.subject PROVE FALSE
    BY <1>2
  <2>1. effects[j] \in E
    BY <1>3 DEF ToSet
  <2>2. effects[j] = e
    BY <1>3, <2>1 DEF EffectsFit
  <2> QED BY <1>3, <2>2 DEF IsInjective
<1>6. e.subject \in DOMAIN w.states /\ key = w.states[e.subject]
  <2>1. e.subject \in Nat /\ e.subject > 0 /\ e.subject < w.next
    BY <1>3 DEF EffectsFit, Effects
  <2>2. e.subject \in DOMAIN w.states
    BY <2>1 DEF Sound
  <2> QED BY <1>5, <2>2 DEF ActiveKeyForSubject
<1>7. bare <=> IsRekey(e)
  BY <1>5
<1> HIDE DEF e, key, d
<1>8. ASSUME c.ok, fits PROVE Granted(w, E, e)
  <2>1. IsRemove(e) => w.states[e.subject] # NoKey
    BY <1>4, <1>6, <1>8
  <2>2. IsAdd(e) => w.states[e.subject] = NoKey /\ ~occupied
    BY <1>4, <1>6, <1>8
  <2>3. IsRekey(e) => w.states[e.subject] = e.before /\ ~occupied
    BY <1>4, <1>6, <1>8
  <2>4. e.after # NoKey => ~occupied
    BY <1>4, <2>2, <2>3
  <2>5. e.after # NoKey => \/ e.after \notin DOMAIN w.ids
                           \/ \E f \in E : IsRemove(f) /\ w.states[f.subject] = e.after
    <3>1. CASE e.after \in DOMAIN c.held
      <4>1. e.after # NoKey => c.held[e.after] = FALSE
        BY <1>2, <2>4, <3>1
      <4> QED BY <1>2, <1>8, <3>1, <4>1
    <3>2. CASE e.after \notin DOMAIN c.held
      BY <2>4, <3>2
    <3> QED BY <3>1, <3>2
  <2> QED BY <2>1, <2>2, <2>3, <2>5 DEF Granted
<1>9. ASSUME c.ok, fits PROVE \A j \in 1 .. i : Granted(w, E, effects[j])
  BY <1>2, <1>3, <1>8, <1>9 DEF e
<1> PICK fit \in BOOLEAN : fit = (c.ok /\ fits)
  OBVIOUS
<1>10. CASE IsRekey(e)
  <2>1. d = [c EXCEPT !.ok = fit]
    BY <1>1, <1>7, <1>10
  <2>2. d = [ok |-> fit, at |-> c.at, held |-> c.held]
    BY <1>2, <2>1
  <2>3. d.ok = fit /\ d.at = c.at /\ d.held = c.held /\ d = [ok |-> d.ok, at |-> d.at, held |-> d.held]
    BY <2>2
  <2>4. DOMAIN d.at \subseteq {effects[j].subject : j \in 1 .. i}
    BY <1>2, <1>3, <2>3
  <2> HIDE DEF fits
  <2> QED BY <1>2, <1>9, <2>3, <2>4 DEF Checked, d, e
<1>11. CASE ~IsRekey(e)
  <2>1. d = [ok |-> fit, at |-> at, held |-> held]
    BY <1>1, <1>7, <1>11
  <2> HIDE DEF fits, at, held
  <2>2. d.ok = fit /\ d.at = at /\ d.held = held /\ d = [ok |-> d.ok, at |-> d.at, held |-> d.held]
    BY <2>1
  <2>3. DOMAIN at \subseteq {effects[j].subject : j \in 1 .. i}
    BY <1>2, <1>3 DEF at, SetKey, e
  <2>4. /\ held \in [DOMAIN held -> BOOLEAN]
        /\ \A k \in DOMAIN held : held[k] = FALSE => k = key \/ (k \in DOMAIN c.held /\ c.held[k] = FALSE)
    BY <1>2 DEF held, SetKey
  <2>5. ASSUME c.ok, fits, NEW k \in DOMAIN held, held[k] = FALSE, k # NoKey
        PROVE  \E f \in E : IsRemove(f) /\ w.states[f.subject] = k
    <3>1. CASE k = key
      <4>1. IsRemove(e)
        BY <1>4, <1>11, <2>5, <3>1 DEF fits
      <4> QED BY <1>3, <1>6, <3>1, <4>1
    <3>2. CASE k \in DOMAIN c.held /\ c.held[k] = FALSE
      BY <1>2, <2>5, <3>2
    <3> QED BY <2>4, <2>5, <3>1, <3>2
  <2> QED BY <1>9, <2>2, <2>3, <2>4, <2>5 DEF Checked, d, e
<1> QED BY <1>10, <1>11 DEF d, e

LEMMA ValidateEffectsIs ==
    ASSUME NEW w, Sound(w), NEW effects \in Seq(Effects), IsInjective(effects),
           EffectsFit(ToSet(effects), w.next), ValidateEffects(w, effects)
    PROVE  \A e \in ToSet(effects) : Granted(w, ToSet(effects), e)
<1> DEFINE p == [store |-> w, list |-> effects]
           base == [ok |-> TRUE, at |-> [s \in {} |-> NoKey], held |-> [k \in {} |-> FALSE]]
<1>1. PICK c : c = Checking!Folded(w, base, effects)
  OBVIOUS
<1>2. ValidateEffects(w, effects) = c.ok
  BY <1>1 DEF ValidateEffects, Checking!Folded, Checking!Greatest, CheckStep, FoldLeft, MapThenFoldSet, Max
<1>3. PICK n \in Nat : n = Len(effects) /\ DOMAIN effects = 1 .. n
  BY ListDomain
<1>4. CheckHolds(p, 0, base)
  BY DEF CheckHolds, Checked
<1> HIDE DEF base
<1>5. ASSUME NEW b, NEW i \in 1 .. n, CheckHolds(p, i - 1, b)
      PROVE  CheckHolds(p, i, CheckStep(w, b, effects[i]))
  <2>1. i \in DOMAIN effects
    BY <1>3
  <2> QED BY <1>5, <2>1, CheckedNext DEF CheckHolds, CheckStep
<1>6. CheckHolds(p, n, c)
  <2>1. Checking!PlacesAreOrdered(n)
    BY LeastPlaces DEF Checking!PlacesAreOrdered
  <2> QED BY <1>1, <1>3, <1>4, <1>5, <2>1, Checking!FoldKeeps
<1>7. \A j \in 1 .. n : Granted(w, ToSet(effects), effects[j])
  BY <1>2, <1>6 DEF CheckHolds, Checked
<1> QED BY <1>3, <1>7 DEF ToSet

LEMMA PhysicalTransitionIs ==
    ASSUME NEW w, Sound(w), NEW effects \in Seq(Effects), IsInjective(effects),
           EffectsFit(ToSet(effects), w.next), NEW fresh, PhysicalTransition(w, effects, fresh).ok
    PROVE  LET v == PhysicalTransition(w, effects, fresh).store
           IN  Realized(w, v, ToSet(effects)) /\ KeepsOrder(w, v, {e.subject : e \in ToSet(effects)})
<1>1. ValidateEffects(w, effects)
  BY DEF PhysicalTransition, Refused
<1>2. PhysicalTransition(w, effects, fresh).store = CommitFrame(w, effects, fresh)
  BY <1>1 DEF PhysicalTransition, Ok
<1>3. \A e \in ToSet(effects) : Granted(w, ToSet(effects), e)
  BY <1>1, ValidateEffectsIs
<1>4. PICK u : u = CommitRemoves(w, effects, fresh)
  OBVIOUS
<1> PICK T : T = {e.subject : e \in ToSet(effects)}
  OBVIOUS
<1>5. Realized(w, u, {e \in ToSet(effects) : IsRemove(e)}) /\ KeepsOrder(w, u, T)
  BY <1>3, <1>4, CommitRemovesIs
<1>6. PICK v : v = CommitRestores(u, effects, fresh)
  OBVIOUS
<1>7. Realized(w, v, {e \in ToSet(effects) : IsRemove(e) \/ IsAdd(e)}) /\ KeepsOrder(w, v, T)
  BY <1>3, <1>5, <1>6, CommitRestoresIs
<1>8. Realized(w, CommitRekeys(v, effects), ToSet(effects)) /\ KeepsOrder(w, CommitRekeys(v, effects), T)
  BY <1>3, <1>7, CommitRekeysIs
<1> QED BY <1>2, <1>4, <1>6, <1>8 DEF CommitFrame

-----------------------------------------------------------------------------
(* A declarative target                                                    *)

RestateStep(nothing, t, e) == ApplyStructuralEffect(t, e)
(* `keys` tells of the rows what the effects A make of the states.         *)
Retold(states, keys, A) ==
    /\ DOMAIN keys \subseteq DOMAIN states /\ \A s \in DOMAIN keys : keys[s] \in Keys
    /\ Restates(states, Spread(states, keys), A)
RestateHolds(p, n, t) == Retold(p.states, t.keys, FirstItems(p.list, n))
Restating == INSTANCE Stepwise WITH Step <- RestateStep, Holds <- RestateHolds

\* One effect e told on keys, of a subject none of the effects in A speaks of.
TakesEffect(keys, e, more) ==
    more = IF e.after = NoKey THEN [s \in DOMAIN keys \ {e.subject} |-> keys[s]]
           ELSE SetKey(keys, e.subject, e.after)
SpeaksOfAnother(states, A, e) == \A d \in A : d.subject # e.subject /\ d.subject \in DOMAIN states

LEMMA RestatedNext ==
    ASSUME NEW states, NEW A, NEW keys, Retold(states, keys, A), NEW e, e.subject \in DOMAIN states, e.after \in Keys \cup {NoKey},
           SpeaksOfAnother(states, A, e), NEW more, TakesEffect(keys, e, more)
    PROVE  Retold(states, more, A \cup {e})
<1> DEFINE old == Spread(states, keys)
           new == Spread(states, more)
<1>0. /\ DOMAIN keys \subseteq DOMAIN states /\ \A s \in DOMAIN keys : keys[s] \in Keys
      /\ Restates(states, old, A)
  BY DEF Retold
<1>a. \A d \in A : d.subject # e.subject /\ d.subject \in DOMAIN states
  BY DEF SpeaksOfAnother
<1>b. more = IF e.after = NoKey THEN [s \in DOMAIN keys \ {e.subject} |-> keys[s]]
             ELSE SetKey(keys, e.subject, e.after)
  BY DEF TakesEffect
<1>1. /\ DOMAIN more = IF e.after = NoKey THEN DOMAIN keys \ {e.subject} ELSE DOMAIN keys \cup {e.subject}
      /\ e.after # NoKey => more[e.subject] = e.after
      /\ \A s \in DOMAIN keys \ {e.subject} : more[s] = keys[s]
  BY <1>b DEF SetKey
<1>2. DOMAIN more \subseteq DOMAIN states /\ \A s \in DOMAIN more : more[s] \in Keys
  BY <1>0, <1>1
<1>3. new[e.subject] = e.after
  BY <1>1 DEF Spread
<1>4. \A s \in DOMAIN states \ {e.subject} : new[s] = old[s]
  BY <1>1 DEF Spread
<1>5. new \in [DOMAIN states -> Keys \cup {NoKey}]
  BY <1>2 DEF Spread
<1>6. /\ \A d \in A : old[d.subject] = d.after
      /\ \A s \in DOMAIN states : (\A d \in A : d.subject # s) => old[s] = states[s]
  BY <1>0 DEF Restates
<1> HIDE DEF old, new
<1>7. \A d \in A \cup {e} : new[d.subject] = d.after
  BY <1>a, <1>3, <1>4, <1>6
<1>8. \A s \in DOMAIN states : (\A d \in A \cup {e} : d.subject # s) => new[s] = states[s]
  BY <1>4, <1>6
<1>9. Restates(states, new, A \cup {e})
  BY <1>5, <1>7, <1>8 DEF Restates
<1> QED BY <1>2, <1>9 DEF new, Retold

LEMMA TargetKeysAre ==
    ASSUME NEW w, Sound(w), NEW effects \in Seq(Effects), IsInjective(effects),
           EffectsFit(ToSet(effects), w.next)
    PROVE  LET t == FoldLeft(ApplyStructuralEffect, [ok |-> TRUE, keys |-> LiveKeys(w)], effects)
           IN  Retold(w.states, t.keys, ToSet(effects))
<1> DEFINE base == [ok |-> TRUE, keys |-> LiveKeys(w)]
           p == [states |-> w.states, list |-> effects]
           live == LiveKeys(w)
<1>1. PICK t : t = FoldLeft(ApplyStructuralEffect, base, effects)
  OBVIOUS
<1>2. t = Restating!Folded(NoKey, base, effects)
  BY <1>1 DEF Restating!Folded, Restating!Greatest, RestateStep, FoldLeft, MapThenFoldSet, Max
<1>3. PICK n \in Nat : n = Len(effects) /\ DOMAIN effects = 1 .. n
  BY ListDomain
<1>4. w.states \in [DOMAIN w.states -> Keys \cup {NoKey}] /\ DOMAIN w.states = 1 .. w.next - 1
  BY DEF Sound
<1>5. DOMAIN live = Live(w.states) /\ \A s \in Live(w.states) : live[s] = w.states[s]
  <2>1. ToSet(SubjectsOf(w.chain)) = {node.subject : node \in ToSet(w.chain)}
    BY DEF ToSet, SubjectsOf
  <2>2. {node.subject : node \in RowsOf(w.states)} = Live(w.states)
    <3>1. \A s \in Live(w.states) : Node(s, w.states[s]).subject = s
      BY DEF Node
    <3> QED BY <3>1 DEF RowsOf
  <2>3. ToSet(w.chain) = RowsOf(w.states)
    BY DEF Sound, ChainTells
  <2> QED BY <2>1, <2>2, <2>3 DEF LiveKeys, ActiveKeyForSubject, Live
<1>6. RestateHolds(p, 0, base)
  <2>1. DOMAIN live \subseteq DOMAIN w.states /\ \A s \in DOMAIN live : live[s] \in Keys
    BY <1>4, <1>5 DEF Live
  <2> HIDE DEF live
  <2>2. Spread(w.states, live) = w.states
    BY <1>4, <1>5 DEF Spread, Live
  <2>3. FirstItems(effects, 0) = {}
    BY DEF FirstItems
  <2>4. Restates(w.states, Spread(w.states, live), FirstItems(effects, 0))
    BY <1>4, <2>2, <2>3 DEF Restates
  <2> QED BY <2>1, <2>4 DEF RestateHolds, Retold, live
<1> HIDE DEF base
<1>7. ASSUME NEW b, NEW i \in 1 .. n, RestateHolds(p, i - 1, b)
      PROVE  RestateHolds(p, i, RestateStep(NoKey, b, effects[i]))
  <2> PICK e : e = effects[i]
    OBVIOUS
  <2> PICK A : A = FirstItems(effects, i - 1)
    OBVIOUS
  <2> PICK c : c = RestateStep(NoKey, b, e)
    OBVIOUS
  <2>1. OneMore(effects, i)
    <3>1. Listed(effects, n)
      BY <1>3 DEF Listed
    <3> QED BY <3>1, FirstItemsNext
  <2>2. e \in ToSet(effects) /\ A \subseteq ToSet(effects) /\ e \notin A /\ FirstItems(effects, i) = A \cup {e}
    BY <2>1 DEF OneMore
  <2>3. \A d \in ToSet(effects) : d.subject \in DOMAIN w.states /\ d.after \in Keys \cup {NoKey}
    <3>1. \A d \in ToSet(effects) : /\ d.subject \in Nat /\ d.after \in Keys \cup {NoKey}
                                    /\ d.subject > 0 /\ d.subject < w.next
      BY DEF EffectsFit, Effects
    <3>2. w.next \in Nat
      BY DEF Sound
    <3> QED BY <1>4, <3>1, <3>2
  <2>4. \A d \in A : d.subject # e.subject
    BY <2>2 DEF EffectsFit
  <2>5. c.keys = IF e.after = NoKey THEN [s \in DOMAIN b.keys \ {e.subject} |-> b.keys[s]]
                 ELSE SetKey(b.keys, e.subject, e.after)
    BY DEF RestateStep, ApplyStructuralEffect, IsRemove
  <2>6. Retold(w.states, b.keys, A)
    BY <1>7 DEF RestateHolds
  <2> PICK old : old = b.keys
    OBVIOUS
  <2> PICK new : new = c.keys
    OBVIOUS
  <2>a. e.subject \in DOMAIN w.states /\ e.after \in Keys \cup {NoKey}
    BY <2>2, <2>3
  <2>b. SpeaksOfAnother(w.states, A, e)
    BY <2>2, <2>3, <2>4 DEF SpeaksOfAnother
  <2>c. TakesEffect(old, e, new)
    BY <2>5 DEF TakesEffect
  <2>d. Retold(w.states, old, A)
    BY <2>6
  <2>7. Retold(w.states, new, A \cup {e})
    BY <2>a, <2>b, <2>c, <2>d, RestatedNext
  <2> QED BY <2>2, <2>7 DEF RestateHolds
<1>8. RestateHolds(p, n, t)
  <2>1. Restating!PlacesAreOrdered(n)
    BY LeastPlaces DEF Restating!PlacesAreOrdered
  <2> QED BY <1>2, <1>3, <1>6, <1>7, <2>1, Restating!FoldKeeps
<1>9. FirstItems(effects, n) = ToSet(effects)
  BY <1>3 DEF FirstItems, ToSet
<1> QED BY <1>1, <1>8, <1>9 DEF RestateHolds, base

LEMMA RankInIs ==
    ASSUME NEW T, NEW list \in Seq(T), NEW s
    PROVE  RankIn(list, s) \in 0 .. Len(list)
<1> DEFINE I == {i \in 1 .. Len(list) : list[i] = s}
<1>1. RankIn(list, s) = IF I # {} THEN Min(I) ELSE 0
  BY DEF RankIn, SelectInSeq
<1>2. Len(list) \in Nat /\ I \in SUBSET (1 .. Len(list))
  OBVIOUS
<1> HIDE DEF I
<1> QED BY <1>1, <1>2, LeastPlace

LEMMA InsertAtType ==
    ASSUME NEW T, NEW list \in Seq(T), NEW x \in T, NEW p \in 1 .. Len(list) + 1
    PROVE  InsertAt(list, p, x) \in Seq(T)
BY InsertAtIs

LEMMA RemoveAtType ==
    ASSUME NEW T, NEW list \in Seq(T), NEW p \in DOMAIN list
    PROVE  RemoveAt(list, p) \in Seq(T)
<1>1. p - 1 \in 0 .. Len(list) /\ p \in 0 .. Len(list)
  OBVIOUS
<1>2. PICK a : a = SubSeq(list, 1, p - 1)
  OBVIOUS
<1>3. PICK b : b = SubSeq(list, p + 1, Len(list))
  OBVIOUS
<1>4. a \in Seq(T)
  BY <1>1, <1>2, PrefixIs
<1>5. b \in Seq(T)
  BY <1>1, <1>3, SuffixIs
<1>6. a \o b \in Seq(T)
  BY <1>4, <1>5
<1> QED BY <1>2, <1>3, <1>6 DEF RemoveAt

(* The order of the target is a list of subjects, whatever rows wait.      *)
IsPlacing(t) ==
    /\ t = [ok |-> t.ok, pending |-> t.pending, order |-> t.order]
    /\ t.pending \in Seq(Effects) /\ t.order \in Seq(Nat)

AnchorStep(nothing, t, x) == AnchorNext(t)
PlaceStep(nothing, t, x) == PlaceNext(t)
PlacingHolds(before, n, t) == IsPlacing(t) /\ OrderKept(before, t.order)
Anchoring == INSTANCE Stepwise WITH Step <- AnchorStep, Holds <- PlacingHolds
Placing == INSTANCE Stepwise WITH Step <- PlaceStep, Holds <- PlacingHolds

LEMMA AnchorNextIs ==
    ASSUME NEW t, IsPlacing(t)
    PROVE  IsPlacing(AnchorNext(t)) /\ OrderKept(t.order, AnchorNext(t).order)
<1> DEFINE places == [j \in DOMAIN t.pending |-> j]
           I == {i \in 1 .. Len(places) : Unpreceded(t.pending, places[i])}
           i == SelectInSeq(places, LAMBDA j : Unpreceded(t.pending, j))
<1>1. t = [ok |-> t.ok, pending |-> t.pending, order |-> t.order] /\ t.pending \in Seq(Effects) /\ t.order \in Seq(Nat)
  BY DEF IsPlacing
<1>2. PICK n \in Nat : n = Len(t.pending) /\ DOMAIN t.pending = 1 .. n
  BY <1>1, ListDomain
<1>3. Len(places) = n
  BY <1>2
<1>4. i = IF I # {} THEN Min(I) ELSE 0
  BY DEF SelectInSeq
<1>5. i \in 0 .. n
  <2>1. I \in SUBSET (1 .. n)
    BY <1>3
  <2> HIDE DEF I
  <2> QED BY <1>4, <2>1, LeastPlace
<1>6. AnchorNext(t) = IF i = 0 THEN [t EXCEPT !.ok = FALSE]
                      ELSE [t EXCEPT !.order = Append(t.order, t.pending[i].subject),
                                     !.pending = RemoveAt(t.pending, i)]
  BY DEF AnchorNext
<1> HIDE DEF i
<1>7. CASE i = 0
  <2>1. AnchorNext(t) = [ok |-> FALSE, pending |-> t.pending, order |-> t.order]
    BY <1>1, <1>6, <1>7
  <2> QED BY <1>1, <2>1 DEF IsPlacing, OrderKept
<1>8. CASE i # 0
  <2>1. i \in DOMAIN t.pending
    BY <1>2, <1>5, <1>8
  <2>2. PICK q : q = RemoveAt(t.pending, i)
    OBVIOUS
  <2>3. PICK o : o = Append(t.order, t.pending[i].subject)
    OBVIOUS
  <2>4. q \in Seq(Effects)
    BY <1>1, <2>1, <2>2, RemoveAtType
  <2>5. t.pending[i] \in Effects
    BY <1>1, <2>1, ListDomain
  <2>6. t.pending[i].subject \in Nat
    BY <2>5 DEF Effects
  <2>7. o \in Seq(Nat) /\ OrderKept(t.order, o)
    BY <1>1, <2>3, <2>6, AppendIs, AppendKeeps
  <2>8. AnchorNext(t) = [t EXCEPT !.order = o, !.pending = q]
    BY <1>6, <1>8, <2>2, <2>3
  <2>9. AnchorNext(t) = [ok |-> t.ok, pending |-> q, order |-> o]
    BY <1>1, <2>8
  <2> QED BY <2>4, <2>7, <2>9 DEF IsPlacing
<1> QED BY <1>7, <1>8

LEMMA PlaceOneIs ==
    ASSUME NEW t, IsPlacing(t), NEW i \in DOMAIN t.pending
    PROVE  IsPlacing(PlaceOne(t, i)) /\ OrderKept(t.order, PlaceOne(t, i).order)
<1> DEFINE e == t.pending[i]
           l == RankIn(t.order, e.left)
           r == RankIn(t.order, e.right)
           at == CASE r # 0 -> r
                   [] r = 0 /\ l # 0 -> l + 1
                   [] OTHER -> Len(t.order) + 1
           ok == t.ok /\ (l # 0 /\ r # 0 => l < r) /\ (l = 0 /\ r = 0 => {e.left, e.right} = {0})
<1>1. t.pending \in Seq(Effects) /\ t.order \in Seq(Nat)
  BY DEF IsPlacing
<1>2. l \in 0 .. Len(t.order) /\ r \in 0 .. Len(t.order) /\ Len(t.order) \in Nat
  BY <1>1, RankInIs
<1>3. PlaceOne(t, i) = [ok |-> ok, order |-> InsertAt(t.order, at, e.subject), pending |-> RemoveAt(t.pending, i)]
  BY DEF PlaceOne
<1> HIDE DEF l, r
<1>4. at \in 1 .. Len(t.order) + 1
  BY <1>2
<1>5. e.subject \in Nat
  <2>1. e \in Effects
    BY <1>1, ListDomain
  <2> QED BY <2>1 DEF Effects
<1> HIDE DEF at, ok, e
<1>6. InsertAt(t.order, at, e.subject) \in Seq(Nat) /\ OrderKept(t.order, InsertAt(t.order, at, e.subject))
  BY <1>1, <1>4, <1>5, InsertAtType, InsertAtKeeps
<1>7. RemoveAt(t.pending, i) \in Seq(Effects)
  BY <1>1, RemoveAtType
<1> QED BY <1>3, <1>6, <1>7 DEF IsPlacing

LEMMA PlaceNextIs ==
    ASSUME NEW t, IsPlacing(t)
    PROVE  IsPlacing(PlaceNext(t)) /\ OrderKept(t.order, PlaceNext(t).order)
<1> DEFINE places == [j \in DOMAIN t.pending |-> j]
           I == {i \in 1 .. Len(places) : Ready(t.order, t.pending, places[i])}
           i == SelectInSeq(places, LAMBDA j : Ready(t.order, t.pending, j))
<1>1. t = [ok |-> t.ok, pending |-> t.pending, order |-> t.order] /\ t.pending \in Seq(Effects) /\ t.order \in Seq(Nat)
  BY DEF IsPlacing
<1>2. PICK n \in Nat : n = Len(t.pending) /\ DOMAIN t.pending = 1 .. n
  BY <1>1, ListDomain
<1>3. Len(places) = n
  BY <1>2
<1>4. i = IF I # {} THEN Min(I) ELSE 0
  BY DEF SelectInSeq
<1>5. i \in 0 .. n
  <2>1. I \in SUBSET (1 .. n)
    BY <1>3
  <2> HIDE DEF I
  <2> QED BY <1>4, <2>1, LeastPlace
<1>6. PICK u : u = Times(AnchorNext, Len(t.pending), t)
  OBVIOUS
<1>7. IsPlacing(u) /\ OrderKept(t.order, u.order)
  <2> PICK before : before = t.order
    OBVIOUS
  <2> DEFINE list == [j \in 1 .. n |-> j]
  <2>1. u = Anchoring!Folded(NoKey, t, list)
    BY <1>2, <1>6 DEF Times, Anchoring!Folded, Anchoring!Greatest, AnchorStep, FoldLeft, MapThenFoldSet, Max
  <2>2. DOMAIN list = 1 .. n /\ PlacingHolds(before, 0, t)
    BY DEF PlacingHolds, OrderKept
  <2>3. ASSUME NEW b, NEW j \in 1 .. n, PlacingHolds(before, j - 1, b)
        PROVE  PlacingHolds(before, j, AnchorStep(NoKey, b, list[j]))
    BY <2>3, AnchorNextIs DEF PlacingHolds, AnchorStep, OrderKept
  <2> HIDE DEF list
  <2>4. PlacingHolds(before, n, u)
    <3>1. Anchoring!PlacesAreOrdered(n)
      BY LeastPlaces DEF Anchoring!PlacesAreOrdered
    <3> QED BY <2>1, <2>2, <2>3, <3>1, Anchoring!FoldKeeps
  <2> QED BY <2>4 DEF PlacingHolds
<1>8. PlaceNext(t) = CASE ~t.ok \/ t.pending = <<>> -> t
                       [] t.ok /\ t.pending # <<>> /\ i # 0 -> PlaceOne(t, i)
                       [] t.ok /\ t.pending # <<>> /\ i = 0 /\ t.order = <<>> -> u
                       [] OTHER -> [t EXCEPT !.ok = FALSE]
  BY <1>6 DEF PlaceNext
<1> HIDE DEF i, I, places
<1>9. IsPlacing([t EXCEPT !.ok = FALSE]) /\ OrderKept(t.order, [t EXCEPT !.ok = FALSE].order)
  <2> PICK y : y = [t EXCEPT !.ok = FALSE]
    OBVIOUS
  <2>1. y = [ok |-> FALSE, pending |-> t.pending, order |-> t.order]
    BY <1>1
  <2> QED BY <1>1, <2>1 DEF IsPlacing, OrderKept
<1>10. i # 0 => IsPlacing(PlaceOne(t, i)) /\ OrderKept(t.order, PlaceOne(t, i).order)
  <2>1. i # 0 => i \in DOMAIN t.pending
    BY <1>2, <1>5
  <2> QED BY <2>1, PlaceOneIs
<1>11. PICK x : x = PlaceOne(t, i)
  OBVIOUS
<1>12. PICK y : y = [t EXCEPT !.ok = FALSE]
  OBVIOUS
<1>13. PlaceNext(t) \in {t, u, y} \/ (i # 0 /\ PlaceNext(t) = x)
  BY <1>8, <1>11, <1>12
<1>14. OrderKept(t.order, t.order)
  BY DEF OrderKept
<1> QED BY <1>7, <1>9, <1>10, <1>11, <1>12, <1>13, <1>14

LEMMA TargetOrderIs ==
    ASSUME NEW list \in Seq(Nat), NEW keys, NEW effects \in Seq(Effects)
    PROVE  LET placed == DeriveStructuralTargetOrder(list, keys, effects)
           IN  IsPlacing(placed) /\ OrderKept(Within(list, DOMAIN keys), placed.order)
<1> PICK additions : additions = Within(effects, {e \in ToSet(effects) : IsAdd(e)})
  OBVIOUS
<1> PICK stay : stay = Within(list, DOMAIN keys)
  OBVIOUS
<1> PICK base : base = [ok |-> TRUE, pending |-> additions, order |-> stay]
  OBVIOUS
<1>1. additions \in Seq(Effects)
  BY WithinIs
<1>2. stay \in Seq(Nat)
  BY WithinIs
<1>3. PICK n \in Nat : n = Len(additions)
  BY <1>1, ListDomain
<1> DEFINE places == [j \in 1 .. n |-> j]
<1>4. PICK u : u = Times(PlaceNext, Len(additions), base)
  OBVIOUS
<1>5. DeriveStructuralTargetOrder(list, keys, effects) = u
  BY <1>4 DEF DeriveStructuralTargetOrder
<1>6. u = Placing!Folded(NoKey, base, places)
  BY <1>3, <1>4 DEF Times, Placing!Folded, Placing!Greatest, PlaceStep, FoldLeft, MapThenFoldSet, Max
<1>7. DOMAIN places = 1 .. n
  OBVIOUS
<1>8. PlacingHolds(stay, 0, base)
  BY <1>1, <1>2 DEF PlacingHolds, IsPlacing, OrderKept
<1>9. ASSUME NEW b, NEW j \in 1 .. n, PlacingHolds(stay, j - 1, b)
      PROVE  PlacingHolds(stay, j, PlaceStep(NoKey, b, places[j]))
  BY <1>9, PlaceNextIs DEF PlacingHolds, PlaceStep, OrderKept
<1> HIDE DEF places
<1>10. PlacingHolds(stay, n, u)
  <2>1. Placing!PlacesAreOrdered(n)
    BY LeastPlaces DEF Placing!PlacesAreOrdered
  <2> QED BY <1>6, <1>7, <1>8, <1>9, <2>1, Placing!FoldKeeps
<1> QED BY <1>5, <1>10 DEF PlacingHolds

LEMMA DeclarativeTransitionIs ==
    ASSUME NEW w, Sound(w), NEW effects \in Seq(Effects), IsInjective(effects),
           EffectsFit(ToSet(effects), w.next), NEW from, NEW to, to = NoDelta \/ to.length \in Nat,
           NEW fresh, DeclarativeTransition(w, effects, from, to, fresh).ok
    PROVE  LET v == DeclarativeTransition(w, effects, from, to, fresh).store
           IN  /\ Realized(w, v, ToSet(effects))
               /\ to = NoDelta => KeepsOrder(w, v, {e.subject : e \in ToSet(effects)})
<1> PICK source : source = SubjectsOf(w.chain)
  OBVIOUS
<1> PICK rows : rows = FoldLeft(ApplyStructuralEffect, [ok |-> TRUE, keys |-> LiveKeys(w)], effects)
  OBVIOUS
<1> PICK u : u = DeriveStructuralTargetOrder(source, rows.keys, effects)
  OBVIOUS
<1> PICK a : a = ApplyCollectionOrderDelta(source, to)
  OBVIOUS
<1> PICK placed : placed = IF to = NoDelta THEN u
                           ELSE IF DeltaFits(source, w.frontier, from)
                                THEN [ok |-> TRUE, order |-> a]
                                ELSE [ok |-> FALSE, order |-> <<>>]
  OBVIOUS
<1> PICK frontier : frontier = IF to # NoDelta THEN to.frontier
                               ELSE IF DOMAIN rows.keys = ToSet(source) THEN w.frontier ELSE fresh
  OBVIOUS
<1> PICK v : v = InstallTarget(w, rows.keys, placed.order, frontier)
  OBVIOUS
<1> PICK result : result = DeclarativeTransition(w, effects, from, to, fresh)
  OBVIOUS
<1>1. result = IF rows.ok /\ placed.ok /\ CanInstall(w, rows.keys, placed.order) THEN Ok(v) ELSE Refused(w)
  BY DEF DeclarativeTransition
<1>2. rows.ok /\ placed.ok /\ CanInstall(w, rows.keys, placed.order) /\ result.store = v
  BY <1>1 DEF Ok, Refused
<1>3. Retold(w.states, rows.keys, ToSet(effects))
  BY TargetKeysAre
<1>4. source \in Seq(Nat)
  <2>1. w.chain \in Seq(Nodes)
    BY DEF Sound, ChainTells
  <2> PICK n \in Nat : n = Len(w.chain) /\ DOMAIN w.chain = 1 .. n /\ \A i \in 1 .. n : w.chain[i] \in Nodes
    BY <2>1, ListDomain
  <2>2. source = [i \in 1 .. n |-> w.chain[i].subject] /\ \A i \in 1 .. n : w.chain[i].subject \in Nat
    BY DEF SubjectsOf, Nodes
  <2> QED BY <2>2
<1>5. placed.order \in Seq(Nat)
  <2>1. CASE to = NoDelta
    BY <1>4, <2>1, TargetOrderIs DEF IsPlacing
  <2>2. CASE to # NoDelta
    <3> PICK n \in Nat : n = to.length
      BY <2>2
    <3>1. placed.order = a
      BY <1>2, <2>2
    <3>2. a = [i \in 1 .. n |-> a[i]]
      BY DEF ApplyCollectionOrderDelta
    <3>3. ToSet(a) = DOMAIN rows.keys /\ DOMAIN rows.keys \subseteq DOMAIN w.states
      BY <1>2, <3>1 DEF CanInstall
    <3>4. DOMAIN w.states \subseteq Nat
      BY DEF Sound
    <3>b. DOMAIN a = 1 .. n
      BY <3>2
    <3>5. \A i \in 1 .. n : a[i] \in Nat
      BY <3>b, <3>3, <3>4 DEF ToSet
    <3>6. a \in [1 .. n -> Nat]
      BY <3>2, <3>5
    <3>7. a \in Seq(Nat)
      BY <3>6, IsList
    <3> QED BY <3>1, <3>7
  <2> QED BY <2>1, <2>2
<1>6. PICK keys : keys = rows.keys
  OBVIOUS
<1>7. PICK line : line = placed.order
  OBVIOUS
<1>8. KeysNamed(keys)
  BY <1>3, <1>6 DEF Retold, KeysNamed
<1>9. Sound(v) /\ v.next = w.next /\ v.states = Spread(w.states, keys)
  <2>1. line \in Seq(Nat) /\ CanInstall(w, keys, line)
    BY <1>2, <1>5, <1>6, <1>7
  <2>2. v = InstallTarget(w, keys, line, frontier)
    BY <1>6, <1>7
  <2> QED BY <1>8, <2>1, <2>2, InstallTargetIs
<1>10. Restates(w.states, v.states, ToSet(effects))
  BY <1>3, <1>6, <1>9 DEF Retold
<1>11. ASSUME to = NoDelta PROVE KeepsOrder(w, v, {e.subject : e \in ToSet(effects)})
  <2>1. line = u.order /\ OrderKept(Within(source, DOMAIN keys), line)
    BY <1>4, <1>6, <1>7, <1>11, TargetOrderIs
  <2>2. SubjectsOf(v.chain) = line
    <3>1. v.chain = [i \in DOMAIN line |-> Node(line[i], keys[line[i]])]
      BY <1>6, <1>7 DEF InstallTarget
    <3>2. line \in Seq(Nat)
      BY <1>5, <1>7
    <3>3. \A i \in DOMAIN line : v.chain[i].subject = line[i]
      BY <3>1 DEF Node
    <3>a. DOMAIN v.chain = DOMAIN line
      BY <3>1
    <3>4. SubjectsOf(v.chain) = [i \in DOMAIN line |-> line[i]]
      BY <3>3, <3>a DEF SubjectsOf
    <3> QED BY <3>2, <3>4
  <2>3. IsInjective(source)
    BY OnePlace DEF SubjectsOf, IsInjective
  <2> SUFFICES ASSUME NEW s, NEW x, s \notin {e.subject : e \in ToSet(effects)},
                      x \notin {e.subject : e \in ToSet(effects)}, InOrder(source, s, x)
               PROVE  InOrder(line, s, x)
    BY <2>2 DEF KeepsOrder, LineKept
  <2>4. s \in Live(w.states) /\ x \in Live(w.states)
    BY RowIs DEF InOrder, SubjectsOf
  <2>5. \A y \in Live(w.states) : y \notin {e.subject : e \in ToSet(effects)} => y \in DOMAIN keys
    <3> SUFFICES ASSUME NEW y \in DOMAIN w.states, w.states[y] # NoKey,
                        y \notin {e.subject : e \in ToSet(effects)}
                 PROVE  y \in DOMAIN keys
      BY DEF Live
    <3>1. v.states[y] = w.states[y]
      BY <1>10 DEF Restates
    <3>2. v.states[y] = IF y \in DOMAIN keys THEN keys[y] ELSE NoKey
      BY <1>9 DEF Spread
    <3> QED BY <3>1, <3>2
  <2>6. InOrder(Within(source, DOMAIN keys), s, x)
    BY <1>4, <2>3, <2>4, <2>5, WithinKeeps
  <2> QED BY <2>1, <2>6 DEF OrderKept
<1> QED BY <1>2, <1>9, <1>10, <1>11 DEF Realized
=============================================================================
