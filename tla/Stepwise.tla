------------------------------ MODULE Stepwise ------------------------------
(***************************************************************************)
(* What FoldLeft preserves: an induction over the places of a list, for    *)
(* one step operation and one predicate at a time.  A module that folds    *)
(* instantiates this one with its step and with what the step preserves.   *)
(***************************************************************************)
EXTENDS Integers

CONSTANTS
    Step(_, _, _),  \* from a parameter, what there is and the next item
    Holds(_, _, _)  \* of a parameter, the items so far and what there is

Greatest(T) == CHOOSE x \in T : \A y \in T : x >= y

(* FoldLeft of the step, as SequencesExt and Folds define it.              *)
Folded(s, base, list) ==
    LET iter[T \in SUBSET DOMAIN list] ==
          IF T = {} THEN base
          ELSE LET i == Greatest(T) IN Step(s, iter[T \ {i}], list[i])
    IN  iter[DOMAIN list]

(* The equation the fold solves, for the sets of the first n places.       *)
Folds(g, s, base, list, n) ==
    g = [T \in SUBSET (1 .. n) |->
            IF T = {} THEN base ELSE Step(s, g[T \ {Greatest(T)}], list[Greatest(T)])]

(* Sets of places have a least member: Foundations proves it, and whoever  *)
(* instantiates this module, which knows only of integers, says so.        *)
PlacesAreOrdered(n) ==
    \A B \in SUBSET (0 .. n) : B # {} => \E m \in B : \A k \in 0 .. n : k < m => k \notin B

LEMMA GreatestPlace ==
    ASSUME NEW n \in Nat, PlacesAreOrdered(n), NEW T \in SUBSET (1 .. n), T # {}
    PROVE  Greatest(T) \in T /\ \A i \in T : i <= Greatest(T)
<1> DEFINE B == {k \in 0 .. n : \A i \in T : i <= k}
<1>1. n \in B /\ B \in SUBSET (0 .. n)
  OBVIOUS
<1> HIDE DEF B
<1>2. PICK m \in B : \A k \in 0 .. n : k < m => k \notin B
  BY <1>1 DEF PlacesAreOrdered
<1>3. m \in 0 .. n /\ \A i \in T : i <= m
  BY DEF B
<1>4. m \in T
  <2> SUFFICES ASSUME m \notin T PROVE FALSE
    OBVIOUS
  <2>1. m > 0
    <3>1. PICK i \in T : i <= m
      BY <1>3
    <3> QED BY <1>3, <3>1
  <2>2. m - 1 \in 0 .. n /\ m - 1 < m
    BY <1>3, <2>1
  <2>3. m - 1 \in B
    <3> SUFFICES ASSUME NEW i \in T PROVE i <= m - 1
      BY <2>2 DEF B
    <3>1. i \in Int /\ i <= m /\ i # m /\ m \in Int
      BY <1>3
    <3> QED BY <3>1
  <2> QED BY <1>2, <2>2, <2>3
<1>5. \A x \in T : (\A i \in T : x >= i) => x = m
  BY <1>3, <1>4
<1>6. \E x \in T : \A i \in T : x >= i
  BY <1>3, <1>4
<1> QED BY <1>3, <1>4, <1>5, <1>6 DEF Greatest

LEMMA FoldsExists ==
    ASSUME NEW s, NEW base, NEW list, NEW n \in Nat, PlacesAreOrdered(n)
    PROVE  \E g : Folds(g, s, base, list, n)
<1> DEFINE Bad == {m \in 0 .. n : ~\E g : Folds(g, s, base, list, m)}
<1> SUFFICES ASSUME Bad # {} PROVE FALSE
  OBVIOUS
<1>1. PICK m \in Bad : \A k \in 0 .. n : k < m => k \notin Bad
  <2>1. Bad \in SUBSET (0 .. n)
    OBVIOUS
  <2> HIDE DEF Bad
  <2> QED BY <2>1 DEF PlacesAreOrdered
<1>2. CASE m = 0
  <2> DEFINE g == [T \in SUBSET (1 .. 0) |-> base]
  <2>1. \A T \in SUBSET (1 .. 0) : T = {}
    OBVIOUS
  <2>2. Folds(g, s, base, list, 0)
    BY <2>1 DEF Folds
  <2> QED BY <1>1, <1>2, <2>2
<1>3. CASE m # 0
  <2>1. m \in Nat /\ m > 0 /\ m - 1 \in 0 .. n /\ m - 1 < m
    BY <1>1, <1>3
  <2>2. PICK g : Folds(g, s, base, list, m - 1)
    BY <1>1, <2>1
  <2> DEFINE h == [T \in SUBSET (1 .. m) |->
                     IF m \in T THEN Step(s, g[T \ {m}], list[m]) ELSE g[T]]
  <2>3. ASSUME NEW T \in SUBSET (1 .. m)
        PROVE  h[T] = IF T = {} THEN base ELSE Step(s, h[T \ {Greatest(T)}], list[Greatest(T)])
    <3>1. \A R \in SUBSET (1 .. m) : m \notin R => R \in SUBSET (1 .. m - 1)
      BY <2>1
    <3>2. \A R \in SUBSET (1 .. m - 1) : R \in SUBSET (1 .. m) /\ m \notin R
      BY <2>1
    <3>3. \A R \in SUBSET (1 .. m - 1) : 
             g[R] = IF R = {} THEN base ELSE Step(s, g[R \ {Greatest(R)}], list[Greatest(R)])
      BY <2>2 DEF Folds
    <3>4. \A R \in SUBSET (1 .. m - 1) : h[R] = g[R]
      BY <3>2
    <3>5. CASE m \in T
      <4>1. T # {} /\ Greatest(T) \in T /\ Greatest(T) >= m
        BY <2>1, <3>5, GreatestPlace
      <4>2. Greatest(T) = m
        <5>1. \A i \in T : i \in Int /\ i <= m
          BY <2>1
        <5>2. PICK x \in T : x = Greatest(T)
          BY <4>1
        <5>3. x \in Int /\ x <= m /\ x >= m /\ m \in Int
          BY <2>1, <4>1, <5>1, <5>2
        <5>4. x = m
          BY <5>3
        <5> QED BY <5>2, <5>4
      <4>3. T \ {m} \in SUBSET (1 .. m - 1)
        BY <3>1
      <4>4. h[T] = Step(s, g[T \ {m}], list[m])
        BY <3>5
      <4> HIDE DEF h
      <4> QED BY <4>1, <4>2, <4>3, <4>4, <3>4
    <3>6. CASE m \notin T
      <4>1. T \in SUBSET (1 .. m - 1) /\ T \ {Greatest(T)} \in SUBSET (1 .. m - 1)
        BY <3>1, <3>6
      <4> HIDE DEF h
      <4> QED BY <3>3, <3>4, <4>1
    <3> QED BY <3>5, <3>6
  <2>4. Folds(h, s, base, list, m)
    <3> DEFINE R(T) == IF T = {} THEN base ELSE Step(s, h[T \ {Greatest(T)}], list[Greatest(T)])
    <3>1. \A T \in SUBSET (1 .. m) : h[T] = R(T)
      BY <2>3
    <3>2. h = [T \in SUBSET (1 .. m) |-> h[T]]
      OBVIOUS
    <3> HIDE DEF h, R
    <3>3. h = [T \in SUBSET (1 .. m) |-> R(T)]
      BY <3>1, <3>2
    <3> QED BY <3>3 DEF Folds, R
  <2> QED BY <1>1, <2>4
<1> QED BY <1>2, <1>3

(* What every step carries from the items before it to the items with it   *)
(* holds, for all the items, of the fold.                                  *)
LEMMA FoldKeeps ==
    ASSUME NEW s, NEW p, NEW base, NEW n \in Nat, NEW list, DOMAIN list = 1 .. n,
           PlacesAreOrdered(n), Holds(p, 0, base),
           \A b : \A i \in 1 .. n : Holds(p, i - 1, b) => Holds(p, i, Step(s, b, list[i]))
    PROVE  Holds(p, n, Folded(s, base, list))
<1> DEFINE G == CHOOSE g : g = [T \in SUBSET (1 .. n) |->
                     IF T = {} THEN base ELSE Step(s, g[T \ {Greatest(T)}], list[Greatest(T)])]
<1>1. Folded(s, base, list) = G[1 .. n]
  BY DEF Folded
<1>2. \E g : g = [T \in SUBSET (1 .. n) |->
                     IF T = {} THEN base ELSE Step(s, g[T \ {Greatest(T)}], list[Greatest(T)])]
  <2>1. PICK g : Folds(g, s, base, list, n)
    BY FoldsExists
  <2>2. g = [T \in SUBSET (1 .. n) |->
                IF T = {} THEN base ELSE Step(s, g[T \ {Greatest(T)}], list[Greatest(T)])]
    BY <2>1 DEF Folds
  <2> QED BY <2>2
<1>3. G = [T \in SUBSET (1 .. n) |->
                     IF T = {} THEN base ELSE Step(s, G[T \ {Greatest(T)}], list[Greatest(T)])]
  BY <1>2
<1> HIDE DEF G
<1>4. \A T \in SUBSET (1 .. n) : 
         G[T] = IF T = {} THEN base ELSE Step(s, G[T \ {Greatest(T)}], list[Greatest(T)])
  BY <1>3
<1> DEFINE Bad == {m \in 0 .. n : ~Holds(p, m, G[1 .. m])}
<1> SUFFICES ASSUME Bad # {} PROVE FALSE
  <2>1. n \in 0 .. n
    OBVIOUS
  <2> QED BY <1>1, <2>1
<1>5. PICK m \in Bad : \A k \in 0 .. n : k < m => k \notin Bad
  <2>1. Bad \in SUBSET (0 .. n)
    OBVIOUS
  <2> HIDE DEF Bad
  <2> QED BY <2>1 DEF PlacesAreOrdered
<1>6. CASE m = 0
  <2>1. 1 .. m = {} /\ {} \in SUBSET (1 .. n)
    BY <1>6
  <2>2. G[1 .. m] = base
    BY <1>4, <2>1
  <2>3. ~Holds(p, m, G[1 .. m])
    BY <1>5
  <2> QED BY <1>6, <2>2, <2>3
<1>7. CASE m # 0
  <2>1. m \in Nat /\ m > 0 /\ m - 1 \in 0 .. n /\ m - 1 < m /\ m \in 1 .. n
    BY <1>5, <1>7
  <2>2. /\ 1 .. m \in SUBSET (1 .. n) /\ 1 .. m # {} /\ m \in 1 .. m
        /\ (1 .. m) \ {m} = 1 .. m - 1
    <3>1. m \in Int /\ n \in Int /\ m <= n /\ 1 <= m
      BY <2>1
    <3>2. 1 .. m \subseteq 1 .. n /\ m \in 1 .. m
      BY <3>1
    <3>3. \A i : i \in (1 .. m) \ {m} <=> i \in 1 .. m - 1
      BY <3>1
    <3> QED BY <3>2, <3>3
  <2>3. Greatest(1 .. m) \in 1 .. m /\ Greatest(1 .. m) >= m
    BY <2>1, <2>2, GreatestPlace
  <2>4. Greatest(1 .. m) = m
    BY <2>1, <2>3
  <2>5. G[1 .. m] = Step(s, G[1 .. m - 1], list[m])
    BY <1>4, <2>2, <2>4
  <2>6. Holds(p, m - 1, G[1 .. m - 1])
    BY <1>5, <2>1
  <2>7. Holds(p, m, Step(s, G[1 .. m - 1], list[m]))
    BY <2>1, <2>6
  <2>8. ~Holds(p, m, G[1 .. m])
    BY <1>5
  <2> QED BY <2>5, <2>7, <2>8
<1> QED BY <1>6, <1>7
=============================================================================
