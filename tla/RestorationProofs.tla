------------------------- MODULE RestorationProofs -------------------------
(***************************************************************************)
(* The restoration history for any number of positions, cells, turns and   *)
(* transactions and any retention limit: each method of the manager is     *)
(* shown to keep its maps, frontiers and claims in step, and from there    *)
(* the properties of the enhancer's steps.                                 *)
(***************************************************************************)
EXTENDS Restoration, Foundations

-----------------------------------------------------------------------------
(* The manager's fields                                                    *)

Fields == {"history", "indexed", "pendingTurns", "below", "claims", "forgotten",
           "nextTurnId", "currentIndex", "temporal"}

LEMMA InitialFrame ==
    LET m == InitialManager
    IN  /\ DOMAIN m = Fields
        /\ m.history = EmptyMap /\ m.indexed = EmptyMap /\ m.pendingTurns = EmptyMap
        /\ m.below = [p \in Positions |-> {}] /\ m.claims = EmptyMap
        /\ m.forgotten = {} /\ m.nextTurnId = 1 /\ m.currentIndex = -1
        /\ m.temporal = FALSE
BY DEF InitialManager, Fields

LEMMA EmptyMapDomain == DOMAIN EmptyMap = {}
BY DEF EmptyMap

LEMMA SetKeyIs ==
    ASSUME NEW f, NEW x, NEW v
    PROVE  /\ DOMAIN SetKey(f, x, v) = DOMAIN f \cup {x}
           /\ SetKey(f, x, v)[x] = v
           /\ \A y \in DOMAIN f \ {x} : SetKey(f, x, v)[y] = f[y]
BY DEF SetKey

LEMMA WithoutIs ==
    ASSUME NEW f, NEW S
    PROVE  /\ DOMAIN Without(f, S) = DOMAIN f \ S
           /\ \A y \in DOMAIN f \ S : Without(f, S)[y] = f[y]
BY DEF Without

Keeps(m, t) == t \in UNION {m.below[p] : p \in Positions} \/ t \notin DOMAIN m.indexed
TurnsAt(m, p) == {t \in Ids(m) : p \in m.history[t].positions}
Rebuilt(m, p) == {t \in TurnsAt(m, p) : \A u \in TurnsAt(m, p) : u <= t => Keeps(m, u)}

LEMMA RebuildFrame ==
    ASSUME NEW m, DOMAIN m = Fields
    PROVE  LET b == RebuildTurnIndexes(m)
           IN  /\ DOMAIN b = Fields
               /\ b.history = m.history /\ b.indexed = m.history
               /\ b.below = [p \in Positions |-> Rebuilt(m, p)]
               /\ b.pendingTurns = m.pendingTurns /\ b.claims = m.claims
               /\ b.forgotten = m.forgotten /\ b.nextTurnId = m.nextTurnId
               /\ b.currentIndex = m.currentIndex /\ b.temporal = m.temporal
BY DEF RebuildTurnIndexes, Fields, Keeps, TurnsAt, Rebuilt

LEMMA ReleaseFrame ==
    ASSUME NEW m, DOMAIN m = Fields, NEW ids, NEW retired
    PROVE  LET b == ReleaseRetained(m, ids, retired)
           IN  /\ DOMAIN b = Fields
               /\ b.claims = Without(m.claims, ids)
               /\ b.history = m.history /\ b.indexed = m.indexed
               /\ b.pendingTurns = m.pendingTurns /\ b.below = m.below
               /\ b.nextTurnId = m.nextTurnId
               /\ b.currentIndex = m.currentIndex /\ b.temporal = m.temporal
BY DEF ReleaseRetained, Fields

(* What stays of the history when some of its turns are let go.            *)
Drop(m, ids, retired) ==
    ReleaseRetained([m EXCEPT !.history = Without(@, ids)], ids, retired)

LEMMA DropFrame ==
    ASSUME NEW m, DOMAIN m = Fields, NEW ids, NEW retired
    PROVE  LET b == Drop(m, ids, retired)
           IN  /\ DOMAIN b = Fields
               /\ b.history = Without(m.history, ids)
               /\ b.claims = Without(m.claims, ids)
               /\ b.indexed = m.indexed
               /\ b.pendingTurns = m.pendingTurns /\ b.below = m.below
               /\ b.nextTurnId = m.nextTurnId
               /\ b.currentIndex = m.currentIndex /\ b.temporal = m.temporal
<1> DEFINE n == [m EXCEPT !.history = Without(@, ids)]
<1>1. /\ DOMAIN n = Fields /\ n.history = Without(m.history, ids)
      /\ n.claims = m.claims /\ n.indexed = m.indexed
      /\ n.pendingTurns = m.pendingTurns /\ n.below = m.below
      /\ n.nextTurnId = m.nextTurnId
      /\ n.currentIndex = m.currentIndex /\ n.temporal = m.temporal
  BY DEF Fields
<1> HIDE DEF n
<1>2. Drop(m, ids, retired) = ReleaseRetained(n, ids, retired)
  BY DEF Drop, n
<1> QED BY <1>1, <1>2, ReleaseFrame

-----------------------------------------------------------------------------
(* The manager between two methods                                         *)

Turned(m) ==
    /\ DOMAIN m = Fields
    /\ m.nextTurnId \in Nat \ {0}
    /\ Ids(m) \cup DOMAIN m.pendingTurns \subseteq 1 .. (m.nextTurnId - 1)
    /\ \A t \in Ids(m) : IsTurn(m.history[t])
    /\ \A t \in DOMAIN m.pendingTurns : IsTurn(m.pendingTurns[t])
    /\ m.temporal \in BOOLEAN

Bounded(m) ==
    /\ Ids(m) \cap DOMAIN m.pendingTurns = {}
    /\ Cardinality(Ids(m)) <= MaxHistory
    /\ m.currentIndex \in -1 .. (Cardinality(Ids(m)) - 1)

Indexed(m) ==
    /\ m.indexed = m.history
    /\ DOMAIN m.below = Positions
    /\ \A p \in Positions : m.below[p] \subseteq At(m, p)

SameStatus(m) ==
    \A t \in DOMAIN m.indexed : \A p, q \in m.indexed[t].positions :
        t \in m.below[p] <=> t \in m.below[q]

AppliedFirst(m) ==
    \A p \in Positions : \A t \in m.below[p] :
        \A u \in At(m, p) : u < t => u \in m.below[p]

RetainedTurns(m) == {m.history[t] : t \in Ids(m)}

Claimed(m) == m.claims = [t \in Ids(m) |-> m.history[t].subjects]

ManagerOK(m) ==
    /\ Turned(m) /\ Bounded(m) /\ Indexed(m)
    /\ SameStatus(m) /\ AppliedFirst(m) /\ Claimed(m)

LEMMA IdsAreFinite ==
    ASSUME NEW m, Turned(m)
    PROVE  /\ Ids(m) \subseteq Nat \ {0} /\ IsFiniteSet(Ids(m))
           /\ Cardinality(Ids(m)) \in Nat
<1>1. m.nextTurnId - 1 \in Int /\ Ids(m) \subseteq 1 .. (m.nextTurnId - 1)
  BY DEF Turned
<1>2. IsFiniteSet(Ids(m))
  BY <1>1, BoundedIsFinite
<1> QED BY <1>1, <1>2, FS_CardinalityType

LEMMA InitialOK == ManagerOK(InitialManager)
<1> DEFINE m == InitialManager
<1>1. Ids(m) = {} /\ DOMAIN m.pendingTurns = {} /\ DOMAIN m.indexed = {}
  BY InitialFrame, EmptyMapDomain DEF Ids
<1>2. Cardinality(Ids(m)) = 0 /\ MaxHistory \in Nat
  BY <1>1, FS_EmptySet, BoundsAssumption
<1>3. m.currentIndex \in -1 .. (Cardinality(Ids(m)) - 1)
  BY <1>2, InitialFrame
<1>4. DOMAIN m = Fields /\ m.nextTurnId = 1 /\ m.temporal = FALSE
  BY InitialFrame
<1> HIDE DEF m
<1>5. Turned(m) /\ Bounded(m)
  <2>1. m.nextTurnId \in Nat \ {0}
    BY <1>4
  <2>2. Ids(m) \cup DOMAIN m.pendingTurns \subseteq 1 .. (m.nextTurnId - 1)
    BY <1>1
  <2>3. Cardinality(Ids(m)) <= MaxHistory
    BY <1>2
  <2>4. m.temporal \in BOOLEAN
    BY <1>4, Zenon
  <2> QED BY <1>1, <1>3, <1>4, <2>1, <2>2, <2>3, <2>4 DEF Turned, Bounded
<1> USE DEF m
<1>6. Indexed(m) /\ SameStatus(m) /\ AppliedFirst(m)
  BY <1>1, InitialFrame DEF Indexed, SameStatus, AppliedFirst
<1>7. Claimed(m)
  BY <1>1, InitialFrame DEF Claimed, EmptyMap
<1> QED BY <1>5, <1>6, <1>7 DEF ManagerOK

(* A turn has positions, and all of them agree: it is applied at every one *)
(* of them or at none.                                                     *)
LEMMA AppliedEverywhere ==
    ASSUME NEW m, ManagerOK(m), NEW t \in Ids(m)
    PROVE  /\ m.indexed[t].positions \subseteq Positions
           /\ m.indexed[t].positions # {}
           /\ TurnApplied(m, t) <=> \A p \in m.indexed[t].positions : t \in m.below[p]
           /\ TurnApplied(m, t) <=> \E p \in Positions : t \in m.below[p]
<1>1. m.indexed = m.history /\ IsTurn(m.history[t]) /\ t \in DOMAIN m.indexed
  BY DEF ManagerOK, Turned, Indexed, Ids
<1>2. m.indexed[t].positions \subseteq Positions /\ m.indexed[t].positions # {}
  BY <1>1 DEF IsTurn
<1>3. \A p, q \in m.indexed[t].positions : t \in m.below[p] <=> t \in m.below[q]
  BY <1>1 DEF ManagerOK, SameStatus
<1>4. \A p \in Positions : t \in m.below[p] => p \in m.indexed[t].positions
  BY DEF ManagerOK, Indexed, At
<1> QED BY <1>2, <1>3, <1>4 DEF TurnApplied

-----------------------------------------------------------------------------
(* Admitting a turn                                                        *)

(* What admission finds: every turn of the index is applied somewhere.     *)
Settled(m) ==
    /\ DOMAIN m.below = Positions
    /\ \A t \in DOMAIN m.indexed : \E p \in Positions : t \in m.below[p]

LEMMA RebuildSettled ==
    ASSUME NEW m, Turned(m), Settled(m)
    PROVE  LET b == RebuildTurnIndexes(m)
           IN  /\ Turned(b) /\ Indexed(b) /\ SameStatus(b) /\ AppliedFirst(b)
               /\ \A p \in Positions : b.below[p] = At(b, p)
<1> DEFINE b == RebuildTurnIndexes(m)
<1>1. DOMAIN m = Fields
  BY DEF Turned
<1>2. /\ DOMAIN b = Fields /\ b.history = m.history /\ b.indexed = m.history
      /\ b.pendingTurns = m.pendingTurns /\ b.nextTurnId = m.nextTurnId
      /\ b.temporal = m.temporal
      /\ b.below = [p \in Positions |-> Rebuilt(m, p)]
  BY <1>1, RebuildFrame
<1>3. \A p \in Positions : b.below[p] = At(b, p)
  <2> TAKE p \in Positions
  <2>1. \A u : Keeps(m, u)
    BY DEF Settled, Keeps
  <2>2. b.below[p] = Rebuilt(m, p)
    BY <1>2
  <2>3. b.below[p] = TurnsAt(m, p)
    BY <2>1, <2>2 DEF Rebuilt
  <2> QED BY <1>2, <2>3 DEF At, Ids, TurnsAt
<1> HIDE DEF b
<1>4. Turned(b)
  BY <1>2 DEF Turned, Ids
<1>5. \A t \in DOMAIN b.indexed : b.indexed[t].positions \subseteq Positions
  BY <1>2 DEF Turned, Ids, IsTurn
<1>6. Indexed(b) /\ SameStatus(b) /\ AppliedFirst(b)
  BY <1>2, <1>3, <1>5 DEF Indexed, SameStatus, AppliedFirst, At
<1> QED BY <1>3, <1>4, <1>6 DEF b

LEMMA DropKeeps ==
    ASSUME NEW m, NEW ids, NEW retired, Turned(m)
    PROVE  LET b == Drop(m, ids, retired)
           IN  /\ Turned(b) /\ Ids(b) = Ids(m) \ ids
               /\ Cardinality(Ids(b)) <= Cardinality(Ids(m))
               /\ Claimed(m) => Claimed(b)
               /\ \A t \in Ids(b) : b.history[t] = m.history[t]
<1> DEFINE b == Drop(m, ids, retired)
<1>1. DOMAIN m = Fields
  BY DEF Turned
<1>2. /\ DOMAIN b = Fields
      /\ b.history = Without(m.history, ids) /\ b.claims = Without(m.claims, ids)
      /\ b.pendingTurns = m.pendingTurns
      /\ b.nextTurnId = m.nextTurnId /\ b.temporal = m.temporal
  BY <1>1, DropFrame
<1> HIDE DEF b
<1>3. Ids(b) = Ids(m) \ ids /\ \A t \in Ids(b) : b.history[t] = m.history[t]
  BY <1>2 DEF Ids, Without
<1>4. Turned(b)
  BY <1>2, <1>3 DEF Turned
<1>5. Cardinality(Ids(b)) <= Cardinality(Ids(m))
  <2>1. Ids(b) \in SUBSET Ids(m)
    BY <1>3
  <2> QED BY <2>1, IdsAreFinite, FS_Subset
<1>6. ASSUME Claimed(m) PROVE Claimed(b)
  <2>1. b.claims = [t \in Ids(m) \ ids |-> m.history[t].subjects]
    BY <1>2, <1>6 DEF Claimed, Without
  <2> QED BY <2>1, <1>3 DEF Claimed
<1> QED BY <1>3, <1>4, <1>5, <1>6 DEF b

(* Undone turns leave the history before another turn enters it.           *)
LEMMA TruncateSettles ==
    ASSUME NEW m, NEW retired, ManagerOK(m)
    PROVE  LET b == TruncateScopedRedoFuture(m, retired)
           IN  /\ Turned(b) /\ Claimed(b) /\ Settled(b)
               /\ Ids(b) \subseteq Ids(m)
               /\ Cardinality(Ids(b)) <= Cardinality(Ids(m))
               /\ b.pendingTurns = m.pendingTurns /\ b.nextTurnId = m.nextTurnId
               /\ \A t \in Ids(b) : b.history[t] = m.history[t]
<1> DEFINE gone == {t \in Ids(m) : m.history[t].positions # {}
                            /\ \A p \in Positions : t \notin m.below[p]}
           d == Drop(m, gone, retired)
           e == [d EXCEPT !.currentIndex = Cardinality(Ids(d)) - 1]
           n == [m EXCEPT !.history = Without(@, gone)]
           b == TruncateScopedRedoFuture(m, retired)
<1>1. b = RebuildTurnIndexes(e)
  BY DEF TruncateScopedRedoFuture, Drop
<1>2. Turned(m) /\ DOMAIN m = Fields /\ Claimed(m) /\ Indexed(m)
  BY DEF ManagerOK, Turned
<1>3. gone \subseteq Ids(m) /\ \A t \in Ids(m) \ gone : \E p \in Positions : t \in m.below[p]
  BY <1>2 DEF Turned, IsTurn
<1> HIDE DEF gone
<1>4. /\ DOMAIN d = Fields /\ d.indexed = m.indexed /\ d.below = m.below
      /\ d.pendingTurns = m.pendingTurns /\ d.nextTurnId = m.nextTurnId
  BY <1>2, DropFrame
<1>5. /\ Turned(d) /\ Ids(d) = Ids(m) \ gone /\ Claimed(d)
      /\ Cardinality(Ids(d)) <= Cardinality(Ids(m))
      /\ \A t \in Ids(d) : d.history[t] = m.history[t]
  BY <1>2, DropKeeps
<1> HIDE DEF d
<1>6. /\ DOMAIN e = Fields /\ e.indexed = d.indexed /\ e.below = d.below
      /\ e.history = d.history /\ e.pendingTurns = d.pendingTurns
      /\ e.nextTurnId = d.nextTurnId /\ e.temporal = d.temporal
      /\ e.claims = d.claims
  BY <1>4 DEF Fields
<1> HIDE DEF e
<1>7. Turned(e) /\ Ids(e) = Ids(d) /\ Claimed(e)
  BY <1>5, <1>6 DEF Turned, Ids, Claimed
<1>8. /\ DOMAIN b = Fields /\ b.history = e.history /\ b.indexed = e.history
      /\ b.below = [p \in Positions |-> Rebuilt(e, p)]
      /\ b.pendingTurns = e.pendingTurns /\ b.nextTurnId = e.nextTurnId
      /\ b.claims = e.claims /\ b.temporal = e.temporal
  BY <1>1, <1>6, RebuildFrame
<1> HIDE DEF b
<1>9. Turned(b) /\ Ids(b) = Ids(e) /\ Claimed(b)
  BY <1>7, <1>8 DEF Turned, Ids, Claimed
<1>10. ASSUME NEW t \in DOMAIN b.indexed
       PROVE  \E p \in Positions : t \in b.below[p]
  <2>1. t \in Ids(e) /\ IsTurn(e.history[t])
    BY <1>7, <1>8 DEF Ids, Turned
  <2>2. PICK p \in e.history[t].positions : p \in Positions
    BY <2>1 DEF IsTurn
  <2>3. \A u \in TurnsAt(e, p) : Keeps(e, u)
    BY <1>3, <1>4, <1>5, <1>6, <1>7 DEF TurnsAt, Keeps
  <2>4. t \in Rebuilt(e, p)
    BY <2>1, <2>2, <2>3 DEF Rebuilt, TurnsAt
  <2> QED BY <1>8, <2>2, <2>4
<1>11. Settled(b)
  BY <1>8, <1>10 DEF Settled
<1>12. \A t \in Ids(b) : b.history[t] = m.history[t]
  BY <1>5, <1>6, <1>7, <1>8, <1>9
<1> QED BY <1>4, <1>5, <1>6, <1>7, <1>8, <1>9, <1>11, <1>12 DEF b

LEMMA PrepareSettles ==
    ASSUME NEW m, NEW retired, ManagerOK(m)
    PROVE  LET b == PrepareConfirmedInsertion(m, retired)
           IN  /\ Turned(b) /\ Claimed(b) /\ Settled(b)
               /\ Ids(b) \subseteq Ids(m)
               /\ Cardinality(Ids(b)) <= Cardinality(Ids(m))
               /\ b.pendingTurns = m.pendingTurns /\ b.nextTurnId = m.nextTurnId
               /\ \A t \in Ids(b) : b.history[t] = m.history[t]
<1> DEFINE a == IF HasScopedRedoFuture(m) THEN TruncateScopedRedoFuture(m, retired)
                                          ELSE m
           undone == {t \in Ids(a) : HistoryIndex(Ids(a), t) > a.currentIndex}
           b == PrepareConfirmedInsertion(m, retired)
<1>1. /\ Turned(a) /\ Claimed(a) /\ Settled(a) /\ Ids(a) \subseteq Ids(m)
      /\ Cardinality(Ids(a)) <= Cardinality(Ids(m))
      /\ a.pendingTurns = m.pendingTurns /\ a.nextTurnId = m.nextTurnId
      /\ \A t \in Ids(a) : a.history[t] = m.history[t]
  <2>1. CASE HasScopedRedoFuture(m)
    BY <2>1, TruncateSettles
  <2>2. CASE ~HasScopedRedoFuture(m)
    <3>1. a = m /\ \A p \in Positions : m.below[p] = At(m, p)
      BY <2>2 DEF HasScopedRedoFuture
    <3>2. Turned(m) /\ Claimed(m) /\ Indexed(m) /\ Cardinality(Ids(m)) \in Nat
      BY IdsAreFinite DEF ManagerOK
    <3>3. \A t \in DOMAIN m.indexed : \E p \in Positions : p \in m.indexed[t].positions
      BY <3>2 DEF Indexed, Turned, IsTurn, Ids
    <3>4. Settled(m)
      BY <3>1, <3>2, <3>3 DEF Settled, Indexed, At
    <3> QED BY <3>1, <3>2, <3>4
  <2> QED BY <2>1, <2>2
<1>2. b = IF a.temporal THEN Drop(a, undone, retired) ELSE a
  BY DEF PrepareConfirmedInsertion, Drop
<1> HIDE DEF a, b, undone
<1>3. CASE a.temporal
  <2> DEFINE d == Drop(a, undone, retired)
  <2>1. /\ Turned(d) /\ Ids(d) = Ids(a) \ undone /\ Claimed(d)
        /\ Cardinality(Ids(d)) <= Cardinality(Ids(a))
        /\ \A t \in Ids(d) : d.history[t] = a.history[t]
    BY <1>1, DropKeeps
  <2>2. /\ d.indexed = a.indexed /\ d.below = a.below
        /\ d.pendingTurns = a.pendingTurns /\ d.nextTurnId = a.nextTurnId
    BY <1>1, DropFrame DEF Turned
  <2> HIDE DEF d
  <2>3. Settled(d)
    BY <1>1, <2>2 DEF Settled
  <2>4. Cardinality(Ids(d)) \in Nat /\ Cardinality(Ids(a)) \in Nat
    BY <1>1, <2>1, IdsAreFinite
  <2>5. Cardinality(Ids(m)) \in Nat
    BY IdsAreFinite DEF ManagerOK
  <2> QED BY <1>1, <1>2, <1>3, <2>1, <2>2, <2>3, <2>4, <2>5 DEF d, b
<1>4. CASE ~a.temporal
  BY <1>1, <1>2, <1>4 DEF b
<1> QED BY <1>3, <1>4

(* Retaining, evicting and re-indexing leave every turn applied.           *)
LEMMA InsertAdmits ==
    ASSUME NEW m, NEW id \in 1 .. (m.nextTurnId - 1), NEW turn, NEW retired,
           Turned(m), Claimed(m), Settled(m), IsTurn(turn),
           Cardinality(Ids(m)) <= MaxHistory, MaxHistory > 0
    PROVE  LET b == InsertConfirmedTurn(m, id, turn, retired)
           IN  /\ Turned(b) /\ Claimed(b) /\ Indexed(b) /\ SameStatus(b) /\ AppliedFirst(b)
               /\ \A p \in Positions : b.below[p] = At(b, p)
               /\ Ids(b) \subseteq Ids(m) \cup {id}
               /\ \A t \in Ids(b) : b.history[t] = IF t = id THEN turn ELSE m.history[t]
               /\ Cardinality(Ids(b)) <= MaxHistory
               /\ b.currentIndex = Cardinality(Ids(b)) - 1
               /\ b.pendingTurns = m.pendingTurns /\ b.nextTurnId = m.nextTurnId
               /\ ~b.temporal
               /\ (\A t \in Ids(m) : t < id) => id \in Ids(b)
               /\ id \notin Ids(m) \cup Ids(b) =>
                    Ids(b) = Ids(m) /\ Cardinality(Ids(m)) = MaxHistory
<1> DEFINE i == [m EXCEPT !.history = SetKey(@, id, turn),
                          !.claims = SetKey(@, id, turn.subjects),
                          !.temporal = FALSE]
           evicted == IF Cardinality(Ids(i)) > MaxHistory THEN {Min(Ids(i))} ELSE {}
           d == Drop(i, evicted, retired)
           e == [d EXCEPT !.currentIndex = Cardinality(Ids(d)) - 1]
           b == InsertConfirmedTurn(m, id, turn, retired)
<1>1. b = RebuildTurnIndexes(e)
  BY DEF InsertConfirmedTurn, Drop
<1>2. /\ DOMAIN m = Fields /\ m.nextTurnId \in Nat \ {0} /\ MaxHistory \in Nat
      /\ Ids(m) \subseteq 1 .. (m.nextTurnId - 1) /\ id \in Nat \ {0}
  BY BoundsAssumption DEF Turned
<1>3. /\ DOMAIN i = Fields /\ i.history = SetKey(m.history, id, turn)
      /\ i.claims = SetKey(m.claims, id, turn.subjects)
      /\ i.indexed = m.indexed /\ i.below = m.below
      /\ i.pendingTurns = m.pendingTurns /\ i.nextTurnId = m.nextTurnId
      /\ i.temporal = FALSE
  BY <1>2 DEF Fields
<1> HIDE DEF i
<1>4. /\ Ids(i) = Ids(m) \cup {id} /\ i.history[id] = turn
      /\ \A t \in Ids(m) \ {id} : i.history[t] = m.history[t]
  BY <1>3 DEF Ids, SetKey
<1>5. Turned(i)
  <2>1. i.temporal \in BOOLEAN
    BY <1>3, Zenon
  <2>2. \A t \in Ids(i) : IsTurn(i.history[t])
    BY <1>4 DEF Turned
  <2> QED BY <1>2, <1>3, <1>4, <2>1, <2>2 DEF Turned
<1>6. Claimed(i)
  BY <1>3, <1>4 DEF Claimed, SetKey, Ids
<1>7. /\ Ids(i) \subseteq Int /\ IsFiniteSet(Ids(i)) /\ Ids(i) # {}
      /\ IsFiniteSet(Ids(m)) /\ Cardinality(Ids(m)) \in Nat
      /\ Cardinality(Ids(i)) \in Nat
  BY <1>4, <1>5, IdsAreFinite
<1>8. Min(Ids(i)) \in Ids(i) /\ \A t \in Ids(i) : Min(Ids(i)) <= t
  BY <1>7, MinIsLeast
<1>9. Cardinality(Ids(i)) <= Cardinality(Ids(m)) + 1
  BY <1>4, <1>7, FS_AddElement
<1>10. evicted \subseteq Ids(i) /\ Cardinality(Ids(i) \ evicted) <= MaxHistory
  <2>1. CASE Cardinality(Ids(i)) > MaxHistory
    <3>1. Cardinality(Ids(i) \ {Min(Ids(i))}) = Cardinality(Ids(i)) - 1
      BY <1>7, <1>8, FS_RemoveElement
    <3> QED BY <2>1, <3>1, <1>2, <1>7, <1>8, <1>9
  <2>2. CASE ~(Cardinality(Ids(i)) > MaxHistory)
    <3>1. Ids(i) \ evicted = Ids(i)
      BY <2>2
    <3> QED BY <3>1, <2>2, <1>2, <1>7
  <2> QED BY <2>1, <2>2
<1>11. (\A t \in Ids(m) : t < id) => id \notin evicted
  <2> SUFFICES ASSUME \A t \in Ids(m) : t < id, id \in evicted PROVE FALSE
    OBVIOUS
  <2>1. Cardinality(Ids(i)) > MaxHistory /\ id = Min(Ids(i))
    OBVIOUS
  <2>2. ASSUME NEW t \in Ids(m) PROVE FALSE
    <3>1. t < id /\ t \in Int /\ id \in Int /\ t \in Ids(i)
      BY <1>2, <1>4
    <3>2. id <= t
      BY <2>1, <3>1, <1>8
    <3> QED BY <3>1, <3>2
  <2>3. Ids(i) = {id}
    BY <2>2, <1>4
  <2>4. Cardinality(Ids(i)) = 1
    BY <2>3, FS_Singleton
  <2> QED BY <2>1, <2>4, <1>2
<1>24. \/ evicted = {}
       \/ evicted = {Min(Ids(i))} /\ Cardinality(Ids(i)) > MaxHistory
  OBVIOUS
<1> HIDE DEF evicted
<1>12. /\ DOMAIN d = Fields /\ d.indexed = m.indexed /\ d.below = m.below
       /\ d.pendingTurns = m.pendingTurns /\ d.nextTurnId = m.nextTurnId
       /\ d.temporal = FALSE
  BY <1>3, DropFrame
<1>13. /\ Turned(d) /\ Ids(d) = Ids(i) \ evicted /\ Claimed(d)
       /\ \A t \in Ids(d) : d.history[t] = i.history[t]
  BY <1>5, <1>6, DropKeeps
<1> HIDE DEF d
<1>14. /\ DOMAIN e = Fields /\ e.indexed = d.indexed /\ e.below = d.below
       /\ e.history = d.history /\ e.pendingTurns = d.pendingTurns
       /\ e.nextTurnId = d.nextTurnId /\ e.temporal = d.temporal
       /\ e.claims = d.claims /\ e.currentIndex = Cardinality(Ids(d)) - 1
  BY <1>12 DEF Fields
<1> HIDE DEF e
<1>15. Turned(e) /\ Ids(e) = Ids(d) /\ Claimed(e) /\ Settled(e)
  BY <1>12, <1>13, <1>14 DEF Turned, Ids, Claimed, Settled
<1>16. /\ Turned(b) /\ Indexed(b) /\ SameStatus(b) /\ AppliedFirst(b)
       /\ \A p \in Positions : b.below[p] = At(b, p)
  BY <1>1, <1>15, RebuildSettled
<1>17. /\ b.history = e.history /\ b.claims = e.claims
       /\ b.pendingTurns = e.pendingTurns /\ b.nextTurnId = e.nextTurnId
       /\ b.currentIndex = e.currentIndex /\ b.temporal = e.temporal
  BY <1>1, <1>14, RebuildFrame
<1> HIDE DEF b
<1>18. Ids(b) = Ids(i) \ evicted /\ Claimed(b)
  BY <1>13, <1>14, <1>15, <1>17 DEF Ids, Claimed
<1>19. \A t \in Ids(b) : b.history[t] = IF t = id THEN turn ELSE m.history[t]
  BY <1>4, <1>13, <1>14, <1>17, <1>18
<1>20. /\ Cardinality(Ids(b)) <= MaxHistory
       /\ b.currentIndex = Cardinality(Ids(b)) - 1
  BY <1>10, <1>13, <1>14, <1>17, <1>18
<1>21. /\ Ids(b) \subseteq Ids(m) \cup {id}
       /\ (\A t \in Ids(m) : t < id) => id \in Ids(b)
  BY <1>4, <1>11, <1>18
<1>22. b.pendingTurns = m.pendingTurns /\ b.nextTurnId = m.nextTurnId
  BY <1>12, <1>14, <1>17
<1>23. ~b.temporal
  BY <1>12, <1>14, <1>17
<1>25. ASSUME id \notin Ids(m), id \notin Ids(b)
       PROVE  Ids(b) = Ids(m) /\ Cardinality(Ids(m)) = MaxHistory
  <2>1. evicted = {id} /\ Cardinality(Ids(i)) > MaxHistory
    BY <1>4, <1>18, <1>25, <1>24
  <2>2. Ids(b) = Ids(m)
    BY <1>4, <1>18, <1>25, <2>1
  <2>3. Cardinality(Ids(m)) = MaxHistory
    BY <1>2, <1>7, <1>9, <2>1
  <2> QED BY <2>2, <2>3
<1> QED BY <1>16, <1>18, <1>19, <1>20, <1>21, <1>22, <1>23, <1>25 DEF b

LEMMA AddEntryOK ==
    ASSUME NEW m, NEW turn, NEW retired, ManagerOK(m), IsTurn(turn), MaxHistory > 0
    PROVE  LET b == AddEntry(m, turn, retired)
           IN  /\ ManagerOK(b)
               /\ b.nextTurnId = m.nextTurnId + 1 /\ b.pendingTurns = m.pendingTurns
               /\ m.nextTurnId \in Ids(b) \ Ids(m)
               /\ Ids(b) \subseteq Ids(m) \cup {m.nextTurnId}
               /\ ~b.temporal
               /\ \A t \in Ids(b) : b.history[t] \in
                    {turn} \cup RetainedTurns(m)
<1> DEFINE p == PrepareConfirmedInsertion(m, retired)
           n == [p EXCEPT !.nextTurnId = @ + 1]
           b == AddEntry(m, turn, retired)
<1> PICK id : id = m.nextTurnId
  OBVIOUS
<1>1. /\ Turned(p) /\ Claimed(p) /\ Settled(p) /\ Ids(p) \subseteq Ids(m)
      /\ Cardinality(Ids(p)) <= Cardinality(Ids(m))
      /\ p.pendingTurns = m.pendingTurns /\ p.nextTurnId = id
      /\ \A t \in Ids(p) : p.history[t] = m.history[t]
  BY PrepareSettles
<1>2. b = InsertConfirmedTurn(n, id, turn, retired)
  BY <1>1 DEF AddEntry
<1>3. /\ Turned(m) /\ Bounded(m) /\ IsFiniteSet(Ids(m)) /\ Cardinality(Ids(m)) \in Nat
      /\ IsFiniteSet(Ids(p)) /\ Cardinality(Ids(p)) \in Nat /\ MaxHistory \in Nat
      /\ id \in Nat \ {0} /\ Ids(m) \cup DOMAIN m.pendingTurns \subseteq 1 .. (id - 1)
  BY <1>1, IdsAreFinite, BoundsAssumption DEF ManagerOK, Turned
<1> HIDE DEF p
<1>4. /\ DOMAIN n = Fields /\ n.history = p.history /\ n.indexed = p.indexed
      /\ n.pendingTurns = p.pendingTurns /\ n.below = p.below /\ n.claims = p.claims
      /\ n.temporal = p.temporal /\ n.nextTurnId = id + 1
  BY <1>1 DEF Turned, Fields
<1> HIDE DEF n
<1>5. Turned(n) /\ Claimed(n) /\ Settled(n) /\ Ids(n) = Ids(p)
  BY <1>1, <1>3, <1>4 DEF Turned, Claimed, Settled, Ids
<1>6. Cardinality(Ids(n)) <= MaxHistory
  BY <1>1, <1>3, <1>5 DEF Bounded
<1>7. id \in 1 .. (n.nextTurnId - 1)
  BY <1>3, <1>4
<1>8. /\ Turned(b) /\ Claimed(b) /\ Indexed(b) /\ SameStatus(b) /\ AppliedFirst(b)
      /\ Ids(b) \subseteq Ids(n) \cup {id} /\ Cardinality(Ids(b)) <= MaxHistory
      /\ b.currentIndex = Cardinality(Ids(b)) - 1
      /\ b.pendingTurns = n.pendingTurns /\ b.nextTurnId = n.nextTurnId
      /\ ~b.temporal
      /\ (\A t \in Ids(n) : t < id) => id \in Ids(b)
      /\ \A t \in Ids(b) : b.history[t] = IF t = id THEN turn ELSE n.history[t]
  BY <1>2, <1>5, <1>6, <1>7, InsertAdmits
<1> HIDE DEF b
<1>9. id \in Ids(b) /\ id \notin Ids(m) /\ id \notin DOMAIN m.pendingTurns
  BY <1>1, <1>3, <1>5, <1>8
<1>10. Ids(b) \cap DOMAIN b.pendingTurns = {}
  BY <1>1, <1>3, <1>4, <1>5, <1>8, <1>9 DEF Bounded
<1>11. b.currentIndex \in -1 .. (Cardinality(Ids(b)) - 1)
  BY <1>8, IdsAreFinite
<1>12. ManagerOK(b)
  BY <1>8, <1>10, <1>11 DEF ManagerOK, Bounded
<1>13. Ids(b) \subseteq Ids(m) \cup {id}
  BY <1>1, <1>5, <1>8
<1>14. ASSUME NEW t \in Ids(b)
       PROVE  b.history[t] \in {turn} \cup RetainedTurns(m)
  BY <1>1, <1>4, <1>5, <1>8 DEF RetainedTurns
<1> QED BY <1>1, <1>4, <1>8, <1>9, <1>12, <1>13, <1>14 DEF b

LEMMA CreatePendingOK ==
    ASSUME NEW m, NEW turn, ManagerOK(m), IsTurn(turn)
    PROVE  LET b == CreatePendingEntry(m, turn)
           IN  /\ ManagerOK(b)
               /\ b.nextTurnId = m.nextTurnId + 1 /\ b.history = m.history
               /\ b.pendingTurns = SetKey(m.pendingTurns, m.nextTurnId, turn)
               /\ b.below = m.below /\ b.indexed = m.indexed
               /\ b.temporal = m.temporal /\ b.currentIndex = m.currentIndex
               /\ b.forgotten = m.forgotten
<1> DEFINE b == CreatePendingEntry(m, turn)
<1>1. DOMAIN m = Fields /\ Turned(m) /\ Bounded(m)
  BY DEF ManagerOK, Turned
<1>2. /\ DOMAIN b = Fields /\ b.nextTurnId = m.nextTurnId + 1
      /\ b.pendingTurns = SetKey(m.pendingTurns, m.nextTurnId, turn)
      /\ b.history = m.history /\ b.indexed = m.indexed /\ b.below = m.below
      /\ b.claims = m.claims /\ b.currentIndex = m.currentIndex
      /\ b.temporal = m.temporal /\ b.forgotten = m.forgotten
  BY <1>1 DEF CreatePendingEntry, Fields
<1> HIDE DEF b
<1>3. /\ m.nextTurnId \in Nat \ {0}
      /\ Ids(m) \cup DOMAIN m.pendingTurns \subseteq 1 .. (m.nextTurnId - 1)
  BY <1>1 DEF Turned
<1>4. /\ DOMAIN b.pendingTurns = DOMAIN m.pendingTurns \cup {m.nextTurnId}
      /\ \A t \in DOMAIN b.pendingTurns : IsTurn(b.pendingTurns[t])
      /\ Ids(b) = Ids(m)
  BY <1>1, <1>2 DEF SetKey, Ids, Turned
<1>5. Turned(b)
  BY <1>1, <1>2, <1>3, <1>4 DEF Turned
<1>6. m.nextTurnId \notin Ids(m)
  BY <1>3
<1>7. Bounded(b)
  BY <1>1, <1>2, <1>4, <1>6 DEF Bounded
<1>8. Indexed(b) /\ SameStatus(b) /\ AppliedFirst(b) /\ Claimed(b)
  BY <1>2, <1>4 DEF ManagerOK, Indexed, SameStatus, AppliedFirst, Claimed, At
<1> QED BY <1>2, <1>5, <1>7, <1>8 DEF ManagerOK, b

LEMMA DiscardOK ==
    ASSUME NEW m, NEW id, ManagerOK(m)
    PROVE  LET b == DiscardPendingTurn(m, id)
           IN  /\ ManagerOK(b) /\ b.history = m.history /\ b.indexed = m.indexed
               /\ b.pendingTurns = Without(m.pendingTurns, {id})
               /\ b.nextTurnId = m.nextTurnId /\ b.below = m.below
               /\ b.temporal = m.temporal /\ b.currentIndex = m.currentIndex
               /\ b.forgotten = m.forgotten
<1> DEFINE b == DiscardPendingTurn(m, id)
<1>1. DOMAIN m = Fields /\ Turned(m) /\ Bounded(m)
  BY DEF ManagerOK, Turned
<1>2. /\ DOMAIN b = Fields /\ b.nextTurnId = m.nextTurnId
      /\ b.pendingTurns = Without(m.pendingTurns, {id})
      /\ b.history = m.history /\ b.indexed = m.indexed /\ b.below = m.below
      /\ b.claims = m.claims /\ b.currentIndex = m.currentIndex
      /\ b.temporal = m.temporal /\ b.forgotten = m.forgotten
  BY <1>1 DEF DiscardPendingTurn, Fields
<1> HIDE DEF b
<1>3. /\ DOMAIN b.pendingTurns \subseteq DOMAIN m.pendingTurns
      /\ \A t \in DOMAIN b.pendingTurns : b.pendingTurns[t] = m.pendingTurns[t]
      /\ Ids(b) = Ids(m)
  BY <1>1, <1>2 DEF Without, Ids
<1>4. Turned(b)
  BY <1>1, <1>2, <1>3 DEF Turned
<1>5. Bounded(b)
  BY <1>1, <1>2, <1>3 DEF Bounded
<1>6. Indexed(b) /\ SameStatus(b) /\ AppliedFirst(b) /\ Claimed(b)
  BY <1>2, <1>3 DEF ManagerOK, Indexed, SameStatus, AppliedFirst, Claimed, At
<1> QED BY <1>2, <1>4, <1>5, <1>6 DEF ManagerOK, b

LEMMA ConfirmPendingOK ==
    ASSUME NEW m, NEW id \in DOMAIN m.pendingTurns, NEW retired, ManagerOK(m),
           MaxHistory > 0
    PROVE  LET b == ConfirmPendingTurn(m, id, retired)
           IN  /\ ManagerOK(b)
               /\ b.nextTurnId = m.nextTurnId
               /\ b.pendingTurns = Without(m.pendingTurns, {id})
               /\ Ids(b) \subseteq Ids(m) \cup {id}
               /\ id \in Ids(b) \/ Ids(b) = Ids(m)
               /\ ~b.temporal
               /\ \A t \in Ids(b) : b.history[t] \in
                    {m.pendingTurns[id]} \cup RetainedTurns(m)
<1> DEFINE p == PrepareConfirmedInsertion(m, retired)
           turn == m.pendingTurns[id]
           c == InsertConfirmedTurn(p, id, turn, retired)
           b == ConfirmPendingTurn(m, id, retired)
<1>1. /\ Turned(p) /\ Claimed(p) /\ Settled(p) /\ Ids(p) \subseteq Ids(m)
      /\ Cardinality(Ids(p)) <= Cardinality(Ids(m))
      /\ p.pendingTurns = m.pendingTurns /\ p.nextTurnId = m.nextTurnId
      /\ \A t \in Ids(p) : p.history[t] = m.history[t]
  BY PrepareSettles
<1>2. b = [c EXCEPT !.pendingTurns = Without(@, {id})]
  BY DEF ConfirmPendingTurn
<1>3. /\ Turned(m) /\ Bounded(m) /\ IsTurn(turn)
      /\ id \in 1 .. (p.nextTurnId - 1)
      /\ Cardinality(Ids(p)) <= MaxHistory
  <2>1. Turned(m) /\ Bounded(m) /\ MaxHistory \in Nat
    BY BoundsAssumption DEF ManagerOK
  <2>2. Cardinality(Ids(m)) \in Nat /\ Cardinality(Ids(p)) \in Nat
    BY <1>1, <2>1, IdsAreFinite
  <2> QED BY <1>1, <2>1, <2>2 DEF Turned, Bounded
<1> HIDE DEF p, turn
<1>4. /\ Turned(c) /\ Claimed(c) /\ Indexed(c) /\ SameStatus(c) /\ AppliedFirst(c)
      /\ Ids(c) \subseteq Ids(p) \cup {id} /\ Cardinality(Ids(c)) <= MaxHistory
      /\ c.currentIndex = Cardinality(Ids(c)) - 1
      /\ c.pendingTurns = p.pendingTurns /\ c.nextTurnId = p.nextTurnId
      /\ ~c.temporal
      /\ id \notin Ids(p) \cup Ids(c) =>
            Ids(c) = Ids(p) /\ Cardinality(Ids(p)) = MaxHistory
      /\ \A t \in Ids(c) : c.history[t] = IF t = id THEN turn ELSE p.history[t]
  BY <1>1, <1>3, InsertAdmits
<1> HIDE DEF c
<1>5. /\ DOMAIN b = Fields /\ b.history = c.history /\ b.indexed = c.indexed
      /\ b.below = c.below /\ b.claims = c.claims /\ b.nextTurnId = c.nextTurnId
      /\ b.currentIndex = c.currentIndex /\ b.temporal = c.temporal
      /\ b.pendingTurns = Without(m.pendingTurns, {id})
  BY <1>1, <1>2, <1>4 DEF Turned, Fields
<1> HIDE DEF b
<1>6. /\ DOMAIN b.pendingTurns = DOMAIN m.pendingTurns \ {id} /\ Ids(b) = Ids(c)
      /\ \A t \in DOMAIN b.pendingTurns : b.pendingTurns[t] = m.pendingTurns[t]
  BY <1>5 DEF Without, Ids
<1>7. Turned(b)
  BY <1>1, <1>3, <1>4, <1>5, <1>6 DEF Turned
<1>8. Bounded(b)
  <2>1. Cardinality(Ids(c)) \in Nat
    BY <1>4, IdsAreFinite
  <2>2. Ids(b) \cap DOMAIN b.pendingTurns = {}
    BY <1>1, <1>3, <1>4, <1>6 DEF Bounded
  <2>3. b.currentIndex \in -1 .. (Cardinality(Ids(b)) - 1)
    BY <1>4, <1>5, <1>6, <2>1
  <2> QED BY <1>4, <1>6, <2>2, <2>3 DEF Bounded
<1>9. Indexed(b) /\ SameStatus(b) /\ AppliedFirst(b) /\ Claimed(b)
  BY <1>4, <1>5, <1>6 DEF Indexed, SameStatus, AppliedFirst, Claimed, At
<1>10. ASSUME NEW t \in Ids(b)
       PROVE  b.history[t] \in {turn} \cup RetainedTurns(m)
  BY <1>1, <1>4, <1>5, <1>6 DEF RetainedTurns
<1>11. Ids(b) \subseteq Ids(m) \cup {id} /\ ~b.temporal /\ b.nextTurnId = m.nextTurnId
  BY <1>1, <1>4, <1>5, <1>6
<1>12. ASSUME id \notin Ids(b) PROVE Ids(b) = Ids(m)
  <2>1. id \notin Ids(m)
    BY <1>3 DEF Bounded
  <2>2. Ids(b) = Ids(p) /\ Cardinality(Ids(p)) = MaxHistory
    BY <1>1, <1>4, <1>6, <1>12, <2>1
  <2>3. /\ IsFiniteSet(Ids(m)) /\ Cardinality(Ids(m)) \in Nat /\ MaxHistory \in Nat
        /\ Cardinality(Ids(m)) <= MaxHistory
    BY <1>3, IdsAreFinite, BoundsAssumption DEF Bounded
  <2>4. Cardinality(Ids(p)) = Cardinality(Ids(m))
    BY <1>1, <2>2, <2>3
  <2>5. Ids(p) = Ids(m)
    BY <1>1, <2>3, <2>4, FS_Subset
  <2> QED BY <2>2, <2>5
<1> QED BY <1>5, <1>7, <1>8, <1>9, <1>10, <1>11, <1>12 DEF ManagerOK, b, turn

(* A late turn is admitted, or the full history evicts it at once.         *)
KeepsOrAdmits(m, id, b) == id \in Ids(b) \/ Ids(b) = Ids(m)

LEMMA ConfirmKeepsOrAdmits ==
    ASSUME NEW m, NEW id \in DOMAIN m.pendingTurns, NEW retired, ManagerOK(m),
           MaxHistory > 0
    PROVE  KeepsOrAdmits(m, id, ConfirmPendingTurn(m, id, retired))
BY ConfirmPendingOK DEF KeepsOrAdmits

LEMMA ResetOK ==
    ASSUME NEW m, NEW retired
    PROVE  LET b == ResetRestorationHistory(m, retired)
           IN  /\ ManagerOK(b) /\ b.nextTurnId = 1 /\ b.history = EmptyMap
               /\ b.pendingTurns = EmptyMap /\ ~b.temporal
<1> DEFINE b == ResetRestorationHistory(m, retired)
           i == InitialManager
<1>1. /\ DOMAIN b = Fields /\ b.history = i.history /\ b.indexed = i.indexed
      /\ b.below = i.below /\ b.claims = i.claims /\ b.nextTurnId = i.nextTurnId
      /\ b.currentIndex = i.currentIndex /\ b.temporal = i.temporal
      /\ b.pendingTurns = i.pendingTurns
  BY InitialFrame DEF ResetRestorationHistory, Fields
<1>2. ManagerOK(i) /\ i.nextTurnId = 1 /\ i.history = EmptyMap /\ ~i.temporal
      /\ i.pendingTurns = EmptyMap
  BY InitialOK, InitialFrame
<1> HIDE DEF b, i
<1>3. ManagerOK(b)
  BY <1>1, <1>2 DEF ManagerOK, Turned, Bounded, Indexed, SameStatus, AppliedFirst, Claimed,
        At, Ids
<1> QED BY <1>1, <1>2, <1>3 DEF b

-----------------------------------------------------------------------------
(* Undo and redo move whole closures                                       *)

Applied(m) == {t \in Ids(m) : TurnApplied(m, t)}

(* A closure to undo holds applied turns only, and with a turn every       *)
(* applied turn above it at each of its positions.                         *)
LEMMA UndoClosureIs ==
    ASSUME NEW m, ManagerOK(m), NEW seed \in Applied(m)
    PROVE  LET C == UndoClosure(m, seed)
           IN  C \subseteq Applied(m) /\ seed \in C /\ UndoClosed(m, C)
<1> DEFINE C == UndoClosure(m, seed)
           A == Applied(m)
<1>1. m.indexed = m.history /\ \A p \in Positions : m.below[p] \subseteq At(m, p)
  BY DEF ManagerOK, Indexed
<1>2. Ids(m) = DOMAIN m.indexed
  BY <1>1 DEF Ids
<1>3. \A t \in Ids(m) : m.indexed[t].positions \subseteq Positions
  BY AppliedEverywhere
<1>4. A \in SUBSET DOMAIN m.indexed /\ seed \in A
  BY <1>2 DEF Applied
<1>5. UndoClosed(m, A)
  BY <1>1, <1>2, <1>3 DEF UndoClosed, Applied, TurnApplied, At
<1>6. C \subseteq A
  BY <1>4, <1>5 DEF UndoClosure
<1>7. seed \in C
  BY <1>2 DEF UndoClosure, Applied
<1>8. ASSUME NEW t \in C, NEW p \in m.indexed[t].positions, t \in m.below[p],
             NEW u \in m.below[p], u >= t
      PROVE  u \in C
  <2>1. u \in DOMAIN m.indexed
    BY <1>1, <1>2, <1>3, <1>6 DEF At, Applied
  <2>2. ASSUME NEW D \in SUBSET DOMAIN m.indexed, seed \in D, UndoClosed(m, D)
        PROVE  u \in D
    <3>1. t \in D
      BY <2>2, <1>8 DEF UndoClosure
    <3> QED BY <2>2, <3>1, <1>8 DEF UndoClosed
  <2> QED BY <2>1, <2>2 DEF UndoClosure
<1>9. UndoClosed(m, C)
  BY <1>8 DEF UndoClosed
<1> QED BY <1>6, <1>7, <1>9

LEMMA RedoClosureIs ==
    ASSUME NEW m, ManagerOK(m), NEW seed \in Ids(m) \ Applied(m)
    PROVE  LET C == RedoClosure(m, seed)
           IN  C \subseteq Ids(m) \ Applied(m) /\ seed \in C /\ RedoClosed(m, C)
<1> DEFINE C == RedoClosure(m, seed)
           A == Ids(m) \ Applied(m)
<1>1. m.indexed = m.history /\ \A p \in Positions : m.below[p] \subseteq At(m, p)
  BY DEF ManagerOK, Indexed
<1>2. Ids(m) = DOMAIN m.indexed
  BY <1>1 DEF Ids
<1>3. \A t \in Ids(m) : m.indexed[t].positions \subseteq Positions
  BY AppliedEverywhere
<1>4. A \in SUBSET DOMAIN m.indexed /\ seed \in A
  BY <1>2
<1>6. RedoClosed(m, A)
  <2> SUFFICES ASSUME NEW t \in A, NEW p \in m.indexed[t].positions,
                      NEW u \in At(m, p) \ m.below[p]
               PROVE  u \in A
    BY DEF RedoClosed
  <2>1. u \in Ids(m) /\ p \in m.indexed[u].positions
    BY <1>2 DEF At
  <2>2. ~TurnApplied(m, u)
    BY <2>1, AppliedEverywhere
  <2> QED BY <2>1, <2>2 DEF Applied
<1>7. C \subseteq A
  BY <1>4, <1>6 DEF RedoClosure
<1>8. seed \in C
  BY <1>2 DEF RedoClosure
<1>9. ASSUME NEW t \in C, NEW p \in m.indexed[t].positions, t \notin m.below[p],
             NEW u \in At(m, p) \ m.below[p], u <= t
      PROVE  u \in C
  <2>1. u \in DOMAIN m.indexed
    BY DEF At
  <2>2. ASSUME NEW D \in SUBSET DOMAIN m.indexed, seed \in D, RedoClosed(m, D)
        PROVE  u \in D
    <3>1. t \in D
      BY <2>2, <1>9 DEF RedoClosure
    <3> QED BY <2>2, <3>1, <1>9 DEF RedoClosed
  <2> QED BY <2>1, <2>2 DEF RedoClosure
<1>10. RedoClosed(m, C)
  BY <1>9 DEF RedoClosed
<1> QED BY <1>7, <1>8, <1>10

(* Cutting each frontier below the lowest turn of the closure takes the    *)
(* closure out of it, and nothing else.                                    *)
LEMMA LowerFrontiersIs ==
    ASSUME NEW m, NEW C, ManagerOK(m), C \subseteq Applied(m), UndoClosed(m, C)
    PROVE  LET b == LowerFrontiers(m, C)
           IN  /\ ManagerOK(b)
               /\ DOMAIN b = Fields
               /\ b.history = m.history /\ b.indexed = m.indexed
               /\ b.pendingTurns = m.pendingTurns /\ b.nextTurnId = m.nextTurnId
               /\ b.temporal = m.temporal /\ b.currentIndex = m.currentIndex
               /\ b.forgotten = m.forgotten
               /\ \A p \in Positions : b.below[p] = m.below[p] \ C
<1> DEFINE b == LowerFrontiers(m, C)
           lower(p) == {t \in m.below[p] :
                            \A c \in C : p \in m.indexed[c].positions => t < c}
<1>1. /\ DOMAIN m = Fields /\ Turned(m) /\ Bounded(m) /\ m.indexed = m.history
      /\ \A p \in Positions : m.below[p] \subseteq At(m, p)
  BY DEF ManagerOK, Turned, Indexed
<1>2. /\ DOMAIN b = Fields /\ b.history = m.history /\ b.indexed = m.indexed
      /\ b.pendingTurns = m.pendingTurns /\ b.nextTurnId = m.nextTurnId
      /\ b.temporal = m.temporal /\ b.currentIndex = m.currentIndex
      /\ b.forgotten = m.forgotten /\ b.claims = m.claims
      /\ b.below = [p \in Positions |-> lower(p)]
  BY <1>1 DEF LowerFrontiers, Fields
<1> HIDE DEF b
<1>3. ASSUME NEW p \in Positions PROVE lower(p) = m.below[p] \ C
  <2>1. ASSUME NEW t \in m.below[p], t \in C PROVE t \notin lower(p)
    <3>1. p \in m.indexed[t].positions /\ t \in Int
      BY <2>1, <1>1, IdsAreFinite DEF At, Ids
    <3> QED BY <3>1, <2>1
  <2>2. ASSUME NEW t \in m.below[p], t \notin C PROVE t \in lower(p)
    <3> SUFFICES ASSUME NEW c \in C, p \in m.indexed[c].positions PROVE t < c
      OBVIOUS
    <3>1. c \in m.below[p]
      BY AppliedEverywhere DEF Applied
    <3>2. t \in Int /\ c \in Int
      BY <3>1, <2>2, <1>1, IdsAreFinite DEF At, Ids
    <3>3. ~(t >= c)
      BY <3>1, <2>2 DEF UndoClosed
    <3> QED BY <3>2, <3>3
  <2>3. lower(p) \subseteq m.below[p]
    OBVIOUS
  <2> HIDE DEF lower
  <2> QED BY <2>1, <2>2, <2>3
<1>4. \A p \in Positions : b.below[p] = m.below[p] \ C
  BY <1>2, <1>3
<1> HIDE DEF lower
<1>5. Ids(b) = Ids(m) /\ \A p : At(b, p) = At(m, p)
  BY <1>2 DEF Ids, At
<1>6. Turned(b) /\ Bounded(b)
  BY <1>1, <1>2, <1>5 DEF Turned, Bounded
<1>7. Indexed(b) /\ Claimed(b)
  BY <1>1, <1>2, <1>4, <1>5 DEF ManagerOK, Indexed, Claimed
<1>8. SameStatus(b)
  <2> SUFFICES ASSUME NEW t \in Ids(m), NEW p \in m.indexed[t].positions,
                      NEW q \in m.indexed[t].positions
               PROVE  t \in b.below[p] <=> t \in b.below[q]
    BY <1>1, <1>2 DEF SameStatus, Ids
  <2>1. p \in Positions /\ q \in Positions
    BY AppliedEverywhere
  <2>2. t \in m.below[p] <=> t \in m.below[q]
    BY <1>1 DEF ManagerOK, SameStatus, Ids
  <2> QED BY <1>4, <2>1, <2>2
<1>9. AppliedFirst(b)
  <2> SUFFICES ASSUME NEW p \in Positions, NEW t \in b.below[p],
                      NEW u \in At(m, p), u < t
               PROVE  u \in b.below[p]
    BY <1>5 DEF AppliedFirst
  <2>1. t \in m.below[p] /\ t \notin C /\ u \in m.below[p]
    BY <1>4 DEF ManagerOK, AppliedFirst
  <2>2. p \in m.indexed[u].positions /\ t \in Int /\ u \in Int
    BY <2>1, <1>1, IdsAreFinite DEF At, Ids
  <2>3. u \notin C
    BY <2>1, <2>2 DEF UndoClosed
  <2> QED BY <1>4, <2>1, <2>3
<1> QED BY <1>2, <1>4, <1>6, <1>7, <1>8, <1>9 DEF ManagerOK, b

(* Raising each frontier over the highest turn of the closure adds the     *)
(* closure to it, and nothing else.                                        *)
LEMMA RaiseFrontiersIs ==
    ASSUME NEW m, NEW C, ManagerOK(m), C \subseteq Ids(m) \ Applied(m), RedoClosed(m, C)
    PROVE  LET b == RaiseFrontiers(m, C)
           IN  /\ ManagerOK(b)
               /\ DOMAIN b = Fields
               /\ b.history = m.history /\ b.indexed = m.indexed
               /\ b.pendingTurns = m.pendingTurns /\ b.nextTurnId = m.nextTurnId
               /\ b.temporal = m.temporal /\ b.currentIndex = m.currentIndex
               /\ b.forgotten = m.forgotten
               /\ \A p \in Positions : b.below[p] = m.below[p] \cup (C \cap At(m, p))
<1> DEFINE b == RaiseFrontiers(m, C)
           raised(p) == {t \in At(m, p) :
                            \/ t \in m.below[p]
                            \/ \E c \in C : p \in m.indexed[c].positions /\ t <= c}
<1>1. /\ DOMAIN m = Fields /\ Turned(m) /\ Bounded(m) /\ m.indexed = m.history
      /\ \A p \in Positions : m.below[p] \subseteq At(m, p)
      /\ Ids(m) = DOMAIN m.indexed /\ Ids(m) \subseteq Int
  BY IdsAreFinite DEF ManagerOK, Turned, Indexed, Ids
<1>2. /\ DOMAIN b = Fields /\ b.history = m.history /\ b.indexed = m.indexed
      /\ b.pendingTurns = m.pendingTurns /\ b.nextTurnId = m.nextTurnId
      /\ b.temporal = m.temporal /\ b.currentIndex = m.currentIndex
      /\ b.forgotten = m.forgotten /\ b.claims = m.claims
      /\ b.below = [p \in Positions |-> raised(p)]
  BY <1>1 DEF RaiseFrontiers, Fields
<1> HIDE DEF b
<1>3. ASSUME NEW p \in Positions PROVE raised(p) = m.below[p] \cup (C \cap At(m, p))
  <2>1. ASSUME NEW t \in C \cap At(m, p) PROVE t \in raised(p)
    <3>1. p \in m.indexed[t].positions /\ t \in Int /\ t <= t
      BY <1>1 DEF At
    <3> QED BY <3>1, <2>1
  <2>2. ASSUME NEW t \in raised(p), t \notin m.below[p] PROVE t \in C
    <3>1. PICK c \in C : p \in m.indexed[c].positions /\ t <= c
      BY <2>2
    <3>2. c \notin m.below[p]
      BY <3>1, AppliedEverywhere DEF Applied
    <3> QED BY <2>2, <3>1, <3>2 DEF RedoClosed
  <2>3. m.below[p] \subseteq raised(p) /\ raised(p) \subseteq At(m, p)
    BY <1>1
  <2> HIDE DEF raised
  <2> QED BY <2>1, <2>2, <2>3
<1>4. \A p \in Positions : b.below[p] = m.below[p] \cup (C \cap At(m, p))
  BY <1>2, <1>3
<1> HIDE DEF raised
<1>5. Ids(b) = Ids(m) /\ \A p : At(b, p) = At(m, p)
  BY <1>2 DEF Ids, At
<1>6. Turned(b) /\ Bounded(b)
  BY <1>1, <1>2, <1>5 DEF Turned, Bounded
<1>7. Indexed(b) /\ Claimed(b)
  BY <1>1, <1>2, <1>4, <1>5 DEF ManagerOK, Indexed, Claimed
<1>8. SameStatus(b)
  <2> SUFFICES ASSUME NEW t \in Ids(m), NEW p \in m.indexed[t].positions,
                      NEW q \in m.indexed[t].positions
               PROVE  t \in b.below[p] <=> t \in b.below[q]
    BY <1>1, <1>2 DEF SameStatus
  <2>1. p \in Positions /\ q \in Positions
    BY AppliedEverywhere
  <2>2. t \in m.below[p] <=> t \in m.below[q]
    BY <1>1 DEF ManagerOK, SameStatus
  <2>3. t \in At(m, p) /\ t \in At(m, q)
    BY <1>1 DEF At
  <2> QED BY <1>4, <2>1, <2>2, <2>3
<1>9. AppliedFirst(b)
  <2> SUFFICES ASSUME NEW p \in Positions, NEW t \in b.below[p],
                      NEW u \in At(m, p), u < t
               PROVE  u \in b.below[p]
    BY <1>5 DEF AppliedFirst
  <2>1. CASE t \in m.below[p]
    BY <2>1, <1>4 DEF ManagerOK, AppliedFirst
  <2>2. CASE t \notin m.below[p]
    <3>1. t \in C /\ t \in At(m, p) /\ p \in m.indexed[t].positions
      BY <2>2, <1>4 DEF At
    <3>2. u \in Ids(m) /\ t \in Ids(m)
      BY <1>1, <3>1 DEF At
    <3>3. u <= t
      BY <3>2, <1>1
    <3>4. u \in m.below[p] \/ u \in C
      BY <2>2, <3>1, <3>3 DEF RedoClosed
    <3> QED BY <1>4, <3>4
  <2> QED BY <2>1, <2>2
<1> QED BY <1>2, <1>4, <1>6, <1>7, <1>8, <1>9 DEF ManagerOK, b

(* What a scope's undo resolves to: nothing, or a closure of applied turns *)
(* that stays in the scope.                                                *)
LEMMA ResolvedUndoIs ==
    ASSUME NEW m, NEW scope, ManagerOK(m), scope \subseteq Positions,
           ResolvedUndo(m, scope) # {}
    PROVE  LET C == ResolvedUndo(m, scope)
           IN  /\ C \subseteq Applied(m) /\ UndoClosed(m, C)
               /\ \A t \in C : m.indexed[t].positions \subseteq scope
<1> DEFINE tops == AppliedTops(m, scope)
           seed == Max(tops)
           C == UndoClosure(m, seed)
<1>1. /\ tops # {} /\ ResolvedUndo(m, scope) = C
      /\ scope = Positions \/ Contained(m, C, scope)
  BY DEF ResolvedUndo
<1>2. /\ Ids(m) \subseteq Int /\ IsFiniteSet(Ids(m)) /\ Ids(m) = DOMAIN m.indexed
      /\ \A p \in Positions : m.below[p] \subseteq At(m, p)
  BY IdsAreFinite DEF ManagerOK, Indexed, Ids
<1>3. ASSUME NEW p \in Positions, m.below[p] # {} PROVE Max(m.below[p]) \in m.below[p]
  <2>1. m.below[p] \subseteq Int /\ m.below[p] \in SUBSET Ids(m)
    BY <1>2 DEF At
  <2>2. IsFiniteSet(m.below[p])
    BY <2>1, <1>2, FS_Subset
  <2> QED BY <1>3, <2>1, <2>2, MaxIsGreatest
<1>4. tops \subseteq Applied(m)
  <2> SUFFICES ASSUME NEW p \in scope, m.below[p] # {}
               PROVE  Max(m.below[p]) \in Applied(m)
    BY DEF AppliedTops
  <2>1. Max(m.below[p]) \in m.below[p] /\ Max(m.below[p]) \in Ids(m)
    BY <1>2, <1>3 DEF At
  <2> QED BY <2>1, AppliedEverywhere DEF Applied
<1>5. tops \subseteq Int /\ IsFiniteSet(tops)
  <2>1. tops \in SUBSET Ids(m)
    BY <1>4 DEF Applied
  <2> QED BY <2>1, <1>2, FS_Subset
<1>6. seed \in Applied(m)
  BY <1>1, <1>4, <1>5, MaxIsGreatest
<1>7. C \subseteq Applied(m) /\ UndoClosed(m, C)
  BY <1>6, UndoClosureIs
<1>8. \A t \in C : m.indexed[t].positions \subseteq scope
  <2>1. CASE scope = Positions
    BY <2>1, <1>7, AppliedEverywhere DEF Applied
  <2>2. CASE Contained(m, C, scope)
    BY <2>2 DEF Contained
  <2> QED BY <1>1, <2>1, <2>2
<1> QED BY <1>1, <1>7, <1>8

LEMMA ResolvedRedoIs ==
    ASSUME NEW m, NEW scope, ManagerOK(m), scope \subseteq Positions,
           ResolvedRedo(m, scope) # {}
    PROVE  LET C == ResolvedRedo(m, scope)
           IN  /\ C \subseteq Ids(m) \ Applied(m) /\ RedoClosed(m, C)
               /\ \A t \in C : m.indexed[t].positions \subseteq scope
<1> DEFINE heads == UnappliedHeads(m, scope)
           seed == Min(heads)
           C == RedoClosure(m, seed)
<1>1. /\ heads # {} /\ ResolvedRedo(m, scope) = C
      /\ scope = Positions \/ Contained(m, C, scope)
  BY DEF ResolvedRedo
<1>2. /\ Ids(m) \subseteq Int /\ IsFiniteSet(Ids(m)) /\ Ids(m) = DOMAIN m.indexed
      /\ \A p \in Positions : m.below[p] \subseteq At(m, p) /\ At(m, p) \subseteq Ids(m)
  BY IdsAreFinite DEF ManagerOK, Indexed, Ids, At
<1>3. ASSUME NEW p \in Positions, m.below[p] # At(m, p)
      PROVE  Min(At(m, p) \ m.below[p]) \in At(m, p) \ m.below[p]
  <2>1. /\ At(m, p) \ m.below[p] \subseteq Int
        /\ At(m, p) \ m.below[p] \in SUBSET Ids(m) /\ At(m, p) \ m.below[p] # {}
    BY <1>2, <1>3
  <2>2. IsFiniteSet(At(m, p) \ m.below[p])
    BY <2>1, <1>2, FS_Subset
  <2> QED BY <2>1, <2>2, MinIsLeast
<1>4. heads \subseteq Ids(m) \ Applied(m)
  <2> SUFFICES ASSUME NEW p \in scope, m.below[p] # At(m, p)
               PROVE  Min(At(m, p) \ m.below[p]) \in Ids(m) \ Applied(m)
    BY DEF UnappliedHeads
  <2>1. PICK u : u = Min(At(m, p) \ m.below[p])
    OBVIOUS
  <2>2. u \in At(m, p) \ m.below[p] /\ u \in Ids(m)
    BY <1>2, <1>3, <2>1
  <2>3. p \in m.indexed[u].positions
    BY <2>2 DEF At
  <2>4. ~TurnApplied(m, u)
    BY <2>2, <2>3, AppliedEverywhere
  <2> QED BY <2>1, <2>2, <2>4 DEF Applied
<1>5. heads \subseteq Int /\ IsFiniteSet(heads)
  <2>1. heads \in SUBSET Ids(m)
    BY <1>4
  <2> QED BY <2>1, <1>2, FS_Subset
<1>6. seed \in Ids(m) \ Applied(m)
  BY <1>1, <1>4, <1>5, MinIsLeast
<1>7. C \subseteq Ids(m) \ Applied(m) /\ RedoClosed(m, C)
  BY <1>6, RedoClosureIs
<1>8. \A t \in C : m.indexed[t].positions \subseteq scope
  <2>1. CASE scope = Positions
    BY <2>1, <1>7, AppliedEverywhere
  <2>2. CASE Contained(m, C, scope)
    BY <2>2 DEF Contained
  <2> QED BY <1>1, <2>1, <2>2
<1> QED BY <1>1, <1>7, <1>8

-----------------------------------------------------------------------------
(* Applying turns to the tree                                              *)

SessionFields == {"visible", "manager", "external", "loose", "touched", "threw"}

(* m and n keep the same turns; where their frontiers stand may differ.    *)
SameTurns(m, n) ==
    /\ n.history = m.history /\ n.indexed = m.indexed
    /\ n.pendingTurns = m.pendingTurns /\ n.nextTurnId = m.nextTurnId
    /\ n.forgotten = m.forgotten

Session(s) ==
    /\ DOMAIN s = SessionFields
    /\ ManagerOK(s.manager)
    /\ s.visible \in [Cells -> Endpoint]
    /\ DOMAIN s.external \subseteq Cells \ Rows
    /\ s.loose \subseteq Cells /\ s.touched \subseteq Cells

(* An application that is not refused changes only cells its turns touched, *)
(* and one that touches a pending transaction's cells is refused.          *)
ChangesOnly(s, r, cells) ==
    \A c \in Cells : r.visible[c] # s.visible[c] =>
        c \in cells /\ \A id \in DOMAIN transactions :
            transactions[id].watched => c \notin DOMAIN transactions[id].effects

(* What a completed application leaves.                                    *)
AppliedVisible(s, U, R) ==
    [c \in Cells |-> IF c \in Touched(s.manager, U \cup R)
                     THEN Installed(c, FinalValue(s.manager, U, R, c))
                     ELSE s.visible[c]]
AppliedExternal(s, U, R) ==
    IF U # {} /\ R # {} THEN QueuedAuthority(s.external)
    ELSE Without(QueuedAuthority(s.external), Touched(s.manager, U \cup R) \ Rows)
AppliedLoose(s, U, R) ==
    (s.loose \ Touched(s.manager, U \cup R)) \cup
        {c \in Touched(s.manager, U \cup R) :
            /\ Touching(s.manager, R, c) = {}
            /\ c \in s.manager.indexed[Min(Touching(s.manager, U, c))].over}

Idle(U, R) == U \cup R = {}
Retains(m, U, R) == U \cup R \subseteq Ids(m)

Refused(s, U, R) ==
    \/ OverlapsPending(Touched(s.manager, U \cup R))
    \/ ExternalConflict(s.manager, QueuedAuthority(s.external), s.visible, U, R)
    \/ StructuralDrift(s.manager, s.visible, U, R)

Threw(s) == [s EXCEPT !.external = QueuedAuthority(s.external), !.threw = TRUE]
Done(s, U, R) ==
    [s EXCEPT !.visible = AppliedVisible(s, U, R),
              !.external = AppliedExternal(s, U, R),
              !.touched = s.touched \cup Touched(s.manager, U \cup R),
              !.loose = AppliedLoose(s, U, R)]

LEMMA ApplyNothing ==
    ASSUME NEW s, NEW U, NEW R, Idle(U, R)
    PROVE  Apply(s, U, R) = s
BY DEF Apply, Idle

LEMMA ApplyRefused ==
    ASSUME NEW s, NEW U, NEW R, ~Idle(U, R), Refused(s, U, R)
    PROVE  Apply(s, U, R) = Threw(s)
BY DEF Apply, Refused, Idle, Threw

LEMMA ApplyDone ==
    ASSUME NEW s, NEW U, NEW R, ~Idle(U, R), ~Refused(s, U, R)
    PROVE  Apply(s, U, R) = Done(s, U, R)
BY DEF Apply, Refused, Idle, Done, AppliedVisible, AppliedExternal, AppliedLoose

LEMMA TouchingIs ==
    ASSUME NEW m, NEW S, NEW c, ManagerOK(m), S \subseteq Ids(m), Touching(m, S, c) # {}
    PROVE  LET T == Touching(m, S, c)
           IN  /\ Max(T) \in T /\ \A t \in T : t <= Max(T)
               /\ Min(T) \in T /\ \A t \in T : Min(T) <= t
               /\ T \subseteq S /\ \A t \in T : c \in DOMAIN m.indexed[t].effects
<1> DEFINE T == Touching(m, S, c)
<1>1. T \subseteq S /\ \A t \in T : c \in DOMAIN m.indexed[t].effects
  BY DEF Touching
<1>2. T \in SUBSET Ids(m) /\ IsFiniteSet(Ids(m)) /\ Ids(m) \subseteq Int
  BY <1>1, IdsAreFinite DEF ManagerOK
<1>3. IsFiniteSet(T) /\ T \subseteq Int
  BY <1>2, FS_Subset
<1> HIDE DEF T
<1>4. Max(T) \in T /\ \A t \in T : Max(T) >= t
  BY <1>3, MaxIsGreatest DEF T
<1>5. Min(T) \in T /\ \A t \in T : Min(T) <= t
  BY <1>3, MinIsLeast DEF T
<1>6. \A t \in T : t <= Max(T)
  BY <1>3, <1>4
<1> QED BY <1>1, <1>4, <1>5, <1>6 DEF T

LEMMA FinalValueIs ==
    ASSUME NEW m, NEW U, NEW R, NEW c, ManagerOK(m), U \cup R \subseteq Ids(m),
           c \in Touched(m, U \cup R)
    PROVE  FinalValue(m, U, R, c) \in Endpoint
           /\ Installed(c, FinalValue(m, U, R, c)) \in Endpoint
<1>1. PICK t \in U \cup R : c \in DOMAIN m.indexed[t].effects
  BY DEF Touched, Touching
<1>2. Touching(m, R, c) # {} \/ Touching(m, U, c) # {}
  BY <1>1 DEF Touching
<1>3. ASSUME NEW u \in Ids(m), c \in DOMAIN m.indexed[u].effects
      PROVE  /\ m.indexed[u].effects[c].before \in Endpoint
             /\ m.indexed[u].effects[c].after \in Endpoint
  BY <1>3 DEF ManagerOK, Turned, Indexed, IsTurn, Ids
<1>4. FinalValue(m, U, R, c) \in Endpoint
  <2>1. CASE Touching(m, R, c) # {}
    <3>1. R \subseteq Ids(m)
      OBVIOUS
    <3>2. PICK u : u = Max(Touching(m, R, c))
      OBVIOUS
    <3>3. u \in R /\ c \in DOMAIN m.indexed[u].effects
      BY <2>1, <3>1, <3>2, TouchingIs
    <3> QED BY <2>1, <3>1, <3>2, <3>3, <1>3 DEF FinalValue
  <2>2. CASE Touching(m, R, c) = {}
    <3>1. U \subseteq Ids(m)
      OBVIOUS
    <3>2. PICK u : u = Min(Touching(m, U, c))
      OBVIOUS
    <3>3. u \in U /\ c \in DOMAIN m.indexed[u].effects
      BY <2>2, <1>2, <3>1, <3>2, TouchingIs
    <3> QED BY <2>2, <3>1, <3>2, <3>3, <1>3 DEF FinalValue
  <2> QED BY <2>1, <2>2
<1>5. "gone" \in Endpoint
  BY DEF Endpoint
<1> QED BY <1>4, <1>5 DEF Installed

LEMMA QueuedAuthorityIs ==
    ASSUME NEW known
    PROVE  DOMAIN QueuedAuthority(known) \subseteq Cells \ Rows
BY DEF QueuedAuthority, Reattributed

LEMMA ApplySession ==
    ASSUME NEW s, NEW U, NEW R, Session(s), Retains(s.manager, U, R)
    PROVE  LET r == Apply(s, U, R)
           IN  /\ Session(r) /\ r.manager = s.manager
               /\ ChangesOnly(s, r, Touched(s.manager, U \cup R))
<1> DEFINE r == Apply(s, U, R)
           m == s.manager
           cells == Touched(m, U \cup R)
<1>1. ManagerOK(m) /\ s.visible \in [Cells -> Endpoint]
  BY DEF Session
<1>5. DOMAIN s = SessionFields
  BY DEF Session
<1>2. CASE Idle(U, R)
  <2>1. r = s
    BY <1>2, ApplyNothing
  <2> QED BY <2>1 DEF ChangesOnly
<1>3. CASE ~Idle(U, R) /\ Refused(s, U, R)
  <2>1. /\ DOMAIN r = SessionFields /\ r.manager = m /\ r.visible = s.visible
        /\ r.loose = s.loose /\ r.touched = s.touched
        /\ r.external = QueuedAuthority(s.external)
    <3>1. r = Threw(s)
      BY <1>3, ApplyRefused
    <3> HIDE DEF r
    <3> QED BY <3>1, <1>5 DEF Threw, SessionFields
  <2> HIDE DEF r, cells
  <2>2. Session(r)
    BY <1>1, <2>1, QueuedAuthorityIs DEF Session
  <2>3. ChangesOnly(s, r, cells)
    BY <2>1 DEF ChangesOnly
  <2> QED BY <2>1, <2>2, <2>3 DEF r, cells
<1>4. CASE ~Idle(U, R) /\ ~Refused(s, U, R)
  <2>1. /\ DOMAIN r = SessionFields /\ r.manager = m
        /\ r.visible = AppliedVisible(s, U, R)
        /\ r.external = AppliedExternal(s, U, R)
        /\ r.touched = s.touched \cup cells
        /\ r.loose = AppliedLoose(s, U, R)
    <3>1. r = Done(s, U, R)
      BY <1>4, ApplyDone
    <3> HIDE DEF r
    <3> QED BY <3>1, <1>5 DEF Done, SessionFields
  <2>2. cells \subseteq Cells
    BY DEF Touched
  <2>3. \A c \in cells : Installed(c, FinalValue(m, U, R, c)) \in Endpoint
    BY <1>1, FinalValueIs DEF Retains
  <2> HIDE DEF r
  <2>4. r.visible \in [Cells -> Endpoint]
    <3>1. \A c \in Cells : AppliedVisible(s, U, R)[c] \in Endpoint
      BY <1>1, <2>3 DEF AppliedVisible
    <3>2. AppliedVisible(s, U, R) = [c \in Cells |-> AppliedVisible(s, U, R)[c]]
      BY DEF AppliedVisible
    <3> QED BY <2>1, <3>1, <3>2
  <2>5. r.loose \subseteq Cells /\ r.touched \subseteq Cells
    BY <2>1, <2>2 DEF Session, AppliedLoose
  <2>6. DOMAIN r.external \subseteq Cells \ Rows
    <3>1. DOMAIN QueuedAuthority(s.external) \subseteq Cells \ Rows
      BY QueuedAuthorityIs
    <3> QED BY <2>1, <3>1 DEF Without, AppliedExternal
  <2>7. Session(r)
    BY <1>1, <2>1, <2>4, <2>5, <2>6 DEF Session
  <2>8. ChangesOnly(s, r, cells)
    <3> SUFFICES ASSUME NEW c \in Cells, r.visible[c] # s.visible[c]
                 PROVE  c \in cells /\ \A id \in DOMAIN transactions :
                    transactions[id].watched => c \notin DOMAIN transactions[id].effects
      BY DEF ChangesOnly
    <3>1. c \in cells
      BY <2>1 DEF AppliedVisible
    <3>2. ~OverlapsPending(cells)
      BY <1>4 DEF Refused
    <3> QED BY <3>1, <3>2 DEF OverlapsPending
  <2> QED BY <2>1, <2>7, <2>8 DEF r, cells
<1> QED BY <1>2, <1>3, <1>4

-----------------------------------------------------------------------------
(* Undo, redo and jump                                                     *)

LEMMA ChangesCompose ==
    ASSUME NEW s, NEW r, NEW q, NEW A, NEW B, ChangesOnly(s, r, A), ChangesOnly(r, q, B)
    PROVE  ChangesOnly(s, q, A \cup B)
BY DEF ChangesOnly

(* The cells that some retained turn touched.                              *)
Reach(m) == Touched(m, Ids(m))

LEMMA ReachIsLargest ==
    ASSUME NEW m, NEW S, S \subseteq Ids(m)
    PROVE  Touched(m, S) \subseteq Reach(m) /\ Reach(m) \subseteq Cells
BY DEF Reach, Touched, Touching

LEMMA ChangesMore ==
    ASSUME NEW s, NEW r, NEW A, NEW B, ChangesOnly(s, r, A), A \subseteq B
    PROVE  ChangesOnly(s, r, B)
BY DEF ChangesOnly

Viewed(m, index, temporal) ==
    [m EXCEPT !.currentIndex = index, !.temporal = temporal]

LEMMA ViewedIs ==
    ASSUME NEW m, NEW index \in -1 .. (Cardinality(Ids(m)) - 1),
           NEW temporal \in BOOLEAN, ManagerOK(m)
    PROVE  LET b == Viewed(m, index, temporal)
           IN  /\ ManagerOK(b) /\ SameTurns(m, b) /\ b.below = m.below
               /\ (b.temporal <=> temporal) /\ b.currentIndex = index
<1> DEFINE b == Viewed(m, index, temporal)
<1>1. DOMAIN m = Fields /\ Turned(m) /\ Bounded(m)
  BY DEF ManagerOK, Turned
<1>2. /\ DOMAIN b = Fields /\ b.history = m.history /\ b.indexed = m.indexed
      /\ b.below = m.below /\ b.claims = m.claims /\ b.nextTurnId = m.nextTurnId
      /\ b.pendingTurns = m.pendingTurns /\ b.forgotten = m.forgotten
      /\ b.temporal = temporal /\ b.currentIndex = index
  BY <1>1 DEF Viewed, Fields
<1> HIDE DEF b
<1>3. Ids(b) = Ids(m)
  BY <1>2 DEF Ids
<1>4. b.temporal \in BOOLEAN
  BY <1>2
<1>5. Turned(b) /\ Bounded(b)
  BY <1>1, <1>2, <1>3, <1>4 DEF Turned, Bounded
<1>6. Indexed(b) /\ SameStatus(b) /\ AppliedFirst(b) /\ Claimed(b)
  BY <1>2, <1>3 DEF ManagerOK, Indexed, SameStatus, AppliedFirst, Claimed, At
<1> QED BY <1>2, <1>5, <1>6 DEF ManagerOK, SameTurns, b

(* Closures and applied turns do not depend on the view.                   *)
LEMMA ClosuresIgnoreViews ==
    ASSUME NEW m, NEW n, NEW C, SameTurns(m, n), n.below = m.below
    PROVE  /\ Ids(n) = Ids(m) /\ Applied(n) = Applied(m)
           /\ UndoClosed(m, C) => UndoClosed(n, C)
           /\ RedoClosed(m, C) => RedoClosed(n, C)
           /\ \A S : Touched(n, S) = Touched(m, S)
           /\ Reach(n) = Reach(m)
BY DEF Reach, SameTurns, Ids, Applied, TurnApplied, UndoClosed, RedoClosed, At,
       Touched, Touching

LEMMA RestoreIs ==
    ASSUME NEW s, Session(s)
    PROVE  LET r == RestoreVisibleStateToConfirmed(s)
           IN  /\ Session(r)
               /\ SameTurns(s.manager, r.manager) /\ r.manager.below = s.manager.below
               /\ ChangesOnly(s, r, Reach(s.manager))
               /\ ~s.manager.temporal => r = s
               /\ r.manager.currentIndex = s.manager.currentIndex
               /\ r.manager.temporal => s.manager.temporal /\ (r.threw \/ s.threw)
<1> DEFINE m == s.manager
           U == {t \in Ids(m) : Shown(m, t) /\ ~TurnApplied(m, t)}
           R == {t \in Ids(m) : ~Shown(m, t) /\ TurnApplied(m, t)}
           moved == Apply(s, U, R)
           r == RestoreVisibleStateToConfirmed(s)
<1>1. r = IF ~m.temporal THEN s
          ELSE IF moved.threw THEN moved
          ELSE [moved EXCEPT !.manager.temporal = FALSE]
  BY DEF RestoreVisibleStateToConfirmed
<1>2. Retains(m, U, R) /\ ManagerOK(m)
  BY DEF Retains, Session
<1> HIDE DEF U, R
<1>3. /\ Session(moved) /\ moved.manager = m
      /\ ChangesOnly(s, moved, Touched(m, U \cup R))
  BY <1>2, ApplySession
<1>4. ChangesOnly(s, moved, Reach(m)) /\ ChangesOnly(s, s, Reach(m)) /\ SameTurns(m, m)
  <2>1. Touched(m, U \cup R) \subseteq Reach(m)
    BY <1>2, ReachIsLargest DEF Retains
  <2> QED BY <1>3, <2>1, ChangesMore DEF ChangesOnly, SameTurns
<1> HIDE DEF moved
<1>5. CASE ~m.temporal
  BY <1>1, <1>4, <1>5
<1>6. CASE m.temporal /\ moved.threw
  <2>1. r = moved
    BY <1>1, <1>6
  <2> QED BY <1>3, <1>4, <1>6, <2>1
<1>7. CASE m.temporal /\ ~moved.threw
  <2> DEFINE n == [m EXCEPT !.temporal = FALSE]
  <2>1. r = [moved EXCEPT !.manager = n]
    BY <1>1, <1>3, <1>7
  <2>2. n = Viewed(m, m.currentIndex, FALSE)
    BY <1>2 DEF Viewed, ManagerOK, Turned, Fields
  <2>3. m.currentIndex \in -1 .. (Cardinality(Ids(m)) - 1) /\ FALSE \in BOOLEAN
    BY <1>2 DEF ManagerOK, Bounded
  <2>4. /\ ManagerOK(n) /\ SameTurns(m, n) /\ n.below = m.below /\ ~n.temporal
        /\ n.currentIndex = m.currentIndex
    <3> HIDE DEF n
    <3>1. \A f \in BOOLEAN :
            LET b == Viewed(m, m.currentIndex, f)
            IN  /\ ManagerOK(b) /\ SameTurns(m, b) /\ b.below = m.below
                /\ (b.temporal <=> f) /\ b.currentIndex = m.currentIndex
      BY <1>2, <2>3, ViewedIs
    <3> QED BY <2>2, <3>1
  <2> HIDE DEF n, r
  <2>5. /\ DOMAIN r = SessionFields /\ r.manager = n /\ r.visible = moved.visible
        /\ r.external = moved.external /\ r.loose = moved.loose
        /\ r.touched = moved.touched
    BY <2>1, <1>3 DEF Session, SessionFields
  <2>6. Session(r) /\ ChangesOnly(s, r, Reach(s.manager))
    BY <1>3, <1>4, <2>4, <2>5 DEF Session, ChangesOnly
  <2> QED BY <1>7, <2>4, <2>5, <2>6 DEF r
<1> QED BY <1>5, <1>6, <1>7

LEMMA UndoAtIs ==
    ASSUME NEW s, NEW scope, Session(s), scope \subseteq Positions,
           ResolvedUndo(s.manager, scope) # {}
    PROVE  LET r == UndoAt(s, scope)
               C == ResolvedUndo(s.manager, scope)
           IN  /\ Session(r) /\ SameTurns(s.manager, r.manager)
               /\ ChangesOnly(s, r, Reach(s.manager))
               /\ ~s.manager.temporal => ChangesOnly(s, r, Touched(s.manager, C))
<1> DEFINE m == s.manager
           C == ResolvedUndo(m, scope)
           shown == RestoreVisibleStateToConfirmed(s)
           undone == Apply(shown, C, {})
           r == UndoAt(s, scope)
<1>1. r = IF shown.threw THEN shown ELSE IF undone.threw THEN undone
          ELSE [undone EXCEPT !.manager = LowerFrontiers(@, C)]
  BY DEF UndoAt
<1>2. /\ ManagerOK(m) /\ C \subseteq Applied(m) /\ UndoClosed(m, C) /\ C \subseteq Ids(m)
  <2>1. ManagerOK(m)
    BY DEF Session
  <2> QED BY <2>1, ResolvedUndoIs DEF Applied
<1>3. /\ Session(shown) /\ SameTurns(m, shown.manager)
      /\ shown.manager.below = m.below /\ ChangesOnly(s, shown, Reach(s.manager))
      /\ ~m.temporal => shown = s
  BY RestoreIs
<1> HIDE DEF shown, C
<1>4. /\ Ids(shown.manager) = Ids(m) /\ C \subseteq Applied(shown.manager)
      /\ UndoClosed(shown.manager, C)
      /\ Touched(shown.manager, C) = Touched(m, C)
  BY <1>2, <1>3, ClosuresIgnoreViews
<1>5. /\ Session(undone) /\ undone.manager = shown.manager
      /\ ChangesOnly(shown, undone, Touched(m, C))
  <2>1. Retains(shown.manager, C, {}) /\ C \cup {} = C
    BY <1>2, <1>4 DEF Retains
  <2> QED BY <1>3, <1>4, <2>1, ApplySession
<1> HIDE DEF undone
<1>6. ASSUME NEW q, q.visible = undone.visible
      PROVE  ChangesOnly(s, q, Reach(s.manager)) /\ (~m.temporal => ChangesOnly(s, q, Touched(m, C)))
  <2>1. ChangesOnly(shown, q, Touched(m, C)) /\ Touched(m, C) \subseteq Reach(m)
    BY <1>2, <1>5, <1>6, ReachIsLargest DEF ChangesOnly
  <2>2. ChangesOnly(s, q, Reach(m) \cup Touched(m, C))
    BY <1>3, <2>1, ChangesCompose
  <2>3. Reach(m) \cup Touched(m, C) = Reach(m)
    BY <2>1
  <2>4. ~m.temporal => ChangesOnly(s, q, Touched(m, C))
    BY <1>3, <2>1 DEF ChangesOnly
  <2> QED BY <2>2, <2>3, <2>4
<1>7. CASE shown.threw
  <2>1. r = shown
    BY <1>1, <1>7
  <2>2. ~m.temporal => ChangesOnly(s, r, Touched(m, C))
    BY <1>3, <2>1 DEF ChangesOnly
  <2> QED BY <1>3, <2>1, <2>2 DEF C
<1>8. CASE ~shown.threw /\ undone.threw
  <2>1. r = undone
    BY <1>1, <1>8
  <2> QED BY <1>3, <1>5, <1>6, <2>1 DEF C
<1>9. CASE ~shown.threw /\ ~undone.threw
  <2> DEFINE n == LowerFrontiers(shown.manager, C)
  <2>1. r = [undone EXCEPT !.manager = n]
    BY <1>1, <1>5, <1>9
  <2>2. ManagerOK(shown.manager)
    BY <1>3 DEF Session
  <2>3. ManagerOK(n) /\ SameTurns(shown.manager, n)
    BY <1>4, <2>2, LowerFrontiersIs DEF SameTurns
  <2> HIDE DEF n, r
  <2>4. /\ DOMAIN r = SessionFields /\ r.manager = n /\ r.visible = undone.visible
        /\ r.external = undone.external /\ r.loose = undone.loose
        /\ r.touched = undone.touched
    BY <2>1, <1>5 DEF Session, SessionFields
  <2>5. Session(r) /\ SameTurns(m, r.manager)
    BY <1>3, <1>5, <2>3, <2>4 DEF Session, SameTurns
  <2> QED BY <1>6, <2>4, <2>5 DEF r, C
<1> QED BY <1>7, <1>8, <1>9

LEMMA RedoAtIs ==
    ASSUME NEW s, NEW scope, Session(s), scope \subseteq Positions,
           ResolvedRedo(s.manager, scope) # {}
    PROVE  LET r == RedoAt(s, scope)
               C == ResolvedRedo(s.manager, scope)
           IN  /\ Session(r) /\ SameTurns(s.manager, r.manager)
               /\ ChangesOnly(s, r, Reach(s.manager))
               /\ ~s.manager.temporal => ChangesOnly(s, r, Touched(s.manager, C))
<1> DEFINE m == s.manager
           C == ResolvedRedo(m, scope)
           shown == RestoreVisibleStateToConfirmed(s)
           redone == Apply(shown, {}, C)
           r == RedoAt(s, scope)
<1>1. r = IF shown.threw THEN shown ELSE IF redone.threw THEN redone
          ELSE [redone EXCEPT !.manager = RaiseFrontiers(@, C)]
  BY DEF RedoAt
<1>2. /\ ManagerOK(m) /\ C \subseteq Ids(m) \ Applied(m) /\ RedoClosed(m, C)
  <2>1. ManagerOK(m)
    BY DEF Session
  <2> QED BY <2>1, ResolvedRedoIs
<1>3. /\ Session(shown) /\ SameTurns(m, shown.manager)
      /\ shown.manager.below = m.below /\ ChangesOnly(s, shown, Reach(s.manager))
      /\ ~m.temporal => shown = s
  BY RestoreIs
<1> HIDE DEF shown, C
<1>4. /\ Ids(shown.manager) = Ids(m)
      /\ C \subseteq Ids(shown.manager) \ Applied(shown.manager)
      /\ RedoClosed(shown.manager, C)
      /\ Touched(shown.manager, C) = Touched(m, C)
  BY <1>2, <1>3, ClosuresIgnoreViews
<1>5. /\ Session(redone) /\ redone.manager = shown.manager
      /\ ChangesOnly(shown, redone, Touched(m, C))
  <2>1. Retains(shown.manager, {}, C) /\ {} \cup C = C
    BY <1>2, <1>4 DEF Retains
  <2> QED BY <1>3, <1>4, <2>1, ApplySession
<1> HIDE DEF redone
<1>6. ASSUME NEW q, q.visible = redone.visible
      PROVE  ChangesOnly(s, q, Reach(s.manager)) /\ (~m.temporal => ChangesOnly(s, q, Touched(m, C)))
  <2>1. ChangesOnly(shown, q, Touched(m, C)) /\ Touched(m, C) \subseteq Reach(m)
    BY <1>2, <1>5, <1>6, ReachIsLargest DEF ChangesOnly
  <2>2. ChangesOnly(s, q, Reach(m) \cup Touched(m, C))
    BY <1>3, <2>1, ChangesCompose
  <2>3. Reach(m) \cup Touched(m, C) = Reach(m)
    BY <2>1
  <2>4. ~m.temporal => ChangesOnly(s, q, Touched(m, C))
    BY <1>3, <2>1 DEF ChangesOnly
  <2> QED BY <2>2, <2>3, <2>4
<1>7. CASE shown.threw
  <2>1. r = shown
    BY <1>1, <1>7
  <2>2. ~m.temporal => ChangesOnly(s, r, Touched(m, C))
    BY <1>3, <2>1 DEF ChangesOnly
  <2> QED BY <1>3, <2>1, <2>2 DEF C
<1>8. CASE ~shown.threw /\ redone.threw
  <2>1. r = redone
    BY <1>1, <1>8
  <2> QED BY <1>3, <1>5, <1>6, <2>1 DEF C
<1>9. CASE ~shown.threw /\ ~redone.threw
  <2> DEFINE n == RaiseFrontiers(shown.manager, C)
  <2>1. r = [redone EXCEPT !.manager = n]
    BY <1>1, <1>5, <1>9
  <2>2. ManagerOK(shown.manager)
    BY <1>3 DEF Session
  <2>3. ManagerOK(n) /\ SameTurns(shown.manager, n)
    BY <1>4, <2>2, RaiseFrontiersIs DEF SameTurns
  <2> HIDE DEF n, r
  <2>4. /\ DOMAIN r = SessionFields /\ r.manager = n /\ r.visible = redone.visible
        /\ r.external = redone.external /\ r.loose = redone.loose
        /\ r.touched = redone.touched
    BY <2>1, <1>5 DEF Session, SessionFields
  <2>5. Session(r) /\ SameTurns(m, r.manager)
    BY <1>3, <1>5, <2>3, <2>4 DEF Session, SameTurns
  <2> QED BY <1>6, <2>4, <2>5 DEF r, C
<1> QED BY <1>7, <1>8, <1>9

LEMMA JumpToIs ==
    ASSUME NEW s, NEW index \in 0 .. (Cardinality(Ids(s.manager)) - 1), Session(s)
    PROVE  LET r == JumpTo(s, index)
           IN  Session(r) /\ SameTurns(s.manager, r.manager) /\ ChangesOnly(s, r, Reach(s.manager))
<1> DEFINE shown == RestoreVisibleStateToConfirmed(s)
           m == shown.manager
           U == {t \in Ids(m) : HistoryIndex(Ids(m), t) > index /\ TurnApplied(m, t)}
           R == {t \in Ids(m) : HistoryIndex(Ids(m), t) <= index /\ ~TurnApplied(m, t)}
           moved == Apply(shown, U, R)
           r == JumpTo(s, index)
<1>1. r = IF shown.threw THEN shown ELSE IF moved.threw THEN moved
          ELSE [moved EXCEPT !.manager.currentIndex = index, !.manager.temporal = TRUE]
  BY DEF JumpTo
<1>2. /\ Session(shown) /\ SameTurns(s.manager, m) /\ ChangesOnly(s, shown, Reach(s.manager))
  BY RestoreIs
<1> HIDE DEF shown
<1>3. Retains(m, U, R) /\ ManagerOK(m)
  BY <1>2 DEF Retains, Session
<1> HIDE DEF U, R
<1>4. /\ Session(moved) /\ moved.manager = m
      /\ ChangesOnly(shown, moved, Touched(m, U \cup R))
  BY <1>2, <1>3, ApplySession
<1> HIDE DEF moved
<1>5. ASSUME NEW q, q.visible = moved.visible PROVE ChangesOnly(s, q, Reach(s.manager))
  <2>1. ChangesOnly(shown, q, Touched(m, U \cup R)) /\ Touched(m, U \cup R) \subseteq Reach(m)
    BY <1>3, <1>4, <1>5, ReachIsLargest DEF ChangesOnly, Retains
  <2>2. Reach(m) = Reach(s.manager)
    BY <1>2 DEF SameTurns, Reach, Touched, Touching, Ids
  <2>3. ChangesOnly(s, q, Reach(s.manager) \cup Touched(m, U \cup R))
    BY <1>2, <2>1, ChangesCompose
  <2>4. Reach(s.manager) \cup Touched(m, U \cup R) = Reach(s.manager)
    BY <2>1, <2>2
  <2> QED BY <2>3, <2>4
<1>6. CASE shown.threw
  BY <1>1, <1>2, <1>6
<1>7. CASE ~shown.threw /\ moved.threw
  <2>1. r = moved
    BY <1>1, <1>7
  <2> QED BY <1>2, <1>4, <1>5, <2>1
<1>8. CASE ~shown.threw /\ ~moved.threw
  <2> DEFINE n == [m EXCEPT !.currentIndex = index, !.temporal = TRUE]
  <2>1. r = [moved EXCEPT !.manager = n]
    BY <1>1, <1>4, <1>8
  <2>2. index \in -1 .. (Cardinality(Ids(m)) - 1) /\ TRUE \in BOOLEAN
    <3>1. Ids(m) = Ids(s.manager)
      BY <1>2 DEF SameTurns, Ids
    <3> QED BY <3>1
  <2>3. n = Viewed(m, index, TRUE)
    BY DEF Viewed
  <2>4. ManagerOK(n) /\ SameTurns(m, n)
    <3>1. \A f \in BOOLEAN : /\ ManagerOK(Viewed(m, index, f))
                             /\ SameTurns(m, Viewed(m, index, f))
      BY <1>3, <2>2, ViewedIs
    <3> HIDE DEF n
    <3> QED BY <2>3, <3>1
  <2> HIDE DEF n, r
  <2>5. /\ DOMAIN r = SessionFields /\ r.manager = n /\ r.visible = moved.visible
        /\ r.external = moved.external /\ r.loose = moved.loose
        /\ r.touched = moved.touched
    BY <2>1, <1>4 DEF Session, SessionFields
  <2>6. Session(r) /\ SameTurns(s.manager, r.manager)
    BY <1>2, <1>4, <2>4, <2>5 DEF Session, SameTurns
  <2> QED BY <1>5, <2>5, <2>6 DEF r
<1> QED BY <1>6, <1>7, <1>8

-----------------------------------------------------------------------------
(* What a flush makes of the queue                                         *)

QueueTyped == queue \in [Cells -> Seq(Entry)]

LEMMA NetEffectIs ==
    ASSUME QueueTyped, NEW c \in Cells, NEW e \in NetEffect(c)
    PROVE  e.before \in Endpoint /\ e.after \in Endpoint
<1> DEFINE q == queue[c]
           D == Delivered(q)
<1>1. q \in Seq(Entry)
  BY DEF QueueTyped
<1>2. D \subseteq 1 .. Len(q) /\ Len(q) \in Nat
  BY <1>1 DEF Delivered
<1>3. D # {} /\ e = [before |-> q[Min(D)].old, after |-> q[Max(D)].new]
  BY DEF NetEffect
<1> HIDE DEF D
<1>4. IsFiniteSet(D) /\ D \subseteq Int
  <2>1. D \subseteq Int /\ 1 \in Int /\ Len(q) \in Int
    BY <1>2
  <2>2. IsFiniteSet(D)
    BY <1>2, <2>1, BoundedIsFinite
  <2> QED BY <2>1, <2>2
<1>5. Min(D) \in D /\ Max(D) \in D
  BY <1>3, <1>4, MaxIsGreatest, MinIsLeast
<1>6. \A i \in D : q[i] \in Entry
  BY <1>1, <1>2
<1>7. q[Min(D)].old \in Endpoint /\ q[Max(D)].new \in Endpoint
  BY <1>5, <1>6 DEF Entry
<1> QED BY <1>3, <1>7

LEMMA FlushedEffectsAre ==
    ASSUME QueueTyped
    PROVE  /\ DOMAIN FlushedEffects \subseteq Cells
           /\ \A c \in DOMAIN FlushedEffects :
                {FlushedEffects[c].before, FlushedEffects[c].after} \subseteq Endpoint
<1>1. DOMAIN FlushedEffects = {c \in Cells : NetEffect(c) # {}}
  BY DEF FlushedEffects
<1>2. ASSUME NEW c \in DOMAIN FlushedEffects
      PROVE  {FlushedEffects[c].before, FlushedEffects[c].after} \subseteq Endpoint
  <2>1. FlushedEffects[c] \in NetEffect(c) /\ c \in Cells
    BY <1>1 DEF FlushedEffects
  <2> QED BY <2>1, NetEffectIs
<1> QED BY <1>1, <1>2

LEMMA CapturedTurnIs ==
    ASSUME QueueTyped, TickDesignated
    PROVE  IsTurn(CapturedTurn)
<1>1. PICK c \in AuthoredCells : TRUE
  BY DEF TickDesignated
<1>2. AuthoredCells \subseteq Cells
  BY DEF AuthoredCells
<1>3. {Owner[d] : d \in AuthoredCells} \subseteq Positions
      /\ {Owner[d] : d \in AuthoredCells} # {}
  BY <1>1, <1>2, OwnerAssumption
<1>4. /\ CapturedTurn.effects = FlushedEffects
      /\ CapturedTurn.positions = {Owner[d] : d \in AuthoredCells}
      /\ CapturedTurn.subjects \subseteq Rows
  BY DEF CapturedTurn
<1> QED BY <1>3, <1>4, FlushedEffectsAre DEF IsTurn

Recorded == TickDesignated /\ FlushedEffects # EmptyMap /\ MaxHistory > 0

LEMMA FlushedIs ==
    ASSUME QueueTyped, ManagerOK(manager), loose \subseteq Cells
    PROVE  /\ ManagerOK(Flushed.manager)
           /\ Flushed.manager.pendingTurns = manager.pendingTurns
           /\ ~Recorded => Flushed.manager = manager
           /\ Recorded => /\ Flushed.manager = AddEntry(manager, CapturedTurn, Retired)
                          /\ Flushed.manager.nextTurnId = manager.nextTurnId + 1
                          /\ manager.nextTurnId \in Ids(Flushed.manager) \ Ids(manager)
                          /\ \A t \in Ids(Flushed.manager) : Flushed.manager.history[t]
                                \in {CapturedTurn} \cup
                                    RetainedTurns(manager)
           /\ DOMAIN Flushed.external \subseteq Cells \ Rows
           /\ Flushed.loose \subseteq Cells
<1>1. Flushed.manager = IF Recorded THEN AddEntry(manager, CapturedTurn, Retired)
                                    ELSE manager
  BY DEF Flushed, Recorded
<1>2. DOMAIN Flushed.external \subseteq Cells \ Rows
  BY DEF Flushed, DeliveredAuthority, Reattributed
<1>3. Flushed.loose \subseteq Cells
  BY DEF Flushed
<1>4. CASE Recorded
  <2>1. IsTurn(CapturedTurn) /\ MaxHistory > 0
    BY <1>4, CapturedTurnIs DEF Recorded
  <2> HIDE DEF Flushed
  <2>2. PICK f : f = Flushed.manager
    OBVIOUS
  <2>3. f = AddEntry(manager, CapturedTurn, Retired)
    BY <1>1, <1>4, <2>2
  <2>4. /\ ManagerOK(f)
        /\ f.nextTurnId = manager.nextTurnId + 1
        /\ f.pendingTurns = manager.pendingTurns
        /\ manager.nextTurnId \in Ids(f) \ Ids(manager)
        /\ \A t \in Ids(f) : f.history[t] \in
                {CapturedTurn} \cup RetainedTurns(manager)
    BY <2>1, <2>3, AddEntryOK
  <2> QED BY <1>2, <1>3, <1>4, <2>2, <2>3, <2>4
<1>5. CASE ~Recorded
  BY <1>1, <1>2, <1>3, <1>5
<1> QED BY <1>4, <1>5

LEMMA EnqueueIs ==
    ASSUME NEW waiting \in Seq(Entry), NEW c, NEW entry \in Entry
    PROVE  LET w == Enqueue(waiting, c, entry)
           IN  /\ w \in Seq(Entry)
               /\ \A i \in DOMAIN w :
                    \/ i \in DOMAIN waiting /\ w[i] = waiting[i]
                    \/ w[i].class = entry.class /\ (w[i].designated <=> entry.designated)
<1> DEFINE n == Len(waiting)
           front == SubSeq(waiting, 1, n - 1)
           last == Coalesced(Last(waiting), entry)
<1>1. CASE Enqueue(waiting, c, entry) = Append(waiting, entry)
  <2> DEFINE w == Append(waiting, entry)
  <2>1. w \in Seq(Entry) /\ Len(w) = n + 1 /\ DOMAIN w = 1 .. (n + 1)
    OBVIOUS
  <2>2. \A i \in 1 .. n : w[i] = waiting[i]
    OBVIOUS
  <2>3. w[n + 1] = entry
    OBVIOUS
  <2>4. DOMAIN waiting = 1 .. n /\ n \in Nat
    OBVIOUS
  <2>5. \A i \in 1 .. (n + 1) : i \in 1 .. n \/ i = n + 1
    BY <2>4
  <2> HIDE DEF w
  <2>6. \A i \in DOMAIN w : (i \in DOMAIN waiting /\ w[i] = waiting[i]) \/ w[i] = entry
    BY <2>1, <2>2, <2>3, <2>4, <2>5
  <2> QED BY <1>1, <2>1, <2>6 DEF w
<1>2. CASE waiting # <<>> /\ Enqueue(waiting, c, entry) = Append(front, last)
  <2>1. n \in Nat \ {0} /\ DOMAIN waiting = 1 .. n /\ waiting[n] \in Entry
    BY <1>2
  <2>2. PICK k \in Nat : n = k + 1
    <3> HIDE DEF n
    <3>1. n - 1 \in Nat /\ n = (n - 1) + 1
      BY <2>1
    <3> QED BY <3>1
  <2>3. front \in Seq(Entry) /\ Len(front) = k
        /\ \A i \in 1 .. k : front[i] = waiting[i]
    BY <2>1, <2>2
  <2>4. last.class = entry.class /\ last.designated = entry.designated
    BY DEF Coalesced, Entry
  <2>5. last \in Entry
    <3>1. last = [entry EXCEPT !.old = waiting[n].old,
                               !.promised = waiting[n].promised \/ entry.promised]
      BY <2>1 DEF Coalesced, Last, Entry
    <3>2. waiting[n].old \in Endpoint /\ (waiting[n].promised \/ entry.promised) \in BOOLEAN
      BY <2>1 DEF Entry
    <3> HIDE DEF last
    <3> QED BY <3>1, <3>2 DEF Entry
  <2> DEFINE w == Append(front, last)
  <2> HIDE DEF front, last, n
  <2>6. w \in Seq(Entry) /\ DOMAIN w = 1 .. (k + 1) /\ w[k + 1] = last
        /\ \A i \in 1 .. k : w[i] = front[i]
    BY <2>3, <2>5
  <2>7. \A i \in 1 .. (k + 1) : i \in 1 .. k \/ i = k + 1
    OBVIOUS
  <2> HIDE DEF w
  <2>8. \A i \in 1 .. k : i \in DOMAIN waiting
    BY <2>1, <2>2
  <2>9. \A i \in DOMAIN w : \/ i \in DOMAIN waiting /\ w[i] = waiting[i]
                            \/ w[i].class = entry.class /\ w[i].designated = entry.designated
    BY <2>3, <2>4, <2>6, <2>7, <2>8
  <2> QED BY <1>2, <2>6, <2>9 DEF w, front, last
<1> QED BY <1>1, <1>2 DEF Enqueue

-----------------------------------------------------------------------------
(* The invariant of the history                                            *)

StateTyped ==
    /\ visible \in [Cells -> Endpoint]
    /\ QueueTyped
    /\ DOMAIN external \subseteq Cells \ Rows
    /\ DOMAIN transactions \subseteq 1 .. opened /\ opened \in 0 .. MaxOpened
    /\ \A id \in DOMAIN transactions : IsStaged(transactions[id])
    /\ loose \cup server \subseteq Cells
    /\ overtaken \subseteq TurnIds \X Cells

(* Ids are minted within their bound: the flush that follows a designated  *)
(* write still has one to give to its turn.                                *)
Minted ==
    /\ manager.nextTurnId <= MaxTurnId + 1
    /\ Designates(queue) => manager.nextTurnId <= MaxTurnId
    /\ DOMAIN manager.pendingTurns # {} => MaxHistory > 0

HistoryInv == StateTyped /\ ManagerOK(manager) /\ Minted

LEMMA InitInv == Init => HistoryInv
<1> SUFFICES ASSUME Init PROVE HistoryInv
  OBVIOUS
<1>1. visible \in [Cells -> Endpoint]
  BY DEF Init, Endpoint
<1>2. QueueTyped /\ ~Designates(queue)
  BY DEF Init, QueueTyped, EmptyQueue, Designates
<1>3. DOMAIN external = {} /\ DOMAIN transactions = {} /\ opened = 0
      /\ MaxOpened \in Nat /\ MaxTurnId \in Nat
  BY EmptyMapDomain, BoundsAssumption DEF Init
<1>4. StateTyped
  BY <1>1, <1>2, <1>3 DEF Init, StateTyped
<1>5. ManagerOK(manager)
  BY InitialOK DEF Init
<1>6. manager.nextTurnId = 1 /\ DOMAIN manager.pendingTurns = {}
  BY InitialFrame, EmptyMapDomain DEF Init
<1>7. Minted
  BY <1>2, <1>3, <1>6 DEF Minted
<1> QED BY <1>4, <1>5, <1>7 DEF HistoryInv

LEMMA NextValuesTyped ==
    ASSUME NEW c
    PROVE  NextValues(c) \subseteq Endpoint
BY DEF NextValues, Endpoint

LEMMA OverwrittenIs ==
    ASSUME NEW cells
    PROVE  LET after == Overwritten(cells)
           IN  /\ DOMAIN after = DOMAIN transactions
               /\ \A id \in DOMAIN transactions :
                    IsStaged(transactions[id]) => IsStaged(after[id])
<1>1. DOMAIN Overwritten(cells) = DOMAIN transactions
  BY DEF Overwritten
<1>2. ASSUME NEW id \in DOMAIN transactions, IsStaged(transactions[id])
      PROVE  IsStaged(Overwritten(cells)[id])
  <2> DEFINE tx == transactions[id]
             after == Overwritten(cells)[id]
  <2>1. after = [tx EXCEPT !.later = @ \cup (cells \cap DOMAIN tx.effects)]
    BY DEF Overwritten
  <2>2. after.effects = tx.effects /\ after.wasLoose = tx.wasLoose
        /\ after.wasServer = tx.wasServer
    BY <2>1
  <2> QED BY <1>2, <2>2 DEF IsStaged
<1> QED BY <1>1, <1>2

LEMMA WriteEntry ==
    ASSUME HistoryInv, NEW c \in Cells, NEW kind \in WriteKinds, NEW v \in NextValues(c)
    PROVE  [class      |-> IF kind = "realized" THEN kind ELSE "authored",
            designated |-> kind = "designated",
            promised   |-> kind = "designated",
            old |-> visible[c], new |-> v, by |-> 0] \in Entry
<1>1. visible[c] \in Endpoint /\ v \in Endpoint
  BY NextValuesTyped DEF HistoryInv, StateTyped
<1>2. (IF kind = "realized" THEN kind ELSE "authored")
        \in {"authored", "realized", "compensation"}
  OBVIOUS
<1>3. (kind = "designated") \in BOOLEAN
  OBVIOUS
<1> QED BY <1>1, <1>2, <1>3 DEF Entry

LEMMA WriteInv ==
    ASSUME HistoryInv, NEW c \in Cells, NEW kind \in WriteKinds, NEW v \in NextValues(c),
           Write(c, v, kind)
    PROVE  HistoryInv'
<1> DEFINE entry == [class      |-> IF kind = "realized" THEN kind ELSE "authored",
                     designated |-> kind = "designated",
                     promised   |-> kind = "designated",
                     old |-> visible[c], new |-> v, by |-> 0]
           w == Enqueue(queue[c], c, entry)
<1>1. /\ kind = "designated" => manager.nextTurnId <= MaxTurnId
      /\ visible' = [visible EXCEPT ![c] = v]
      /\ queue' = [queue EXCEPT ![c] = w]
      /\ server' \subseteq server \cup {c}
      /\ transactions' = Overwritten({c})
      /\ UNCHANGED <<manager, external, superseded, opened, loose, overtaken>>
  BY DEF Write
<1>2. entry \in Entry /\ (entry.designated <=> kind = "designated")
  BY WriteEntry
<1> HIDE DEF entry
<1>3. StateTyped /\ QueueTyped /\ ManagerOK(manager) /\ Minted /\ v \in Endpoint
  BY NextValuesTyped DEF HistoryInv, StateTyped
<1>4. /\ w \in Seq(Entry)
      /\ \A i \in DOMAIN w : \/ i \in DOMAIN queue[c] /\ w[i] = queue[c][i]
                             \/ w[i].designated <=> entry.designated
  <2>1. queue[c] \in Seq(Entry)
    BY <1>3 DEF QueueTyped
  <2> QED BY <1>2, <2>1, EnqueueIs
<1> HIDE DEF w
<1>5. QueueTyped'
  BY <1>1, <1>3, <1>4 DEF QueueTyped
<1>6. visible' \in [Cells -> Endpoint]
  BY <1>1, <1>3 DEF StateTyped
<1>7. /\ DOMAIN transactions' = DOMAIN transactions
      /\ \A id \in DOMAIN transactions' : IsStaged(transactions'[id])
  BY <1>1, <1>3, OverwrittenIs DEF StateTyped
<1>8. StateTyped'
  BY <1>1, <1>3, <1>5, <1>6, <1>7 DEF StateTyped
<1>9. ASSUME Designates(queue') PROVE manager.nextTurnId <= MaxTurnId
  <2>1. PICK d \in Cells : \E i \in DOMAIN queue'[d] : queue'[d][i].designated
    BY <1>9 DEF Designates
  <2>2. CASE d # c
    <3>1. queue'[d] = queue[d]
      BY <1>1, <1>3, <2>2 DEF QueueTyped
    <3> QED BY <1>3, <2>1, <3>1 DEF Designates, Minted
  <2>3. CASE d = c
    <3>1. queue'[d] = w
      BY <1>1, <1>3, <2>3 DEF QueueTyped
    <3>2. PICK i \in DOMAIN w : w[i].designated
      BY <2>1, <3>1
    <3>3. CASE i \in DOMAIN queue[c] /\ w[i] = queue[c][i]
      BY <1>3, <3>2, <3>3 DEF Designates, Minted
    <3>4. CASE w[i].designated <=> entry.designated
      BY <1>1, <1>2, <3>2, <3>4
    <3> QED BY <1>4, <3>3, <3>4
  <2> QED BY <2>2, <2>3
<1>10. Minted'
  BY <1>1, <1>3, <1>9 DEF Minted, Designates
<1> QED BY <1>1, <1>3, <1>8, <1>10 DEF HistoryInv

LEMMA EmptyQueueIs ==
    /\ EmptyQueue \in [Cells -> Seq(Entry)]
    /\ ~Designates(EmptyQueue)
BY DEF EmptyQueue, Designates

LEMMA RecordedMints ==
    ASSUME HistoryInv
    PROVE  /\ Flushed.manager.nextTurnId <= MaxTurnId + 1
           /\ Flushed.manager.nextTurnId \in Nat \ {0}
<1>1. /\ StateTyped /\ QueueTyped /\ ManagerOK(manager) /\ Minted /\ loose \subseteq Cells
      /\ manager.nextTurnId \in Nat \ {0} /\ MaxTurnId \in Nat
  BY BoundsAssumption DEF HistoryInv, StateTyped, ManagerOK, Turned
<1>2. CASE Recorded
  <2>1. Designates(queue)
    BY <1>2 DEF Recorded, TickDesignated, AuthoredCells, Delivered, Designates
  <2>2. Flushed.manager.nextTurnId = manager.nextTurnId + 1
    BY <1>1, <1>2, FlushedIs
  <2> QED BY <1>1, <2>1, <2>2 DEF Minted
<1>3. CASE ~Recorded
  <2>1. Flushed.manager = manager
    BY <1>1, <1>3, FlushedIs
  <2> QED BY <1>1, <2>1 DEF Minted
<1> QED BY <1>2, <1>3

LEMMA FlushInv ==
    ASSUME HistoryInv, Flush
    PROVE  HistoryInv'
<1>1. /\ manager' = Flushed.manager /\ external' = Flushed.external
      /\ loose' = Flushed.loose /\ queue' = EmptyQueue
      /\ UNCHANGED <<visible, transactions, opened, overtaken, server>>
  BY DEF Flush
<1>2. StateTyped /\ QueueTyped /\ ManagerOK(manager) /\ Minted /\ loose \subseteq Cells
  BY DEF HistoryInv, StateTyped
<1>3. /\ ManagerOK(manager') /\ DOMAIN external' \subseteq Cells \ Rows
      /\ loose' \subseteq Cells /\ manager'.pendingTurns = manager.pendingTurns
  BY <1>1, <1>2, FlushedIs
<1>4. StateTyped'
  BY <1>1, <1>2, <1>3, EmptyQueueIs DEF StateTyped, QueueTyped
<1>5. Minted'
  BY <1>1, <1>2, <1>3, EmptyQueueIs, RecordedMints DEF Minted, Designates
<1> QED BY <1>3, <1>4, <1>5 DEF HistoryInv

LEMMA RollbackInv ==
    ASSUME HistoryInv, NEW id, Rollback(id)
    PROVE  HistoryInv'
<1> DEFINE tx == transactions[id]
           entry(c) == [class |-> "compensation", designated |-> FALSE,
                        promised |-> FALSE, old |-> visible[c],
                        new |-> Installed(c, tx.effects[c].before), by |-> id]
<1>1. /\ id \in DOMAIN transactions
      /\ visible' = [c \in Cells |-> IF c \in DOMAIN tx.effects
                          THEN Installed(c, tx.effects[c].before) ELSE visible[c]]
      /\ queue' = [c \in Cells |-> IF c \in DOMAIN tx.effects
                          THEN Enqueue(queue[c], c, entry(c)) ELSE queue[c]]
      /\ manager' = DiscardPendingTurn(manager, tx.turn)
      /\ transactions' = Without(transactions, {id})
      /\ loose' = (loose \ DOMAIN tx.effects) \cup tx.wasLoose
      /\ server' = server \cup tx.wasServer
      /\ UNCHANGED <<external, superseded, opened, overtaken>>
  BY DEF Rollback
<1>2. /\ StateTyped /\ QueueTyped /\ ManagerOK(manager) /\ Minted /\ IsStaged(tx)
      /\ id \in Nat
  <2>1. StateTyped /\ QueueTyped /\ ManagerOK(manager) /\ Minted
    BY DEF HistoryInv, StateTyped
  <2> QED BY <1>1, <2>1 DEF StateTyped
<1>3. \A c \in DOMAIN tx.effects : Installed(c, tx.effects[c].before) \in Endpoint
  BY <1>2 DEF IsStaged, Installed, Endpoint
<1>4. visible' \in [Cells -> Endpoint]
  BY <1>1, <1>2, <1>3 DEF StateTyped
<1>5. \A c \in Cells : c \in DOMAIN tx.effects => entry(c) \in Entry /\ ~entry(c).designated
  BY <1>2, <1>3 DEF Entry, StateTyped
<1> HIDE DEF entry
<1>6. ASSUME NEW c \in Cells
      PROVE  /\ queue'[c] \in Seq(Entry)
             /\ \A i \in DOMAIN queue'[c] : queue'[c][i].designated =>
                    i \in DOMAIN queue[c] /\ queue[c][i].designated
  <2>1. queue[c] \in Seq(Entry)
    BY <1>2 DEF QueueTyped
  <2>2. CASE c \in DOMAIN tx.effects
    <3>1. queue'[c] = Enqueue(queue[c], c, entry(c))
      BY <1>1, <2>2
    <3> QED BY <1>5, <2>1, <2>2, <3>1, EnqueueIs
  <2>3. CASE c \notin DOMAIN tx.effects
    BY <1>1, <2>1, <2>3
  <2> QED BY <2>2, <2>3
<1>7. QueueTyped'
  BY <1>1, <1>6 DEF QueueTyped
<1>8. /\ DOMAIN transactions' \subseteq DOMAIN transactions
      /\ \A x \in DOMAIN transactions' : IsStaged(transactions'[x])
  BY <1>1, <1>2 DEF Without, StateTyped
<1>9. StateTyped'
  <2>1. loose' \cup server' \subseteq Cells
    BY <1>1, <1>2 DEF StateTyped, IsStaged
  <2> QED BY <1>1, <1>2, <1>4, <1>7, <1>8, <2>1 DEF StateTyped
<1>10. /\ ManagerOK(manager') /\ manager'.nextTurnId = manager.nextTurnId
       /\ DOMAIN manager'.pendingTurns \subseteq DOMAIN manager.pendingTurns
  <2>1. /\ ManagerOK(manager') /\ manager'.nextTurnId = manager.nextTurnId
        /\ manager'.pendingTurns = Without(manager.pendingTurns, {tx.turn})
    BY <1>1, <1>2, DiscardOK
  <2> QED BY <2>1 DEF Without
<1>11. Designates(queue') => Designates(queue)
  BY <1>6 DEF Designates
<1>12. Minted'
  BY <1>2, <1>10, <1>11 DEF Minted, Designates
<1> QED BY <1>9, <1>10, <1>12 DEF HistoryInv

LEMMA ResetInv ==
    ASSUME HistoryInv, Reset
    PROVE  HistoryInv'
<1>1. /\ manager.nextTurnId > 1
      /\ manager' = ResetRestorationHistory(manager, Retired)
      /\ external' = EmptyMap
      /\ transactions' = [id \in DOMAIN transactions |->
            [transactions[id] EXCEPT !.turn = 0, !.watched = FALSE]]
      /\ overtaken' = {}
      /\ UNCHANGED <<visible, queue, opened, loose, server>>
  BY DEF Reset
<1>2. StateTyped /\ QueueTyped /\ ManagerOK(manager) /\ Minted
  BY DEF HistoryInv, StateTyped
<1>3. /\ ManagerOK(manager') /\ manager'.nextTurnId = 1
      /\ DOMAIN manager'.pendingTurns = {}
  BY <1>1, ResetOK, EmptyMapDomain
<1>4. /\ DOMAIN transactions' = DOMAIN transactions
      /\ \A id \in DOMAIN transactions' : IsStaged(transactions'[id])
  <2>1. DOMAIN transactions' = DOMAIN transactions
    BY <1>1
  <2>2. ASSUME NEW id \in DOMAIN transactions PROVE IsStaged(transactions'[id])
    <3>1. transactions'[id] = [transactions[id] EXCEPT !.turn = 0, !.watched = FALSE]
      BY <1>1
    <3>2. /\ transactions'[id].effects = transactions[id].effects
          /\ transactions'[id].wasLoose = transactions[id].wasLoose
          /\ transactions'[id].wasServer = transactions[id].wasServer
      BY <3>1
    <3> QED BY <1>2, <3>2 DEF StateTyped, IsStaged
  <2> QED BY <2>1, <2>2
<1>5. StateTyped'
  BY <1>1, <1>2, <1>4, EmptyMapDomain DEF StateTyped, QueueTyped
<1>6. 1 <= MaxTurnId /\ MaxTurnId \in Nat
  <2>1. MaxTurnId \in Nat /\ manager.nextTurnId \in Nat
        /\ manager.nextTurnId <= MaxTurnId + 1 /\ manager.nextTurnId > 1
    BY <1>1, <1>2, BoundsAssumption DEF Minted, ManagerOK, Turned
  <2>2. PICK k : k = manager.nextTurnId
    OBVIOUS
  <2>3. k \in Nat /\ k <= MaxTurnId + 1 /\ k > 1
    BY <2>1, <2>2
  <2> QED BY <2>1, <2>3
<1>7. Minted'
  BY <1>3, <1>6 DEF Minted
<1> QED BY <1>3, <1>5, <1>7 DEF HistoryInv

LEMMA ForgetOK ==
    ASSUME NEW m, NEW S, ManagerOK(m)
    PROVE  LET b == [m EXCEPT !.forgotten = @ \cup S]
           IN  /\ ManagerOK(b) /\ b.history = m.history /\ b.indexed = m.indexed
               /\ b.pendingTurns = m.pendingTurns /\ b.nextTurnId = m.nextTurnId
               /\ b.below = m.below
<1> DEFINE b == [m EXCEPT !.forgotten = @ \cup S]
<1>1. DOMAIN m = Fields /\ Turned(m) /\ Bounded(m)
  BY DEF ManagerOK, Turned
<1>2. /\ DOMAIN b = Fields /\ b.nextTurnId = m.nextTurnId
      /\ b.pendingTurns = m.pendingTurns
      /\ b.history = m.history /\ b.indexed = m.indexed /\ b.below = m.below
      /\ b.claims = m.claims /\ b.currentIndex = m.currentIndex
      /\ b.temporal = m.temporal
  BY <1>1 DEF Fields
<1> HIDE DEF b
<1>3. Ids(b) = Ids(m)
  BY <1>2 DEF Ids
<1>4. Turned(b) /\ Bounded(b)
  BY <1>1, <1>2, <1>3 DEF Turned, Bounded
<1>5. Indexed(b) /\ SameStatus(b) /\ AppliedFirst(b) /\ Claimed(b)
  BY <1>2, <1>3 DEF ManagerOK, Indexed, SameStatus, AppliedFirst, Claimed, At
<1> QED BY <1>2, <1>4, <1>5 DEF ManagerOK, b

(* What a confirmation leaves of the manager.                              *)
LEMMA ConfirmIs ==
    ASSUME HistoryInv, NEW id, Confirm(id)
    PROVE  LET turn == transactions[id].turn
               held == turn \in DOMAIN manager.pendingTurns
           IN  /\ ManagerOK(manager')
               /\ manager'.nextTurnId = manager.nextTurnId
               /\ manager'.pendingTurns = IF held
                    THEN Without(manager.pendingTurns, {turn}) ELSE manager.pendingTurns
               /\ ~held => manager'.history = manager.history
               /\ held => \A t \in Ids(manager') : manager'.history[t] \in
                    {manager.pendingTurns[turn]} \cup RetainedTurns(manager)
               /\ held => turn \in Ids(manager') \/ Ids(manager') = Ids(manager)
<1> DEFINE turn == transactions[id].turn
           held == turn \in DOMAIN manager.pendingTurns
           admitted == IF held THEN ConfirmPendingTurn(manager, turn, Retired)
                               ELSE manager
<1>1. PICK S : manager' = [admitted EXCEPT !.forgotten = @ \cup S]
  BY DEF Confirm
<1>2. ManagerOK(manager) /\ Minted
  BY DEF HistoryInv
<1>3. /\ ManagerOK(admitted) /\ admitted.nextTurnId = manager.nextTurnId
      /\ admitted.pendingTurns = IF held
            THEN Without(manager.pendingTurns, {turn}) ELSE manager.pendingTurns
      /\ ~held => admitted.history = manager.history
      /\ held => \A t \in Ids(admitted) : admitted.history[t] \in
            {manager.pendingTurns[turn]} \cup RetainedTurns(manager)
      /\ held => turn \in Ids(admitted) \/ Ids(admitted) = Ids(manager)
  <2>1. CASE held
    <3>1. MaxHistory > 0 /\ admitted = ConfirmPendingTurn(manager, turn, Retired)
      BY <1>2, <2>1 DEF Minted
    <3> HIDE DEF admitted
    <3>2. PICK a : a = admitted
      OBVIOUS
    <3>3. /\ ManagerOK(a) /\ a.nextTurnId = manager.nextTurnId
          /\ a.pendingTurns = Without(manager.pendingTurns, {turn})
          /\ \A t \in Ids(a) : a.history[t] \in
                {manager.pendingTurns[turn]} \cup RetainedTurns(manager)
      BY <1>2, <2>1, <3>1, <3>2, ConfirmPendingOK
    <3>4. turn \in Ids(a) \/ Ids(a) = Ids(manager)
      <4>1. KeepsOrAdmits(manager, turn, ConfirmPendingTurn(manager, turn, Retired))
        BY <1>2, <2>1, <3>1, ConfirmKeepsOrAdmits
      <4> QED BY <3>1, <3>2, <4>1 DEF KeepsOrAdmits
    <3> QED BY <2>1, <3>2, <3>3, <3>4
  <2>2. CASE ~held
    BY <1>2, <2>2
  <2> QED BY <2>1, <2>2
<1> HIDE DEF admitted, held, turn
<1>4. /\ ManagerOK(manager') /\ manager'.history = admitted.history
      /\ manager'.pendingTurns = admitted.pendingTurns
      /\ manager'.nextTurnId = admitted.nextTurnId
  BY <1>1, <1>3, ForgetOK
<1>5. Ids(manager') = Ids(admitted)
  BY <1>4 DEF Ids
<1> QED BY <1>3, <1>4, <1>5 DEF held, turn

(* A pending turn's id is one of those minted.                             *)
LEMMA PendingIsMinted ==
    ASSUME HistoryInv
    PROVE  DOMAIN manager.pendingTurns \subseteq TurnIds
<1>1. /\ manager.nextTurnId \in Nat /\ manager.nextTurnId <= MaxTurnId + 1
      /\ DOMAIN manager.pendingTurns \subseteq 1 .. (manager.nextTurnId - 1)
      /\ MaxTurnId \in Nat
  BY BoundsAssumption DEF HistoryInv, ManagerOK, Turned, Minted
<1>2. PICK k : k = manager.nextTurnId
  OBVIOUS
<1>3. 1 .. (k - 1) \subseteq 1 .. MaxTurnId
  BY <1>1, <1>2
<1> QED BY <1>1, <1>2, <1>3 DEF TurnIds

LEMMA ConfirmOvertakes ==
    ASSUME HistoryInv, NEW id, Confirm(id)
    PROVE  overtaken' \subseteq TurnIds \X Cells
<1> DEFINE tx == transactions[id]
<1>1. \/ overtaken' = overtaken
      \/ /\ tx.turn \in DOMAIN manager.pendingTurns
         /\ overtaken' = overtaken \cup ({tx.turn} \X (tx.later \cap DOMAIN tx.effects))
  BY DEF Confirm
<1>2. overtaken \subseteq TurnIds \X Cells /\ DOMAIN tx.effects \subseteq Cells
  BY DEF HistoryInv, StateTyped, IsStaged, Confirm
<1> QED BY <1>1, <1>2, PendingIsMinted

LEMMA ConfirmInv ==
    ASSUME HistoryInv, NEW id, Confirm(id)
    PROVE  HistoryInv'
<1>1. /\ id \in DOMAIN transactions
      /\ loose' \subseteq loose
      /\ transactions' = Without(transactions, {id})
      /\ UNCHANGED <<visible, queue, external, opened, server>>
  BY DEF Confirm
<1>2. StateTyped /\ QueueTyped /\ Minted
  BY DEF HistoryInv, StateTyped
<1>3. /\ DOMAIN transactions' \subseteq DOMAIN transactions
      /\ \A x \in DOMAIN transactions' : IsStaged(transactions'[x])
  BY <1>1, <1>2 DEF Without, StateTyped
<1>4. StateTyped'
  <2>1. overtaken' \subseteq TurnIds \X Cells
    BY ConfirmOvertakes
  <2> QED BY <1>1, <1>2, <1>3, <2>1 DEF StateTyped, QueueTyped
<1>5. /\ ManagerOK(manager') /\ manager'.nextTurnId = manager.nextTurnId
      /\ DOMAIN manager'.pendingTurns \subseteq DOMAIN manager.pendingTurns
  BY ConfirmIs DEF Without
<1>6. Minted'
  BY <1>1, <1>2, <1>5 DEF Minted, Designates
<1> QED BY <1>4, <1>5, <1>6 DEF HistoryInv

Effects(writes) ==
    [c \in DOMAIN writes |-> [before |-> visible[c], after |-> writes[c]]]
HeldTurn(writes) ==
    [effects   |-> Effects(writes),
     positions |-> {Owner[c] : c \in DOMAIN writes},
     subjects  |-> DOMAIN writes \cap Rows,
     over      |-> Flushed.loose \cap DOMAIN writes]

LEMMA TransactIs ==
    ASSUME NEW writes, NEW designated, Transact(writes, designated)
    PROVE  LET F == Flushed
               cells == DOMAIN writes
               held == designated /\ MaxHistory > 0
               id == opened + 1
           IN  /\ opened < MaxOpened /\ opened' = id
               /\ held => F.manager.nextTurnId <= MaxTurnId
               /\ \A c \in cells : writes[c] \in NextValues(c)
               /\ queue' = EmptyQueue
               /\ manager' = IF held THEN CreatePendingEntry(F.manager, HeldTurn(writes))
                                     ELSE F.manager
               /\ external' = Without(F.external, cells)
               /\ transactions' = SetKey(Overwritten(cells), id,
                    [effects   |-> Effects(writes),
                     turn      |-> IF held THEN F.manager.nextTurnId ELSE 0,
                     watched   |-> TRUE,
                     later     |-> {},
                     wasLoose  |-> cells \cap F.loose,
                     wasServer |-> cells \cap server])
               /\ visible' = [c \in Cells |-> IF c \in cells THEN writes[c] ELSE visible[c]]
               /\ loose' = F.loose \cup cells
               /\ server' = server \ cells
               /\ overtaken' = overtaken
BY DEF Transact, Effects, HeldTurn

LEMMA TransactedWritesAre ==
    ASSUME NEW writes \in TransactedWrites
    PROVE  DOMAIN writes \subseteq Cells /\ DOMAIN writes # {}
<1>1. PICK S \in SUBSET Cells : /\ Cardinality(S) \in 1 .. 2
                                /\ writes \in [S -> Values \cup {"live", "gone"}]
  BY DEF TransactedWrites
<1>2. S # {}
  BY <1>1, FS_EmptySet
<1> QED BY <1>1, <1>2

LEMMA HeldTurnIs ==
    ASSUME StateTyped, NEW writes \in TransactedWrites,
           \A c \in DOMAIN writes : writes[c] \in NextValues(c)
    PROVE  /\ IsTurn(HeldTurn(writes))
           /\ DOMAIN Effects(writes) = DOMAIN writes
           /\ \A c \in DOMAIN writes :
                {Effects(writes)[c].before, Effects(writes)[c].after} \subseteq Endpoint
<1>1. DOMAIN writes \subseteq Cells /\ DOMAIN writes # {}
  BY TransactedWritesAre
<1>2. /\ DOMAIN Effects(writes) = DOMAIN writes
      /\ \A c \in DOMAIN writes :
            {Effects(writes)[c].before, Effects(writes)[c].after} \subseteq Endpoint
  BY <1>1, NextValuesTyped DEF Effects, StateTyped
<1>3. {Owner[c] : c \in DOMAIN writes} \subseteq Positions
      /\ {Owner[c] : c \in DOMAIN writes} # {}
  BY <1>1, OwnerAssumption
<1>4. /\ HeldTurn(writes).effects = Effects(writes)
      /\ HeldTurn(writes).positions = {Owner[c] : c \in DOMAIN writes}
      /\ HeldTurn(writes).subjects = DOMAIN writes \cap Rows
  BY DEF HeldTurn
<1>5. IsTurn(HeldTurn(writes))
  BY <1>1, <1>2, <1>3, <1>4 DEF IsTurn
<1> QED BY <1>2, <1>5

LEMMA TransactInv ==
    ASSUME HistoryInv, NEW writes \in TransactedWrites, NEW designated,
           Transact(writes, designated)
    PROVE  HistoryInv'
<1> DEFINE F == Flushed
           cells == DOMAIN writes
           held == designated /\ MaxHistory > 0
           id == opened + 1
           staged == [effects   |-> Effects(writes),
                      turn      |-> IF held THEN F.manager.nextTurnId ELSE 0,
                      watched   |-> TRUE,
                      later     |-> {},
                      wasLoose  |-> cells \cap F.loose,
                      wasServer |-> cells \cap server]
<1>1. /\ opened < MaxOpened /\ opened' = id
      /\ held => F.manager.nextTurnId <= MaxTurnId
      /\ \A c \in cells : writes[c] \in NextValues(c)
      /\ queue' = EmptyQueue
      /\ manager' = IF held THEN CreatePendingEntry(F.manager, HeldTurn(writes))
                            ELSE F.manager
      /\ external' = Without(F.external, cells)
      /\ transactions' = SetKey(Overwritten(cells), id, staged)
      /\ visible' = [c \in Cells |-> IF c \in cells THEN writes[c] ELSE visible[c]]
      /\ loose' = F.loose \cup cells
      /\ server' = server \ cells
      /\ overtaken' = overtaken
  BY TransactIs
<1>2. /\ StateTyped /\ QueueTyped /\ ManagerOK(manager) /\ Minted /\ loose \subseteq Cells
      /\ opened \in Nat /\ MaxOpened \in Nat /\ MaxTurnId \in Nat /\ cells \subseteq Cells
  BY BoundsAssumption, TransactedWritesAre DEF HistoryInv, StateTyped
<1>3. /\ ManagerOK(F.manager) /\ DOMAIN F.external \subseteq Cells \ Rows
      /\ F.loose \subseteq Cells /\ F.manager.pendingTurns = manager.pendingTurns
      /\ F.manager.nextTurnId <= MaxTurnId + 1 /\ F.manager.nextTurnId \in Nat
  BY <1>2, FlushedIs, RecordedMints
<1>4. /\ IsTurn(HeldTurn(writes)) /\ DOMAIN Effects(writes) = cells
      /\ \A c \in cells :
            {Effects(writes)[c].before, Effects(writes)[c].after} \subseteq Endpoint
  BY <1>1, <1>2, HeldTurnIs
<1>5. IsStaged(staged)
  BY <1>2, <1>3, <1>4 DEF IsStaged, StateTyped
<1> HIDE DEF staged, F
<1>6. visible' \in [Cells -> Endpoint]
  BY <1>1, <1>2, NextValuesTyped DEF StateTyped
<1>7. /\ DOMAIN transactions' \subseteq 1 .. opened' /\ opened' \in 0 .. MaxOpened
      /\ \A x \in DOMAIN transactions' : IsStaged(transactions'[x])
  <2>1. /\ DOMAIN Overwritten(cells) \subseteq 1 .. opened
        /\ \A x \in DOMAIN Overwritten(cells) : IsStaged(Overwritten(cells)[x])
    BY <1>2, OverwrittenIs DEF StateTyped
  <2>2. /\ DOMAIN transactions' = DOMAIN Overwritten(cells) \cup {id}
        /\ \A x \in DOMAIN transactions' : IsStaged(transactions'[x])
    BY <1>1, <1>5, <2>1 DEF SetKey
  <2>3. opened' \in 0 .. MaxOpened /\ opened' = opened + 1
    BY <1>1, <1>2
  <2> QED BY <1>2, <2>1, <2>2, <2>3
<1>8. StateTyped'
  <2>1. QueueTyped'
    BY <1>1, EmptyQueueIs DEF QueueTyped
  <2>2. DOMAIN external' \subseteq Cells \ Rows
    BY <1>1, <1>3 DEF Without
  <2>3. loose' \cup server' \subseteq Cells
    BY <1>1, <1>2, <1>3 DEF StateTyped
  <2>4. overtaken' \subseteq TurnIds \X Cells
    BY <1>1, <1>2 DEF StateTyped
  <2> QED BY <1>6, <1>7, <2>1, <2>2, <2>3, <2>4 DEF StateTyped
<1>9. ~Designates(queue')
  BY <1>1, EmptyQueueIs DEF Designates
<1>10. CASE held
  <2>1. PICK m : m = manager'
    OBVIOUS
  <2>2. m = CreatePendingEntry(F.manager, HeldTurn(writes))
    BY <1>1, <1>10, <2>1
  <2>3. ManagerOK(m) /\ m.nextTurnId = F.manager.nextTurnId + 1
    BY <1>3, <1>4, <2>2, CreatePendingOK
  <2>4. m.nextTurnId <= MaxTurnId + 1 /\ MaxHistory > 0
    BY <1>1, <1>2, <1>3, <1>10, <2>3
  <2>5. Minted'
    BY <1>9, <2>1, <2>4 DEF Minted, Designates
  <2> QED BY <1>8, <2>1, <2>3, <2>5 DEF HistoryInv
<1>11. CASE ~held
  <2>1. manager' = F.manager
    BY <1>1, <1>11
  <2>2. Minted'
    BY <1>2, <1>3, <1>9, <2>1 DEF Minted, Designates
  <2> QED BY <1>3, <1>8, <2>1, <2>2 DEF HistoryInv
<1> QED BY <1>10, <1>11

(* The session an undo, a redo or a jump starts from.                      *)
LEMMA NowIs ==
    ASSUME HistoryInv
    PROVE  /\ Session(Now) /\ Now.visible = visible /\ Now.manager = manager
           /\ Now.external = external /\ Now.loose = loose /\ ~Now.threw
BY DEF Now, Session, SessionFields, HistoryInv, StateTyped

LEMMA NavigateInv ==
    ASSUME HistoryInv, NEW s, Navigate(s), Session(s), SameTurns(manager, s.manager)
    PROVE  HistoryInv'
<1>1. /\ visible' = s.visible /\ manager' = s.manager /\ external' = s.external
      /\ loose' = s.loose /\ server' \subseteq server
      /\ UNCHANGED <<queue, transactions, superseded, opened, overtaken>>
  BY DEF Navigate
<1>2. StateTyped /\ QueueTyped /\ Minted
  BY DEF HistoryInv, StateTyped
<1>3. StateTyped'
  BY <1>1, <1>2 DEF StateTyped, QueueTyped, Session
<1>4. ManagerOK(manager')
  BY <1>1 DEF Session
<1>5. Minted'
  BY <1>1, <1>2 DEF Minted, Designates, SameTurns
<1> QED BY <1>3, <1>4, <1>5 DEF HistoryInv

LEMMA UndoIs ==
    ASSUME HistoryInv, NEW scope \in Scopes, Undo(scope)
    PROVE  /\ Session(UndoAt(Now, scope)) /\ Navigate(UndoAt(Now, scope))
           /\ SameTurns(manager, UndoAt(Now, scope).manager)
           /\ ChangesOnly(Now, UndoAt(Now, scope), Reach(manager))
           /\ ~manager.temporal => ChangesOnly(Now, UndoAt(Now, scope),
                    Touched(manager, ResolvedUndo(manager, scope)))
BY NowIs, ScopesAssumption, UndoAtIs DEF Undo

LEMMA RedoIs ==
    ASSUME HistoryInv, NEW scope \in Scopes, Redo(scope)
    PROVE  /\ Session(RedoAt(Now, scope)) /\ Navigate(RedoAt(Now, scope))
           /\ SameTurns(manager, RedoAt(Now, scope).manager)
           /\ ChangesOnly(Now, RedoAt(Now, scope), Reach(manager))
           /\ ~manager.temporal => ChangesOnly(Now, RedoAt(Now, scope),
                    Touched(manager, ResolvedRedo(manager, scope)))
BY NowIs, ScopesAssumption, RedoAtIs DEF Redo

LEMMA JumpIs ==
    ASSUME HistoryInv, NEW index, Jump(index)
    PROVE  /\ Session(JumpTo(Now, index)) /\ Navigate(JumpTo(Now, index))
           /\ SameTurns(manager, JumpTo(Now, index).manager)
           /\ ChangesOnly(Now, JumpTo(Now, index), Reach(manager))
<1>1. index \in 0 .. (Cardinality(Ids(manager)) - 1) /\ Navigate(JumpTo(Now, index))
  BY DEF Jump
<1> QED BY <1>1, NowIs, JumpToIs

LEMMA StepInv == HistoryInv /\ [Next]_vars => HistoryInv'
<1> SUFFICES ASSUME HistoryInv, [Next]_vars PROVE HistoryInv'
  OBVIOUS
<1>1. ASSUME NEW c \in Cells, NEW kind \in WriteKinds, NEW v \in NextValues(c),
             Write(c, v, kind)
      PROVE  HistoryInv'
  BY <1>1, WriteInv
<1>2. CASE Flush
  BY <1>2, FlushInv
<1>3. ASSUME NEW writes \in TransactedWrites, NEW designated \in BOOLEAN,
             Transact(writes, designated)
      PROVE  HistoryInv'
  BY <1>3, TransactInv
<1>4. ASSUME NEW id \in DOMAIN transactions, Confirm(id) \/ Rollback(id)
      PROVE  HistoryInv'
  BY <1>4, ConfirmInv, RollbackInv
<1>5. ASSUME NEW scope \in Scopes, Undo(scope) \/ Redo(scope)
      PROVE  HistoryInv'
  BY <1>5, UndoIs, RedoIs, NavigateInv
<1>6. ASSUME NEW index \in 0 .. (MaxHistory - 1), Jump(index)
      PROVE  HistoryInv'
  BY <1>6, JumpIs, NavigateInv
<1>7. CASE Reset
  BY <1>7, ResetInv
<1>8. CASE UNCHANGED vars
  BY <1>8 DEF vars, HistoryInv, StateTyped, QueueTyped, Minted, Designates, IsStaged
<1> QED BY <1>1, <1>2, <1>3, <1>4, <1>5, <1>6, <1>7, <1>8 DEF Next

LEMMA HistoryInvariant == Spec => []HistoryInv
BY InitInv, StepInv, PTL DEF Spec

(* The variables and the manager's maps keep their types, within the       *)
(* retention limit, whatever is written, undone, confirmed and reset.      *)
THEOREM TypeCorrect == Spec => []TypeOK
<1>1. HistoryInv => TypeOK
  <2> SUFFICES ASSUME HistoryInv PROVE TypeOK
    OBVIOUS
  <2>1. /\ StateTyped /\ Turned(manager) /\ Bounded(manager) /\ Indexed(manager)
        /\ Minted /\ MaxTurnId \in Nat
    BY BoundsAssumption DEF HistoryInv, ManagerOK
  <2>2. 1 .. (manager.nextTurnId - 1) \subseteq TurnIds
    <3>1. PICK k : k = manager.nextTurnId
      OBVIOUS
    <3>2. k \in Nat /\ k <= MaxTurnId + 1
      BY <2>1, <3>1 DEF Turned, Minted
    <3>3. 1 .. (k - 1) \subseteq 1 .. MaxTurnId
      BY <2>1, <3>2
    <3> QED BY <3>1, <3>3 DEF TurnIds
  <2>3. Ids(manager) \cup DOMAIN manager.pendingTurns \subseteq TurnIds
    BY <2>1, <2>2 DEF Turned
  <2> QED BY <2>1, <2>3 DEF TypeOK, StateTyped, QueueTyped, Turned, Bounded, Indexed
<1> QED BY <1>1, HistoryInvariant, PTL

(* A turn is applied at all of its positions or at none, and every frontier *)
(* is a prefix of its position's turns.                                    *)
THEOREM StatusIsConsistent == Spec => []StatusConsistent
<1>1. HistoryInv => StatusConsistent
  BY DEF HistoryInv, ManagerOK, SameStatus, AppliedFirst, StatusConsistent
<1> QED BY <1>1, HistoryInvariant, PTL

(* A claim leaves the manager with the turn it belongs to.                 *)
THEOREM ClaimsAreHistory == Spec => []ClaimsFollowHistory
<1>1. HistoryInv => ClaimsFollowHistory
  BY DEF HistoryInv, ManagerOK, Claimed, ClaimsFollowHistory
<1> QED BY <1>1, HistoryInvariant, PTL

-----------------------------------------------------------------------------
(* What may leave the history, and for what                                *)

(* The turns that leave are replaced by a turn that is admitted, or all of *)
(* them leave at a reset.                                                  *)
LosesOnlyToAdmitted ==
    \A t \in Ids(manager) \ Ids(manager)' :
        \/ manager'.history = EmptyMap /\ manager'.nextTurnId = 1
        \/ \E u \in Ids(manager)' : u \notin Ids(manager)

LEMMA KeptIsEnough == Ids(manager') = Ids(manager) => LosesOnlyToAdmitted
BY DEF LosesOnlyToAdmitted, Ids

LEMMA FlushedKeepsOrAdmits ==
    ASSUME HistoryInv
    PROVE  \/ Ids(Flushed.manager) = Ids(manager)
           \/ \E u \in Ids(Flushed.manager) : u \notin Ids(manager)
<1>1. QueueTyped /\ ManagerOK(manager) /\ loose \subseteq Cells
  BY DEF HistoryInv, StateTyped
<1> QED BY <1>1, FlushedIs

LEMMA TransactReplaces ==
    ASSUME HistoryInv, NEW writes \in TransactedWrites, NEW designated \in BOOLEAN,
           Transact(writes, designated)
    PROVE  LosesOnlyToAdmitted
<1>1. QueueTyped /\ ManagerOK(manager) /\ loose \subseteq Cells /\ StateTyped
  BY DEF HistoryInv, StateTyped
<1>2. ManagerOK(Flushed.manager)
  BY <1>1, FlushedIs
<1>3. IsTurn(HeldTurn(writes))
  BY <1>1, TransactIs, HeldTurnIs
<1>4. manager' = CreatePendingEntry(Flushed.manager, HeldTurn(writes))
        \/ manager' = Flushed.manager
  BY TransactIs
<1>5. Ids(manager') = Ids(Flushed.manager)
  BY <1>2, <1>3, <1>4, CreatePendingOK DEF Ids
<1> QED BY <1>5, FlushedKeepsOrAdmits DEF LosesOnlyToAdmitted, Ids

LEMMA ConfirmReplaces ==
    ASSUME HistoryInv, NEW id, Confirm(id)
    PROVE  LosesOnlyToAdmitted
<1>1. CASE transactions[id].turn \in DOMAIN manager.pendingTurns
  <2>1. transactions[id].turn \in Ids(manager') \/ Ids(manager') = Ids(manager)
    BY <1>1, ConfirmIs
  <2>2. transactions[id].turn \notin Ids(manager)
    BY <1>1 DEF HistoryInv, ManagerOK, Bounded
  <2> QED BY <2>1, <2>2, KeptIsEnough DEF LosesOnlyToAdmitted, Ids
<1>2. CASE transactions[id].turn \notin DOMAIN manager.pendingTurns
  BY <1>2, ConfirmIs, KeptIsEnough DEF Ids
<1> QED BY <1>1, <1>2

(* No undo, redo, jump, undesignated write, staging or rollback ever costs *)
(* a turn that could be redone: eviction and truncation come with work     *)
(* that is admitted, and with nothing else.                                *)
THEOREM RedoIsOnlyReplaced == Spec => RedoOnlyReplacedByAdmittedWork
<1>1. ASSUME HistoryInv, Next PROVE LosesOnlyToAdmitted
  <2> USE <1>1
  <2>1. ASSUME NEW c \in Cells, NEW kind \in WriteKinds, NEW v \in NextValues(c),
               Write(c, v, kind)
        PROVE  LosesOnlyToAdmitted
    BY <2>1, KeptIsEnough DEF Write
  <2>2. CASE Flush
    BY <2>2, FlushedKeepsOrAdmits DEF Flush, LosesOnlyToAdmitted, Ids
  <2>3. ASSUME NEW writes \in TransactedWrites, NEW designated \in BOOLEAN,
               Transact(writes, designated)
        PROVE  LosesOnlyToAdmitted
    BY <2>3, TransactReplaces
  <2>4. ASSUME NEW id \in DOMAIN transactions, Confirm(id)
        PROVE  LosesOnlyToAdmitted
    BY <2>4, ConfirmReplaces
  <2>5. ASSUME NEW id \in DOMAIN transactions, Rollback(id)
        PROVE  LosesOnlyToAdmitted
    <3>1. ManagerOK(manager) /\ manager' = DiscardPendingTurn(manager, transactions[id].turn)
      BY <2>5 DEF HistoryInv, Rollback
    <3> QED BY <3>1, DiscardOK, KeptIsEnough DEF Ids
  <2>6. ASSUME NEW scope \in Scopes, Undo(scope) \/ Redo(scope)
        PROVE  LosesOnlyToAdmitted
    BY <2>6, UndoIs, RedoIs, KeptIsEnough DEF Navigate, SameTurns, Ids
  <2>7. ASSUME NEW index \in 0 .. (MaxHistory - 1), Jump(index)
        PROVE  LosesOnlyToAdmitted
    BY <2>7, JumpIs, KeptIsEnough DEF Navigate, SameTurns, Ids
  <2>8. CASE Reset
    BY <2>8, ResetOK DEF Reset, LosesOnlyToAdmitted
  <2> QED BY <2>1, <2>2, <2>3, <2>4, <2>5, <2>6, <2>7, <2>8 DEF Next
<1>2. HistoryInv /\ [Next]_vars => [LosesOnlyToAdmitted]_vars
  BY <1>1
<1>3. (Spec => [][LosesOnlyToAdmitted]_vars)
        => (Spec => RedoOnlyReplacedByAdmittedWork)
  BY DEF LosesOnlyToAdmitted, RedoOnlyReplacedByAdmittedWork
<1> QED BY <1>2, <1>3, HistoryInvariant, PTL DEF Spec

-----------------------------------------------------------------------------
(* Scopes.  A flush attributes a turn to the positions that authored       *)
(* writes named, so a tick in which the application realized values beside *)
(* designated work may give a turn an effect outside of its positions; the *)
(* instances that leave mixed_tick out of Lets have no such tick.          *)

OwnEffects(turn) == \A c \in DOMAIN turn.effects : Owner[c] \in turn.positions

OwnedHistory(m) ==
    /\ \A t \in Ids(m) : OwnEffects(m.history[t])
    /\ \A t \in DOMAIN m.pendingTurns : OwnEffects(m.pendingTurns[t])

Unmixed == ~(Designates(queue) /\ Realizes(queue))

ScopeInv == Unmixed /\ OwnedHistory(manager)

LEMMA FlushedEffectsAreDelivered ==
    ASSUME NEW c \in DOMAIN FlushedEffects
    PROVE  c \in Cells /\ Delivered(queue[c]) # {}
<1>1. c \in Cells /\ NetEffect(c) # {}
  BY DEF FlushedEffects
<1> QED BY <1>1 DEF NetEffect

LEMMA CapturedTurnOwns ==
    ASSUME Unmixed, TickDesignated, QueueTyped
    PROVE  OwnEffects(CapturedTurn)
<1>1. \A c \in Cells : \A i \in DOMAIN queue[c] : queue[c][i].class = "authored"
  <2>1. Designates(queue)
    BY DEF TickDesignated, Designates, AuthoredCells, Delivered
  <2> QED BY <2>1 DEF Unmixed, Realizes
<1>2. \A c \in DOMAIN FlushedEffects : c \in AuthoredCells
  BY <1>1, FlushedEffectsAreDelivered DEF AuthoredCells, Delivered
<1>3. CapturedTurn.effects = FlushedEffects
      /\ CapturedTurn.positions = {Owner[c] : c \in AuthoredCells}
  BY DEF CapturedTurn
<1> QED BY <1>2, <1>3 DEF OwnEffects

LEMMA FlushedOwns ==
    ASSUME HistoryInv, ScopeInv
    PROVE  OwnedHistory(Flushed.manager)
<1>1. QueueTyped /\ ManagerOK(manager) /\ loose \subseteq Cells
  BY DEF HistoryInv, StateTyped
<1>2. CASE ~Recorded
  BY <1>1, <1>2, FlushedIs DEF ScopeInv
<1>3. CASE Recorded
  <2>1. OwnEffects(CapturedTurn)
    BY <1>1, <1>3, CapturedTurnOwns DEF ScopeInv, Recorded
  <2>2. \A t \in Ids(Flushed.manager) :
            Flushed.manager.history[t] \in {CapturedTurn} \cup RetainedTurns(manager)
    BY <1>1, <1>3, FlushedIs
  <2>3. \A turn \in RetainedTurns(manager) : OwnEffects(turn)
    BY DEF RetainedTurns, ScopeInv, OwnedHistory
  <2>4. Flushed.manager.pendingTurns = manager.pendingTurns
    BY <1>1, FlushedIs
  <2> QED BY <2>1, <2>2, <2>3, <2>4 DEF OwnedHistory, ScopeInv
<1> QED BY <1>2, <1>3

LEMMA EmptyQueueUnmixed == queue' = EmptyQueue => Unmixed'
BY DEF Unmixed, Designates, EmptyQueue

LEMMA WriteScope ==
    ASSUME ScopeInv, "mixed_tick" \notin Lets,
           NEW c, NEW kind, NEW v, Write(c, v, kind)
    PROVE  ScopeInv'
<1>1. manager' = manager
  BY DEF Write
<1>2. Unmixed'
  BY DEF Write, Unless, Unmixed, Designates, Realizes
<1> QED BY <1>1, <1>2 DEF ScopeInv, OwnedHistory, Ids

LEMMA FlushScope ==
    ASSUME HistoryInv, ScopeInv, Flush
    PROVE  ScopeInv'
<1>1. manager' = Flushed.manager /\ queue' = EmptyQueue
  BY DEF Flush
<1> QED BY <1>1, FlushedOwns, EmptyQueueUnmixed DEF ScopeInv, OwnedHistory, Ids

LEMMA TransactScope ==
    ASSUME HistoryInv, ScopeInv, NEW writes \in TransactedWrites,
           NEW designated \in BOOLEAN, Transact(writes, designated)
    PROVE  ScopeInv'
<1>1. QueueTyped /\ ManagerOK(manager) /\ loose \subseteq Cells /\ StateTyped
  BY DEF HistoryInv, StateTyped
<1>2. ManagerOK(Flushed.manager) /\ OwnedHistory(Flushed.manager)
  BY <1>1, FlushedIs, FlushedOwns
<1>3. IsTurn(HeldTurn(writes)) /\ DOMAIN Effects(writes) = DOMAIN writes
  BY <1>1, TransactIs, HeldTurnIs
<1>4. OwnEffects(HeldTurn(writes))
  BY <1>3 DEF OwnEffects, HeldTurn
<1>5. \/ manager' = CreatePendingEntry(Flushed.manager, HeldTurn(writes))
      \/ manager' = Flushed.manager
  BY TransactIs
<1>6. OwnedHistory(CreatePendingEntry(Flushed.manager, HeldTurn(writes)))
  <2>1. PICK b : b = CreatePendingEntry(Flushed.manager, HeldTurn(writes))
    OBVIOUS
  <2>2. /\ b.history = Flushed.manager.history
        /\ b.pendingTurns = SetKey(Flushed.manager.pendingTurns,
                                   Flushed.manager.nextTurnId, HeldTurn(writes))
    BY <1>2, <1>3, <2>1, CreatePendingOK
  <2> QED BY <1>2, <1>4, <2>1, <2>2 DEF OwnedHistory, Ids, SetKey
<1>7. queue' = EmptyQueue
  BY TransactIs
<1> QED BY <1>2, <1>5, <1>6, <1>7, EmptyQueueUnmixed DEF ScopeInv, OwnedHistory, Ids

LEMMA ConfirmScope ==
    ASSUME HistoryInv, ScopeInv, NEW id, Confirm(id)
    PROVE  ScopeInv'
<1>1. queue' = queue
  BY DEF Confirm
<1>2. PICK turn : turn = transactions[id].turn
  OBVIOUS
<1>3. CASE turn \in DOMAIN manager.pendingTurns
  <2>1. /\ manager'.pendingTurns = Without(manager.pendingTurns, {turn})
        /\ \A t \in Ids(manager') : manager'.history[t] \in
                {manager.pendingTurns[turn]} \cup RetainedTurns(manager)
    BY <1>2, <1>3, ConfirmIs
  <2>2. \A past \in {manager.pendingTurns[turn]} \cup RetainedTurns(manager) :
            OwnEffects(past)
    BY <1>3 DEF ScopeInv, OwnedHistory, RetainedTurns
  <2>3. PICK n : n = manager'
    OBVIOUS
  <2>4. \A t \in Ids(n) : OwnEffects(n.history[t])
    BY <2>1, <2>2, <2>3
  <2>5. \A t \in DOMAIN n.pendingTurns : OwnEffects(n.pendingTurns[t])
    BY <2>1, <2>3 DEF OwnedHistory, ScopeInv, Without
  <2>6. OwnedHistory(n)
    BY <2>4, <2>5 DEF OwnedHistory
  <2> QED BY <1>1, <2>3, <2>6 DEF ScopeInv, OwnedHistory, Ids, Unmixed, Designates, Realizes
<1>4. CASE turn \notin DOMAIN manager.pendingTurns
  <2>1. manager'.pendingTurns = manager.pendingTurns /\ manager'.history = manager.history
    BY <1>2, <1>4, ConfirmIs
  <2> QED BY <1>1, <2>1 DEF ScopeInv, OwnedHistory, Ids, Unmixed, Designates, Realizes
<1> QED BY <1>3, <1>4

LEMMA RollbackScope ==
    ASSUME HistoryInv, ScopeInv, "mixed_tick" \notin Lets, NEW id, Rollback(id)
    PROVE  ScopeInv'
<1>1. ManagerOK(manager) /\ manager' = DiscardPendingTurn(manager, transactions[id].turn)
      /\ ~Designates(queue) /\ QueueTyped /\ StateTyped /\ id \in DOMAIN transactions
  BY DEF HistoryInv, StateTyped, Rollback, Unless
<1>2. OwnedHistory(manager')
  <2>1. PICK n : n = manager'
    OBVIOUS
  <2>2. /\ n.history = manager.history
        /\ n.pendingTurns = Without(manager.pendingTurns, {transactions[id].turn})
    BY <1>1, <2>1, DiscardOK
  <2>3. \A t \in DOMAIN n.pendingTurns : OwnEffects(n.pendingTurns[t])
    BY <2>2 DEF Without, ScopeInv, OwnedHistory
  <2> QED BY <2>1, <2>2, <2>3 DEF ScopeInv, OwnedHistory, Ids
<1>3. ~Designates(queue)'
  <2> DEFINE entry(c) == [class |-> "compensation", designated |-> FALSE,
                     promised |-> FALSE, old |-> visible[c],
                     new |-> Installed(c, transactions[id].effects[c].before), by |-> id]
  <2>1. queue' = [c \in Cells |-> IF c \in DOMAIN transactions[id].effects
                            THEN Enqueue(queue[c], c, entry(c)) ELSE queue[c]]
    BY DEF Rollback
  <2>2. \A c \in Cells : c \in DOMAIN transactions[id].effects => entry(c) \in Entry
    <3>1. IsStaged(transactions[id])
      BY <1>1 DEF StateTyped
    <3>2. \A c \in DOMAIN transactions[id].effects :
                Installed(c, transactions[id].effects[c].before) \in Endpoint
      BY <3>1 DEF IsStaged, Installed, Endpoint
    <3>3. id \in Nat /\ visible \in [Cells -> Endpoint]
      BY <1>1 DEF StateTyped
    <3> QED BY <3>2, <3>3 DEF Entry
  <2>3. \A c \in Cells : ~entry(c).designated
    OBVIOUS
  <2> HIDE DEF entry
  <2>4. \A c \in Cells : queue[c] \in Seq(Entry)
    BY <1>1 DEF QueueTyped
  <2>5. ASSUME NEW c \in Cells, c \in DOMAIN transactions[id].effects
        PROVE  LET w == Enqueue(queue[c], c, entry(c))
               IN  \A i \in DOMAIN w : ~w[i].designated
    BY <1>1, <2>2, <2>3, <2>4, <2>5, EnqueueIs DEF Designates
  <2>6. ASSUME NEW c \in Cells, NEW i \in DOMAIN queue'[c] PROVE ~queue'[c][i].designated
    BY <1>1, <2>1, <2>5, <2>6 DEF Designates
  <2> QED BY <2>6 DEF Designates
<1> QED BY <1>2, <1>3 DEF ScopeInv, OwnedHistory, Ids, Unmixed, Designates

LEMMA NavigateScope ==
    ASSUME ScopeInv, NEW s, Navigate(s), SameTurns(manager, s.manager)
    PROVE  ScopeInv'
<1>1. manager' = s.manager /\ queue' = queue
  BY DEF Navigate
<1> QED BY <1>1 DEF SameTurns, ScopeInv, OwnedHistory, Ids, Unmixed, Designates, Realizes

LEMMA ResetScope ==
    ASSUME ScopeInv, Reset
    PROVE  ScopeInv'
<1>1. queue' = queue /\ manager' = ResetRestorationHistory(manager, Retired)
  BY DEF Reset
<1>2. manager'.history = EmptyMap /\ manager'.pendingTurns = EmptyMap
  BY <1>1, ResetOK
<1> QED BY <1>1, <1>2, EmptyMapDomain
        DEF ScopeInv, OwnedHistory, Ids, Unmixed, Designates, Realizes

LEMMA StepScope ==
    ASSUME HistoryInv, ScopeInv, "mixed_tick" \notin Lets, [Next]_vars
    PROVE  ScopeInv'
<1>1. ASSUME NEW c \in Cells, NEW kind \in WriteKinds, NEW v \in NextValues(c),
             Write(c, v, kind)
      PROVE  ScopeInv'
  BY <1>1, WriteScope
<1>2. CASE Flush
  BY <1>2, FlushScope
<1>3. ASSUME NEW writes \in TransactedWrites, NEW designated \in BOOLEAN,
             Transact(writes, designated)
      PROVE  ScopeInv'
  BY <1>3, TransactScope
<1>4. ASSUME NEW id \in DOMAIN transactions, Confirm(id) \/ Rollback(id)
      PROVE  ScopeInv'
  BY <1>4, ConfirmScope, RollbackScope
<1>5. ASSUME NEW scope \in Scopes, Undo(scope) \/ Redo(scope)
      PROVE  ScopeInv'
  BY <1>5, UndoIs, RedoIs, NavigateScope
<1>6. ASSUME NEW index \in 0 .. (MaxHistory - 1), Jump(index)
      PROVE  ScopeInv'
  BY <1>6, JumpIs, NavigateScope
<1>7. CASE Reset
  BY <1>7, ResetScope
<1>8. CASE UNCHANGED vars
  BY <1>8 DEF vars, ScopeInv, OwnedHistory, Ids, Unmixed, Designates, Realizes
<1> QED BY <1>1, <1>2, <1>3, <1>4, <1>5, <1>6, <1>7, <1>8 DEF Next

LEMMA InitScope == Init => ScopeInv
<1>1. SUFFICES ASSUME Init PROVE ScopeInv
  OBVIOUS
<1>2. queue = EmptyQueue /\ manager = InitialManager
  BY <1>1 DEF Init
<1>3. ~Designates(queue)
  BY <1>2, EmptyQueueIs
<1> QED BY <1>2, <1>3, InitialFrame, EmptyMapDomain
        DEF ScopeInv, OwnedHistory, Ids, Unmixed

LEMMA TouchedIsContained ==
    ASSUME NEW m, ManagerOK(m), OwnedHistory(m), NEW C, NEW scope,
           C \subseteq Ids(m), \A t \in C : m.indexed[t].positions \subseteq scope
    PROVE  \A c \in Touched(m, C) : Owner[c] \in scope
<1>1. m.indexed = m.history
  BY DEF ManagerOK, Indexed
<1> QED BY <1>1 DEF Touched, Touching, OwnedHistory, OwnEffects

(* What undo and redo at a scope may change, as one step.                  *)
Strays(scope) ==
    \E c \in Cells :
        /\ visible'[c] # visible[c]
        /\ \/ ~manager.temporal /\ Owner[c] \notin scope
           \/ \E id \in DOMAIN transactions : transactions[id].watched /\
                c \in DOMAIN transactions[id].effects

LEMMA NavigatesInScope ==
    ASSUME HistoryInv, ScopeInv, NEW scope \in Scopes, Undo(scope) \/ Redo(scope)
    PROVE  ~Strays(scope)
<1>1. ManagerOK(manager) /\ OwnedHistory(manager) /\ scope \subseteq Positions
  BY ScopesAssumption DEF HistoryInv, ScopeInv
<1>2. CASE Undo(scope)
  <2>1. PICK C : C = ResolvedUndo(manager, scope)
    OBVIOUS
  <2>2. PICK r : r = UndoAt(Now, scope)
    OBVIOUS
  <2>3. C # {}
    BY <1>2, <2>1 DEF Undo
  <2>4. C \subseteq Applied(manager) /\ \A t \in C : manager.indexed[t].positions \subseteq scope
    BY <1>1, <2>1, <2>3, ResolvedUndoIs
  <2>5. C \subseteq Ids(manager)
    BY <2>4 DEF Applied
  <2>6. \A c \in Touched(manager, C) : Owner[c] \in scope
    BY <1>1, <2>4, <2>5, TouchedIsContained
  <2>7. /\ visible' = r.visible /\ Now.visible = visible
        /\ ChangesOnly(Now, r, Reach(manager))
        /\ ~manager.temporal => ChangesOnly(Now, r, Touched(manager, C))
    BY <1>2, <2>1, <2>2, UndoIs, NowIs DEF Navigate
  <2> QED BY <2>6, <2>7 DEF ChangesOnly, Strays
<1>3. CASE Redo(scope)
  <2>1. PICK C : C = ResolvedRedo(manager, scope)
    OBVIOUS
  <2>2. PICK r : r = RedoAt(Now, scope)
    OBVIOUS
  <2>3. C # {}
    BY <1>3, <2>1 DEF Redo
  <2>4. C \subseteq Ids(manager) /\ \A t \in C : manager.indexed[t].positions \subseteq scope
    BY <1>1, <2>1, <2>3, ResolvedRedoIs
  <2>6. \A c \in Touched(manager, C) : Owner[c] \in scope
    BY <1>1, <2>4, TouchedIsContained
  <2>7. /\ visible' = r.visible /\ Now.visible = visible
        /\ ChangesOnly(Now, r, Reach(manager))
        /\ ~manager.temporal => ChangesOnly(Now, r, Touched(manager, C))
    BY <1>3, <2>1, <2>2, RedoIs, NowIs DEF Navigate
  <2> QED BY <2>6, <2>7 DEF ChangesOnly, Strays
<1> QED BY <1>2, <1>3

(* Undo and redo at a scope stay in it and out of every pending            *)
(* transaction, unless a tick mixed realized with designated work.         *)
THEOREM ScopesContain ==
    ASSUME "mixed_tick" \notin Lets
    PROVE  Spec => ScopeContainment
<1>1. Init => ScopeInv
  BY InitScope
<1>2. HistoryInv /\ ScopeInv /\ [Next]_vars => ScopeInv'
  BY StepScope
<1>3. HistoryInv /\ ScopeInv /\ [Next]_vars =>
        [\A scope \in Scopes : Strays(scope) => ~(Undo(scope) \/ Redo(scope))]_vars
  BY NavigatesInScope
<1>4. (Spec => [][\A scope \in Scopes : Strays(scope) => ~(Undo(scope) \/ Redo(scope))]_vars)
        => (Spec => ScopeContainment)
  BY DEF Strays, ScopeContainment
<1> QED BY <1>1, <1>2, <1>3, <1>4, HistoryInvariant, PTL DEF Spec

-----------------------------------------------------------------------------
(* The rows that the history names are kept restorable.  A row that is     *)
(* gone is let go when the last claim on it is released, and claims are    *)
(* released by truncation, eviction, reset and by the confirmation of a    *)
(* transaction; a turn that names the row may be on its way into the       *)
(* history at the time.                                                    *)

(* What the manager lets go                                                *)

Names(m, r) == \E t \in Ids(m) : r \in m.history[t].subjects

Kept(m) == \A t \in Ids(m) : m.history[t].subjects \cap m.forgotten = {}

(* The row is named by a turn that the next insertion may discard.         *)
Discards(m, r) ==
    \E t \in Ids(m) : /\ r \in m.history[t].subjects
                      /\ ~(TurnApplied(m, t) /\ Shown(m, t))

LetsGo(m, b, r) == r \in b.forgotten /\ r \notin m.forgotten

LEMMA ReleaseForgets ==
    ASSUME NEW m, DOMAIN m = Fields, NEW ids, NEW retired, NEW r
    PROVE  r \in ReleaseRetained(m, ids, retired).forgotten <=>
            \/ r \in m.forgotten
            \/ /\ r \in retired
               /\ \E t \in ids \cap DOMAIN m.claims : r \in m.claims[t]
               /\ \A t \in DOMAIN m.claims \ ids : r \notin m.claims[t]
<1> DEFINE claims == Without(m.claims, ids)
           held == UNION {claims[t] : t \in DOMAIN claims}
           named == UNION {m.claims[t] : t \in ids \cap DOMAIN m.claims}
<1>1. ReleaseRetained(m, ids, retired).forgotten =
            m.forgotten \cup ((named \ held) \cap retired)
  BY DEF ReleaseRetained, Fields
<1>2. r \in named <=> \E t \in ids \cap DOMAIN m.claims : r \in m.claims[t]
  OBVIOUS
<1>3. r \in held <=> \E t \in DOMAIN m.claims \ ids : r \in m.claims[t]
  BY DEF Without
<1> HIDE DEF named, held
<1> QED BY <1>1, <1>2, <1>3

(* Letting turns go lets go of rows that only they named.                  *)
LEMMA DropForgets ==
    ASSUME NEW m, NEW ids, NEW retired, Turned(m), Claimed(m), NEW r
    PROVE  LET b == Drop(m, ids, retired)
           IN  /\ r \in m.forgotten => r \in b.forgotten
               /\ LetsGo(m, b, r) =>
                    /\ r \in retired /\ ~Names(b, r)
                    /\ \E t \in Ids(m) \cap ids : r \in m.history[t].subjects
<1> DEFINE n == [m EXCEPT !.history = Without(@, ids)]
           b == Drop(m, ids, retired)
<1>1. DOMAIN m = Fields /\ DOMAIN m.claims = Ids(m)
      /\ \A t \in Ids(m) : m.claims[t] = m.history[t].subjects
  BY DEF Turned, Claimed
<1>2. DOMAIN n = Fields /\ n.claims = m.claims /\ n.forgotten = m.forgotten
  BY <1>1 DEF Fields
<1> HIDE DEF n
<1>3. b = ReleaseRetained(n, ids, retired)
  BY DEF Drop, n
<1>4. r \in b.forgotten <=>
        \/ r \in m.forgotten
        \/ /\ r \in retired
           /\ \E t \in ids \cap Ids(m) : r \in m.history[t].subjects
           /\ \A t \in Ids(m) \ ids : r \notin m.history[t].subjects
  BY <1>1, <1>2, <1>3, ReleaseForgets
<1>5. /\ Ids(b) = Ids(m) \ ids /\ \A t \in Ids(b) : b.history[t] = m.history[t]
  BY DropKeeps
<1> HIDE DEF b
<1> QED BY <1>4, <1>5 DEF LetsGo, Names, b

LEMMA RankBelow ==
    ASSUME NEW ids, IsFiniteSet(ids), NEW t \in ids, ids \subseteq Int
    PROVE  HistoryIndex(ids, t) \in Nat /\ HistoryIndex(ids, t) <= Cardinality(ids) - 1
<1> DEFINE below == {u \in ids : u < t}
<1>1. below \in SUBSET (ids \ {t})
  OBVIOUS
<1>2. IsFiniteSet(ids \ {t}) /\ Cardinality(ids \ {t}) = Cardinality(ids) - 1
  BY FS_RemoveElement
<1>3. IsFiniteSet(below) /\ Cardinality(below) <= Cardinality(ids \ {t})
  BY <1>1, <1>2, FS_Subset
<1>4. Cardinality(below) \in Nat
  BY <1>3, FS_CardinalityType
<1> QED BY <1>2, <1>3, <1>4 DEF HistoryIndex

LEMMA TruncateForgets ==
    ASSUME NEW m, NEW retired, ManagerOK(m), NEW r
    PROVE  LET b == TruncateScopedRedoFuture(m, retired)
           IN  /\ r \in m.forgotten => r \in b.forgotten
               /\ LetsGo(m, b, r) => r \in retired /\ ~Names(b, r) /\ Discards(m, r)
               /\ b.currentIndex = Cardinality(Ids(b)) - 1
<1> DEFINE gone == {t \in Ids(m) : m.history[t].positions # {}
                            /\ \A p \in Positions : t \notin m.below[p]}
           d == Drop(m, gone, retired)
           e == [d EXCEPT !.currentIndex = Cardinality(Ids(d)) - 1]
           b == TruncateScopedRedoFuture(m, retired)
<1>1. b = RebuildTurnIndexes(e)
  BY DEF TruncateScopedRedoFuture, Drop
<1>2. Turned(m) /\ Claimed(m) /\ DOMAIN m = Fields
  BY DEF ManagerOK, Turned
<1>3. \A t \in gone : t \in Ids(m) /\ ~TurnApplied(m, t)
  BY AppliedEverywhere
<1> HIDE DEF gone
<1>4. DOMAIN d = Fields
  BY <1>2, DropFrame
<1>5. /\ r \in m.forgotten => r \in d.forgotten
      /\ LetsGo(m, d, r) =>
            /\ r \in retired /\ ~Names(d, r)
            /\ \E t \in Ids(m) \cap gone : r \in m.history[t].subjects
  BY <1>2, DropForgets
<1> HIDE DEF d
<1>6. /\ DOMAIN e = Fields /\ e.history = d.history /\ e.forgotten = d.forgotten
      /\ e.currentIndex = Cardinality(Ids(d)) - 1
  BY <1>4 DEF Fields
<1> HIDE DEF e
<1>7. /\ b.history = d.history /\ b.forgotten = d.forgotten
      /\ b.currentIndex = Cardinality(Ids(d)) - 1
  BY <1>1, <1>6, RebuildFrame
<1> HIDE DEF b
<1>8. Ids(b) = Ids(d) /\ (LetsGo(m, b, r) => LetsGo(m, d, r)) /\ (Names(b, r) => Names(d, r))
  BY <1>7 DEF Ids, LetsGo, Names
<1>9. LetsGo(m, b, r) => r \in retired /\ ~Names(b, r) /\ Discards(m, r)
  BY <1>3, <1>5, <1>8 DEF Discards
<1> QED BY <1>5, <1>7, <1>8, <1>9 DEF b

(* Before an insertion only rows named by discarded turns are let go.      *)
LEMMA PrepareForgets ==
    ASSUME NEW m, NEW retired, ManagerOK(m), NEW r
    PROVE  LET b == PrepareConfirmedInsertion(m, retired)
           IN  /\ r \in m.forgotten => r \in b.forgotten
               /\ LetsGo(m, b, r) => r \in retired /\ ~Names(b, r) /\ Discards(m, r)
<1> DEFINE a == IF HasScopedRedoFuture(m) THEN TruncateScopedRedoFuture(m, retired)
                                          ELSE m
           undone == {t \in Ids(a) : HistoryIndex(Ids(a), t) > a.currentIndex}
           b == PrepareConfirmedInsertion(m, retired)
<1>1. b = IF a.temporal THEN Drop(a, undone, retired) ELSE a
  BY DEF PrepareConfirmedInsertion, Drop
<1>2. CASE HasScopedRedoFuture(m)
  <2>1. a = TruncateScopedRedoFuture(m, retired)
    BY <1>2
  <2> HIDE DEF a
  <2>2. Turned(a) /\ Claimed(a) /\ \A t \in Ids(a) : a.history[t] = m.history[t]
    BY <2>1, TruncateSettles
  <2>3. /\ r \in m.forgotten => r \in a.forgotten
        /\ LetsGo(m, a, r) => r \in retired /\ ~Names(a, r) /\ Discards(m, r)
        /\ a.currentIndex = Cardinality(Ids(a)) - 1
    BY <2>1, TruncateForgets
  <2>4. undone = {}
    <3>1. IsFiniteSet(Ids(a)) /\ Ids(a) \subseteq Int /\ Cardinality(Ids(a)) \in Nat
      BY <2>2, IdsAreFinite
    <3>2. \A t \in Ids(a) : /\ HistoryIndex(Ids(a), t) \in Nat
                            /\ HistoryIndex(Ids(a), t) <= Cardinality(Ids(a)) - 1
      BY <3>1, RankBelow
    <3> QED BY <2>3, <3>1, <3>2
  <2> HIDE DEF undone, b
  <2>5. CASE ~a.temporal
    BY <1>1, <2>3, <2>5 DEF b
  <2>6. CASE a.temporal
    <3>1. b = Drop(a, undone, retired)
      BY <1>1, <2>6
    <3>2. /\ r \in a.forgotten => r \in b.forgotten
          /\ LetsGo(a, b, r) => \E t \in Ids(a) \cap undone : r \in a.history[t].subjects
      BY <2>2, <3>1, DropForgets
    <3>3. Ids(b) = Ids(a) \ undone /\ \A t \in Ids(b) : b.history[t] = a.history[t]
      BY <2>2, <3>1, DropKeeps
    <3>4. ~LetsGo(a, b, r) /\ (Names(b, r) => Names(a, r))
      BY <2>4, <3>2, <3>3 DEF Names
    <3> QED BY <2>3, <3>2, <3>4 DEF LetsGo, b
  <2> QED BY <2>5, <2>6
<1>3. CASE ~HasScopedRedoFuture(m)
  <2>1. a = m /\ Turned(m) /\ Claimed(m)
    BY <1>3 DEF ManagerOK
  <2>2. \A t \in undone : m.temporal => ~Shown(m, t)
    <3>1. /\ IsFiniteSet(Ids(m)) /\ Ids(m) \subseteq Int
          /\ m.currentIndex \in Int
      BY <2>1, IdsAreFinite DEF ManagerOK, Bounded
    <3>2. \A t \in Ids(m) : HistoryIndex(Ids(m), t) \in Nat
      BY <3>1, RankBelow
    <3> QED BY <2>1, <3>1, <3>2 DEF Shown
  <2> HIDE DEF a, undone, b
  <2>3. CASE ~m.temporal
    BY <1>1, <2>1, <2>3 DEF LetsGo, b
  <2>4. CASE m.temporal
    <3>1. b = Drop(m, undone, retired)
      BY <1>1, <2>1, <2>4
    <3>2. /\ r \in m.forgotten => r \in b.forgotten
          /\ LetsGo(m, b, r) => /\ r \in retired /\ ~Names(b, r)
                                /\ \E t \in Ids(m) \cap undone : r \in m.history[t].subjects
      BY <2>1, <3>1, DropForgets
    <3> QED BY <2>2, <2>4, <3>2 DEF Discards, b
  <2> QED BY <2>3, <2>4
<1> QED BY <1>2, <1>3

(* Retaining a turn and then evicting lets go of no row a retained turn     *)
(* still names.                                                            *)
LEMMA InsertForgets ==
    ASSUME NEW m, NEW id \in 1 .. (m.nextTurnId - 1), NEW turn, NEW retired,
           Turned(m), Claimed(m), Settled(m), IsTurn(turn),
           Cardinality(Ids(m)) <= MaxHistory, MaxHistory > 0, NEW r
    PROVE  LET b == InsertConfirmedTurn(m, id, turn, retired)
           IN  /\ r \in m.forgotten => r \in b.forgotten
               /\ LetsGo(m, b, r) => r \in retired /\ ~Names(b, r)
<1> DEFINE i == [m EXCEPT !.history = SetKey(@, id, turn),
                          !.claims = SetKey(@, id, turn.subjects),
                          !.temporal = FALSE]
           evicted == IF Cardinality(Ids(i)) > MaxHistory THEN {Min(Ids(i))} ELSE {}
           d == Drop(i, evicted, retired)
           e == [d EXCEPT !.currentIndex = Cardinality(Ids(d)) - 1]
           b == InsertConfirmedTurn(m, id, turn, retired)
<1>1. b = RebuildTurnIndexes(e)
  BY DEF InsertConfirmedTurn, Drop
<1>2. /\ DOMAIN m = Fields /\ m.nextTurnId \in Nat \ {0}
      /\ Ids(m) \subseteq 1 .. (m.nextTurnId - 1) /\ id \in Nat \ {0}
  BY DEF Turned
<1>3. /\ DOMAIN i = Fields /\ i.history = SetKey(m.history, id, turn)
      /\ i.claims = SetKey(m.claims, id, turn.subjects)
      /\ i.pendingTurns = m.pendingTurns /\ i.nextTurnId = m.nextTurnId
      /\ i.temporal = FALSE /\ i.forgotten = m.forgotten
  BY <1>2 DEF Fields
<1> HIDE DEF i
<1>4. /\ Ids(i) = Ids(m) \cup {id} /\ i.history[id] = turn
      /\ \A t \in Ids(m) \ {id} : i.history[t] = m.history[t]
  BY <1>3 DEF Ids, SetKey
<1>5. Turned(i)
  <2>1. i.temporal \in BOOLEAN
    BY <1>3, Zenon
  <2>2. \A t \in Ids(i) : IsTurn(i.history[t])
    BY <1>4 DEF Turned
  <2> QED BY <1>2, <1>3, <1>4, <2>1, <2>2 DEF Turned
<1>6. Claimed(i)
  BY <1>3, <1>4 DEF Claimed, SetKey, Ids
<1> HIDE DEF evicted
<1>7. /\ r \in i.forgotten => r \in d.forgotten
      /\ LetsGo(i, d, r) => r \in retired /\ ~Names(d, r)
  BY <1>5, <1>6, DropForgets
<1>8. DOMAIN d = Fields
  BY <1>3, DropFrame
<1> HIDE DEF d
<1>9. DOMAIN e = Fields /\ e.history = d.history /\ e.forgotten = d.forgotten
  BY <1>8 DEF Fields
<1> HIDE DEF e
<1>10. b.history = d.history /\ b.forgotten = d.forgotten
  BY <1>1, <1>9, RebuildFrame
<1> HIDE DEF b
<1> QED BY <1>3, <1>7, <1>10 DEF LetsGo, Names, Ids, b

(* A turn is admitted to what is left of the history, which then still     *)
(* names only rows that are kept.                                          *)
LEMMA AdmittedKeeps ==
    ASSUME NEW m, NEW n, NEW id, NEW turn, NEW retired, ManagerOK(m), Kept(m),
           n.history = PrepareConfirmedInsertion(m, retired).history,
           n.forgotten = PrepareConfirmedInsertion(m, retired).forgotten,
           id \in 1 .. (n.nextTurnId - 1), Turned(n), Claimed(n), Settled(n),
           IsTurn(turn), Cardinality(Ids(n)) <= MaxHistory, MaxHistory > 0,
           turn.subjects \cap m.forgotten = {},
           \A r \in turn.subjects \cap retired : ~Discards(m, r)
    PROVE  LET b == InsertConfirmedTurn(n, id, turn, retired)
           IN  Kept(b) /\ \A r \in b.forgotten : r \in m.forgotten \/ r \in retired
<1> DEFINE p == PrepareConfirmedInsertion(m, retired)
           b == InsertConfirmedTurn(n, id, turn, retired)
<1>1. /\ Ids(p) \subseteq Ids(m) /\ \A t \in Ids(p) : p.history[t] = m.history[t]
  BY PrepareSettles
<1>2. ASSUME NEW r
      PROVE  /\ LetsGo(m, p, r) => r \in retired /\ ~Names(p, r) /\ Discards(m, r)
             /\ LetsGo(n, b, r) => r \in retired /\ ~Names(b, r)
  BY PrepareForgets, InsertForgets
<1>3. \A t \in Ids(b) : b.history[t] = IF t = id THEN turn ELSE n.history[t]
  BY InsertAdmits
<1>4. Ids(b) \subseteq Ids(n) \cup {id}
  BY InsertAdmits
<1> HIDE DEF p, b
<1>5. Ids(n) = Ids(p) /\ n.history = p.history /\ n.forgotten = p.forgotten
  BY DEF Ids, p
<1>6. Kept(n)
  BY <1>1, <1>2, <1>5 DEF Kept, LetsGo, Names
<1>7. turn.subjects \cap n.forgotten = {}
  BY <1>2, <1>5 DEF LetsGo
<1>8. ASSUME NEW t \in Ids(b), NEW r \in b.history[t].subjects, r \in b.forgotten
      PROVE  FALSE
  <2>1. CASE r \in n.forgotten
    BY <1>3, <1>4, <1>6, <1>7, <1>8, <2>1 DEF Kept
  <2>2. CASE r \notin n.forgotten
    BY <1>2, <1>8, <2>2 DEF LetsGo, Names
  <2> QED BY <2>1, <2>2
<1>9. \A r \in b.forgotten : r \in m.forgotten \/ r \in retired
  BY <1>2, <1>5 DEF LetsGo
<1> QED BY <1>8, <1>9 DEF Kept, b

LEMMA AddEntryForgets ==
    ASSUME NEW m, NEW turn, NEW retired, ManagerOK(m), Kept(m), IsTurn(turn),
           MaxHistory > 0, turn.subjects \cap m.forgotten = {},
           \A r \in turn.subjects \cap retired : ~Discards(m, r)
    PROVE  LET b == AddEntry(m, turn, retired)
           IN  Kept(b) /\ \A r \in b.forgotten : r \in m.forgotten \/ r \in retired
<1> DEFINE p == PrepareConfirmedInsertion(m, retired)
           n == [p EXCEPT !.nextTurnId = @ + 1]
           b == AddEntry(m, turn, retired)
<1> PICK id : id = m.nextTurnId
  OBVIOUS
<1>1. /\ Turned(p) /\ Claimed(p) /\ Settled(p) /\ Ids(p) \subseteq Ids(m)
      /\ Cardinality(Ids(p)) <= Cardinality(Ids(m))
      /\ p.pendingTurns = m.pendingTurns /\ p.nextTurnId = id
  BY PrepareSettles
<1>2. b = InsertConfirmedTurn(n, id, turn, retired)
  BY <1>1 DEF AddEntry
<1>3. /\ Turned(m) /\ Bounded(m) /\ Cardinality(Ids(m)) \in Nat
      /\ Cardinality(Ids(p)) \in Nat /\ MaxHistory \in Nat
      /\ id \in Nat \ {0} /\ Ids(m) \cup DOMAIN m.pendingTurns \subseteq 1 .. (id - 1)
  BY <1>1, IdsAreFinite, BoundsAssumption DEF ManagerOK, Turned
<1> HIDE DEF p
<1>4. /\ DOMAIN n = Fields /\ n.history = p.history /\ n.indexed = p.indexed
      /\ n.pendingTurns = p.pendingTurns /\ n.below = p.below /\ n.claims = p.claims
      /\ n.temporal = p.temporal /\ n.nextTurnId = id + 1 /\ n.forgotten = p.forgotten
  BY <1>1 DEF Turned, Fields
<1> HIDE DEF n
<1>5. Turned(n) /\ Claimed(n) /\ Settled(n) /\ Ids(n) = Ids(p)
  BY <1>1, <1>3, <1>4 DEF Turned, Claimed, Settled, Ids
<1>6. Cardinality(Ids(n)) <= MaxHistory
  BY <1>1, <1>3, <1>5 DEF Bounded
<1>7. id \in 1 .. (n.nextTurnId - 1)
  BY <1>3, <1>4
<1> HIDE DEF b
<1>8. Kept(b) /\ \A r \in b.forgotten : r \in m.forgotten \/ r \in retired
  BY <1>2, <1>4, <1>5, <1>6, <1>7, AdmittedKeeps DEF p
<1> QED BY <1>8 DEF b

LEMMA ConfirmPendingForgets ==
    ASSUME NEW m, NEW id \in DOMAIN m.pendingTurns, NEW retired, ManagerOK(m), Kept(m),
           MaxHistory > 0, m.pendingTurns[id].subjects \cap m.forgotten = {},
           \A r \in m.pendingTurns[id].subjects \cap retired : ~Discards(m, r)
    PROVE  LET b == ConfirmPendingTurn(m, id, retired)
           IN  Kept(b) /\ \A r \in b.forgotten : r \in m.forgotten \/ r \in retired
<1> DEFINE p == PrepareConfirmedInsertion(m, retired)
           turn == m.pendingTurns[id]
           c == InsertConfirmedTurn(p, id, turn, retired)
           b == ConfirmPendingTurn(m, id, retired)
<1>1. /\ Turned(p) /\ Claimed(p) /\ Settled(p) /\ Ids(p) \subseteq Ids(m)
      /\ Cardinality(Ids(p)) <= Cardinality(Ids(m))
      /\ p.pendingTurns = m.pendingTurns /\ p.nextTurnId = m.nextTurnId
  BY PrepareSettles
<1>2. b = [c EXCEPT !.pendingTurns = Without(@, {id})]
  BY DEF ConfirmPendingTurn
<1>3. /\ Turned(m) /\ Bounded(m) /\ IsTurn(turn)
      /\ id \in 1 .. (p.nextTurnId - 1)
      /\ Cardinality(Ids(p)) <= MaxHistory
  <2>1. Turned(m) /\ Bounded(m) /\ MaxHistory \in Nat
    BY BoundsAssumption DEF ManagerOK
  <2>2. Cardinality(Ids(m)) \in Nat /\ Cardinality(Ids(p)) \in Nat
    BY <1>1, <2>1, IdsAreFinite
  <2> QED BY <1>1, <2>1, <2>2 DEF Turned, Bounded
<1>4. Kept(c) /\ \A r \in c.forgotten : r \in m.forgotten \/ r \in retired
  BY <1>1, <1>3, AdmittedKeeps
<1>5. DOMAIN c = Fields
  BY <1>1, <1>3, InsertAdmits DEF Turned
<1> HIDE DEF c
<1>6. b.history = c.history /\ b.forgotten = c.forgotten
  BY <1>2, <1>5 DEF Fields
<1> HIDE DEF b
<1> QED BY <1>4, <1>6 DEF Kept, Ids, b

-----------------------------------------------------------------------------
(* The subjects of turns, and the rows that were let go                    *)

Ordinary == {"mixed_tick", "reremoval", "undo_over_queue"} \cap Lets = {}

NamesItsRows(turn) == DOMAIN turn.effects \cap Rows \subseteq turn.subjects

HistoryNames(m) ==
    /\ \A t \in Ids(m) : NamesItsRows(m.history[t])
    /\ \A t \in DOMAIN m.pendingTurns : NamesItsRows(m.pendingTurns[t])

(* A row that was let go is gone for good: nothing is about to write it.   *)
LetGoIsGone ==
    \A r \in manager.forgotten :
        /\ r \in Rows /\ visible[r] = "gone" /\ queue[r] = <<>>
        /\ \A id \in DOMAIN transactions : r \notin DOMAIN transactions[id].effects

(* A pending turn names rows that its transaction claims.                  *)
PendingIsClaimed ==
    \A t \in DOMAIN manager.pendingTurns : \E id \in DOMAIN transactions :
        /\ transactions[id].turn = t
        /\ manager.pendingTurns[t].subjects \subseteq DOMAIN transactions[id].effects

(* What waits to become a turn is named by no turn it would discard.       *)
WaitingIsRetained ==
    Designates(queue) => \A r \in Rows : queue[r] # <<>> => ~NamedByDiscarded(r)

OnlyAuthoredDesignate ==
    \A c \in Cells : \A i \in DOMAIN queue[c] :
        queue[c][i].designated => queue[c][i].class = "authored"

SubjectsInv ==
    /\ Kept(manager) /\ HistoryNames(manager)
    /\ LetGoIsGone /\ PendingIsClaimed /\ WaitingIsRetained /\ OnlyAuthoredDesignate

LEMMA CapturedSubjects ==
    ASSUME Unmixed, TickDesignated, QueueTyped
    PROVE  /\ NamesItsRows(CapturedTurn)
           /\ \A r \in CapturedTurn.subjects : r \in Rows /\ queue[r] # <<>>
<1>1. \A c \in Cells : \A i \in DOMAIN queue[c] : queue[c][i].class = "authored"
  <2>1. Designates(queue)
    BY DEF TickDesignated, Designates, AuthoredCells, Delivered
  <2> QED BY <2>1 DEF Unmixed, Realizes
<1>2. \A c \in DOMAIN FlushedEffects : c \in AuthoredCells
  BY <1>1, FlushedEffectsAreDelivered DEF AuthoredCells, Delivered
<1>3. /\ CapturedTurn.effects = FlushedEffects
      /\ CapturedTurn.subjects = (IF AuthoredCells \cap Rows # {} THEN AuthoredCells
                                                 ELSE DOMAIN FlushedEffects) \cap Rows
  BY DEF CapturedTurn
<1>4. \A r \in AuthoredCells : queue[r] # <<>>
  <2>1. ASSUME NEW r \in AuthoredCells PROVE queue[r] # <<>>
    <3>1. \E i \in DOMAIN queue[r] : TRUE
      BY <2>1 DEF AuthoredCells, Delivered
    <3> QED BY <3>1
  <2> QED BY <2>1
<1> QED BY <1>2, <1>3, <1>4 DEF NamesItsRows

(* A flush lets go only of rows that are gone and unclaimed.               *)
LEMMA FlushedKeeps ==
    ASSUME HistoryInv, ScopeInv, SubjectsInv
    PROVE  /\ Kept(Flushed.manager) /\ HistoryNames(Flushed.manager)
           /\ \A r \in Flushed.manager.forgotten : r \in manager.forgotten \/ r \in Retired
           /\ Flushed.manager.pendingTurns = manager.pendingTurns
<1>1. QueueTyped /\ ManagerOK(manager) /\ loose \subseteq Cells
      /\ Kept(manager) /\ HistoryNames(manager)
  BY DEF HistoryInv, StateTyped, SubjectsInv
<1>2. CASE ~Recorded
  BY <1>1, <1>2, FlushedIs
<1>3. CASE Recorded
  <2>1. TickDesignated /\ MaxHistory > 0 /\ Designates(queue) /\ IsTurn(CapturedTurn)
    <3>1. TickDesignated /\ MaxHistory > 0
      BY <1>3 DEF Recorded
    <3> QED BY <1>1, <3>1, CapturedTurnIs
            DEF TickDesignated, Designates, AuthoredCells, Delivered
  <2>2. /\ NamesItsRows(CapturedTurn)
        /\ \A r \in CapturedTurn.subjects : r \in Rows /\ queue[r] # <<>>
    BY <1>1, <2>1, CapturedSubjects DEF ScopeInv
  <2>3. CapturedTurn.subjects \cap manager.forgotten = {}
    BY <2>2 DEF SubjectsInv, LetGoIsGone
  <2>4. \A r \in CapturedTurn.subjects : ~Discards(manager, r)
    BY <2>1, <2>2 DEF SubjectsInv, WaitingIsRetained, NamedByDiscarded, Discards
  <2>5. PICK b : b = AddEntry(manager, CapturedTurn, Retired)
    OBVIOUS
  <2>6. Flushed.manager = b
    BY <1>1, <1>3, <2>5, FlushedIs
  <2>7. Kept(b) /\ \A r \in b.forgotten : r \in manager.forgotten \/ r \in Retired
    BY <1>1, <2>1, <2>3, <2>4, <2>5, AddEntryForgets
  <2>8. /\ b.pendingTurns = manager.pendingTurns
        /\ \A t \in Ids(b) : b.history[t] \in {CapturedTurn} \cup RetainedTurns(manager)
    BY <1>1, <2>1, <2>5, AddEntryOK
  <2>9. HistoryNames(b)
    BY <1>1, <2>2, <2>8 DEF HistoryNames, RetainedTurns
  <2> QED BY <2>6, <2>7, <2>8, <2>9
<1> QED BY <1>2, <1>3

LEMMA EmptyQueueWaits ==
    /\ \A c \in Cells : EmptyQueue[c] = <<>>
    /\ ~Designates(EmptyQueue)
    /\ queue = EmptyQueue => OnlyAuthoredDesignate /\ WaitingIsRetained
<1>1. \A c \in Cells : EmptyQueue[c] = <<>> /\ DOMAIN EmptyQueue[c] = {}
  BY DEF EmptyQueue
<1> QED BY <1>1, EmptyQueueIs DEF OnlyAuthoredDesignate, WaitingIsRetained

LEMMA OverwrittenKeeps ==
    ASSUME NEW cells
    PROVE  LET after == Overwritten(cells)
           IN  /\ DOMAIN after = DOMAIN transactions
               /\ \A id \in DOMAIN transactions :
                    /\ after[id].effects = transactions[id].effects
                    /\ after[id].turn = transactions[id].turn
<1>1. DOMAIN Overwritten(cells) = DOMAIN transactions
  BY DEF Overwritten
<1>2. ASSUME NEW id \in DOMAIN transactions
      PROVE  /\ Overwritten(cells)[id].effects = transactions[id].effects
             /\ Overwritten(cells)[id].turn = transactions[id].turn
  <2> DEFINE tx == transactions[id]
             after == Overwritten(cells)[id]
  <2>1. after = [tx EXCEPT !.later = @ \cup (cells \cap DOMAIN tx.effects)]
    BY DEF Overwritten
  <2> QED BY <2>1
<1> QED BY <1>1, <1>2

LEMMA WriteSubjects ==
    ASSUME HistoryInv, SubjectsInv, Ordinary, NEW c \in Cells, NEW kind \in WriteKinds,
           NEW v \in NextValues(c), Write(c, v, kind)
    PROVE  SubjectsInv'
<1> DEFINE entry == [class |-> IF kind = "realized" THEN kind ELSE "authored",
            designated |-> kind = "designated", promised |-> kind = "designated",
            old |-> visible[c], new |-> v, by |-> 0]
<1>1. /\ manager' = manager /\ visible' = [visible EXCEPT ![c] = v]
      /\ queue' = [queue EXCEPT ![c] = Enqueue(@, c, entry)]
      /\ transactions' = Overwritten({c})
  BY DEF Write
<1>2. entry \in Entry
  BY WriteEntry
<1>3. entry.designated => entry.class = "authored"
  OBVIOUS
<1> HIDE DEF entry
<1>4. queue \in [Cells -> Seq(Entry)] /\ visible \in [Cells -> Endpoint]
  BY DEF HistoryInv, StateTyped, QueueTyped
<1>5. LetGoIsGone'
  <2>1. c \notin manager.forgotten
    BY DEF SubjectsInv, LetGoIsGone, NextValues
  <2>2. \A r \in Rows : r \in Cells
    BY OwnerAssumption
  <2>3. ASSUME NEW id \in DOMAIN transactions'
        PROVE  id \in DOMAIN transactions
               /\ DOMAIN transactions'[id].effects = DOMAIN transactions[id].effects
    BY <1>1, <2>3, OverwrittenKeeps
  <2>4. ASSUME NEW r \in manager.forgotten
        PROVE  r \in Rows /\ visible'[r] = "gone" /\ queue'[r] = <<>>
               /\ \A id \in DOMAIN transactions : r \notin DOMAIN transactions[id].effects
    BY <1>1, <1>4, <2>1, <2>2, <2>4 DEF SubjectsInv, LetGoIsGone
  <2> QED BY <1>1, <2>3, <2>4 DEF LetGoIsGone
<1>6. PendingIsClaimed'
  <2>1. DOMAIN transactions' = DOMAIN transactions
        /\ \A id \in DOMAIN transactions :
            transactions'[id].turn = transactions[id].turn
            /\ transactions'[id].effects = transactions[id].effects
    BY <1>1, OverwrittenKeeps
  <2>2. ASSUME NEW t \in DOMAIN manager.pendingTurns
        PROVE  \E id \in DOMAIN transactions' :
                /\ transactions'[id].turn = t
                /\ manager.pendingTurns[t].subjects \subseteq DOMAIN transactions'[id].effects
    <3>1. PICK id \in DOMAIN transactions :
                /\ transactions[id].turn = t
                /\ manager.pendingTurns[t].subjects \subseteq DOMAIN transactions[id].effects
      BY <2>2 DEF SubjectsInv, PendingIsClaimed
    <3> QED BY <2>1, <3>1
  <2> QED BY <1>1, <2>2 DEF PendingIsClaimed
<1>7. WaitingIsRetained'
  <2>1. Designates(queue') =>
            \A r \in Rows : queue'[r] # <<>> => ~NamedByDiscarded(r)
    BY DEF Write, Unless, Ordinary
  <2> QED BY <1>1, <2>1 DEF WaitingIsRetained, NamedByDiscarded, Designates
<1>8. OnlyAuthoredDesignate'
  <2>1. ASSUME NEW d \in Cells, NEW i \in DOMAIN queue'[d], queue'[d][i].designated
        PROVE  queue'[d][i].class = "authored"
    <3>1. CASE d # c
      BY <1>1, <1>4, <2>1, <3>1 DEF SubjectsInv, OnlyAuthoredDesignate
    <3>2. CASE d = c
      <4>1. queue'[d] = Enqueue(queue[c], c, entry)
        BY <1>1, <1>4, <3>2
      <4>2. \/ i \in DOMAIN queue[c] /\ queue'[d][i] = queue[c][i]
            \/ /\ queue'[d][i].class = entry.class
               /\ queue'[d][i].designated <=> entry.designated
        BY <1>2, <1>4, <2>1, <4>1, EnqueueIs
      <4> QED BY <1>3, <2>1, <4>2 DEF SubjectsInv, OnlyAuthoredDesignate
    <3> QED BY <3>1, <3>2
  <2> QED BY <2>1 DEF OnlyAuthoredDesignate
<1> QED BY <1>1, <1>5, <1>6, <1>7, <1>8
        DEF SubjectsInv, Kept, HistoryNames, Ids

LEMMA FlushSubjects ==
    ASSUME HistoryInv, ScopeInv, SubjectsInv, Flush
    PROVE  SubjectsInv'
<1>1. /\ manager' = Flushed.manager /\ queue' = EmptyQueue /\ visible' = visible
      /\ transactions' = transactions
  BY DEF Flush
<1>2. \A r \in Rows : r \in Cells
  BY OwnerAssumption
<1>3. LetGoIsGone'
  <2>1. ASSUME NEW r \in Flushed.manager.forgotten
        PROVE  r \in Rows /\ visible[r] = "gone"
               /\ \A id \in DOMAIN transactions : r \notin DOMAIN transactions[id].effects
    BY <2>1, FlushedKeeps DEF SubjectsInv, LetGoIsGone, Retired
  <2> QED BY <1>1, <1>2, <2>1, EmptyQueueWaits DEF LetGoIsGone
<1>4. PendingIsClaimed'
  BY <1>1, FlushedKeeps DEF SubjectsInv, PendingIsClaimed
<1>5. OnlyAuthoredDesignate' /\ WaitingIsRetained'
  BY <1>1, EmptyQueueWaits DEF OnlyAuthoredDesignate, WaitingIsRetained, Designates
<1>6. Kept(manager') /\ HistoryNames(manager')
  BY <1>1, FlushedKeeps
<1> QED BY <1>3, <1>4, <1>5, <1>6 DEF SubjectsInv, Kept, HistoryNames, Ids

LEMMA TransactSubjects ==
    ASSUME HistoryInv, ScopeInv, SubjectsInv, NEW writes \in TransactedWrites,
           NEW designated \in BOOLEAN, Transact(writes, designated)
    PROVE  SubjectsInv'
<1> DEFINE cells == DOMAIN writes
           id == opened + 1
           held == designated /\ MaxHistory > 0
           staged == [effects   |-> Effects(writes),
                      turn      |-> IF held THEN Flushed.manager.nextTurnId ELSE 0,
                      watched   |-> TRUE,
                      later     |-> {},
                      wasLoose  |-> cells \cap Flushed.loose,
                      wasServer |-> cells \cap server]
<1>a. manager' = IF held THEN CreatePendingEntry(Flushed.manager, HeldTurn(writes))
                          ELSE Flushed.manager
  BY DEF Transact, HeldTurn, Effects
<1>b. transactions' = SetKey(Overwritten(cells), id, staged)
  BY TransactIs
<1>c. queue' = EmptyQueue /\ visible' = [c \in Cells |-> IF c \in cells THEN writes[c] ELSE visible[c]]
  BY TransactIs
<1>d. \A c \in cells : writes[c] \in NextValues(c)
  BY TransactIs
<1> HIDE DEF staged
<1> PICK f : f = Flushed.manager
  OBVIOUS
<1> PICK turn : turn = HeldTurn(writes)
  OBVIOUS
<1>1. /\ manager' = IF held THEN CreatePendingEntry(f, turn) ELSE f
      /\ queue' = EmptyQueue
      /\ transactions' = SetKey(Overwritten(cells), id, staged)
      /\ visible' = [c \in Cells |-> IF c \in cells THEN writes[c] ELSE visible[c]]
      /\ \A c \in cells : writes[c] \in NextValues(c)
  BY <1>a, <1>b, <1>c, <1>d
<1>2. /\ cells \subseteq Cells /\ IsTurn(turn) /\ DOMAIN Effects(writes) = cells
      /\ ManagerOK(f) /\ Kept(f) /\ HistoryNames(f)
      /\ \A r \in f.forgotten : r \in manager.forgotten \/ r \in Retired
      /\ f.pendingTurns = manager.pendingTurns
  BY <1>1, TransactedWritesAre, HeldTurnIs, FlushedIs, FlushedKeeps
     DEF HistoryInv, StateTyped
<1>3. /\ DOMAIN turn.effects = cells /\ turn.subjects = cells \cap Rows
      /\ NamesItsRows(turn)
  <2>1. turn.effects = Effects(writes) /\ turn.subjects = cells \cap Rows
    BY DEF HeldTurn
  <2> QED BY <1>2, <2>1 DEF NamesItsRows
<1>4. /\ DOMAIN transactions' = DOMAIN transactions \cup {id}
      /\ transactions'[id].turn = IF held THEN f.nextTurnId ELSE 0
      /\ DOMAIN transactions'[id].effects = cells
      /\ \A x \in DOMAIN transactions : x # id =>
            /\ transactions'[x].effects = transactions[x].effects
            /\ transactions'[x].turn = transactions[x].turn
  <2>1. staged.turn = (IF held THEN f.nextTurnId ELSE 0)
        /\ DOMAIN staged.effects = cells
    BY <1>2 DEF staged
  <2> HIDE DEF staged, cells, held
  <2>2. DOMAIN transactions' = DOMAIN Overwritten(cells) \cup {id}
        /\ transactions'[id] = staged
        /\ \A x \in DOMAIN Overwritten(cells) : x # id => transactions'[x] = Overwritten(cells)[x]
    BY <1>1 DEF SetKey
  <2> QED BY <2>1, <2>2, OverwrittenKeeps
<1>5. \A x \in DOMAIN transactions : x # id
  BY DEF HistoryInv, StateTyped
<1>6. \A r \in f.forgotten : r \in Rows /\ visible[r] = "gone" /\ r \notin cells
        /\ \A x \in DOMAIN transactions : r \notin DOMAIN transactions[x].effects
  <2>1. ASSUME NEW r \in f.forgotten
        PROVE  r \in Rows /\ visible[r] = "gone"
               /\ \A x \in DOMAIN transactions : r \notin DOMAIN transactions[x].effects
    BY <1>2, <2>1 DEF SubjectsInv, LetGoIsGone, Retired
  <2> QED BY <1>1, <2>1 DEF NextValues
<1> HIDE DEF staged, cells, id, held
<1>7. PICK n : n = manager'
  OBVIOUS
<1>8. /\ n.history = f.history /\ n.forgotten = f.forgotten
      /\ n.pendingTurns = IF held THEN SetKey(f.pendingTurns, f.nextTurnId, turn)
                                  ELSE f.pendingTurns
  <2>1. CASE held
    <3>1. n = CreatePendingEntry(f, turn)
      BY <1>1, <1>7, <2>1
    <3> QED BY <1>2, <2>1, <3>1, CreatePendingOK
  <2>2. CASE ~held
    BY <1>1, <1>7, <2>2
  <2> QED BY <2>1, <2>2
<1>9. Kept(n)
  BY <1>2, <1>8 DEF Kept, Ids
<1>10. HistoryNames(n)
  <2>1. \A t \in DOMAIN n.pendingTurns : NamesItsRows(n.pendingTurns[t])
    BY <1>2, <1>3, <1>8 DEF HistoryNames, SetKey
  <2> QED BY <1>2, <1>8, <2>1 DEF HistoryNames, Ids
<1>11. LetGoIsGone'
  <2>1. ASSUME NEW r \in f.forgotten
        PROVE  /\ r \in Rows /\ visible'[r] = "gone" /\ queue'[r] = <<>>
               /\ \A x \in DOMAIN transactions' : r \notin DOMAIN transactions'[x].effects
    <3>1. r \in Rows /\ visible[r] = "gone" /\ r \notin cells /\ r \in Cells
      BY <1>6, <2>1, OwnerAssumption
    <3>2. visible'[r] = "gone" /\ queue'[r] = <<>>
      BY <1>1, <3>1, EmptyQueueWaits
    <3>3. \A x \in DOMAIN transactions' : r \notin DOMAIN transactions'[x].effects
      BY <1>4, <1>5, <1>6, <2>1, <3>1
    <3> QED BY <3>1, <3>2, <3>3
  <2> QED BY <1>7, <1>8, <2>1 DEF LetGoIsGone
<1>12. PendingIsClaimed'
  <2>1. ASSUME NEW t \in DOMAIN n.pendingTurns
        PROVE  \E x \in DOMAIN transactions' : /\ transactions'[x].turn = t
                    /\ n.pendingTurns[t].subjects \subseteq DOMAIN transactions'[x].effects
    <3>1. CASE held /\ t = f.nextTurnId
      <4>1. n.pendingTurns[t] = turn
        BY <1>8, <3>1 DEF SetKey
      <4> QED BY <1>3, <1>4, <3>1, <4>1
    <3>2. CASE ~(held /\ t = f.nextTurnId)
      <4>1. t \in DOMAIN manager.pendingTurns
            /\ n.pendingTurns[t] = manager.pendingTurns[t]
        BY <1>2, <1>8, <2>1, <3>2 DEF SetKey
      <4>2. PICK x \in DOMAIN transactions : /\ transactions[x].turn = t
                /\ manager.pendingTurns[t].subjects \subseteq DOMAIN transactions[x].effects
        BY <4>1 DEF SubjectsInv, PendingIsClaimed
      <4> QED BY <1>4, <1>5, <4>1, <4>2
    <3> QED BY <3>1, <3>2
  <2> QED BY <1>7, <2>1 DEF PendingIsClaimed
<1>13. OnlyAuthoredDesignate' /\ WaitingIsRetained'
  BY <1>1, EmptyQueueWaits DEF OnlyAuthoredDesignate, WaitingIsRetained, Designates
<1> QED BY <1>7, <1>9, <1>10, <1>11, <1>12, <1>13 DEF SubjectsInv, Kept, HistoryNames, Ids

LEMMA ConfirmSubjects ==
    ASSUME HistoryInv, SubjectsInv, Ordinary, NEW id \in DOMAIN transactions, Confirm(id)
    PROVE  SubjectsInv'
<1> DEFINE tx == transactions[id]
           left == Without(transactions, {id})
           held == tx.turn \in DOMAIN manager.pendingTurns
           a == IF held THEN ConfirmPendingTurn(manager, tx.turn, Retired) ELSE manager
           claimed == (UNION {a.claims[t] : t \in DOMAIN a.claims})
                   \cup (UNION {DOMAIN left[x].effects : x \in DOMAIN left})
           unclaimed == {r \in Rows \cap DOMAIN tx.effects :
                        visible[r] = "gone" /\ r \notin claimed}
<1>1. /\ manager' = [a EXCEPT !.forgotten = @ \cup unclaimed]
      /\ transactions' = left /\ visible' = visible /\ queue' = queue
      /\ \A r \in Rows : queue[r] = <<>>
  BY DEF Confirm, Unless, Ordinary
<1>2. ManagerOK(manager) /\ Kept(manager) /\ HistoryNames(manager) /\ Minted
  BY DEF HistoryInv, SubjectsInv
<1>3. DOMAIN left = DOMAIN transactions \ {id}
      /\ \A x \in DOMAIN left : left[x] = transactions[x]
  BY DEF Without
<1>4. /\ ManagerOK(a) /\ Kept(a) /\ HistoryNames(a)
      /\ \A r \in a.forgotten : r \in manager.forgotten \/ r \in Retired
      /\ \A t \in DOMAIN a.pendingTurns :
            t \in DOMAIN manager.pendingTurns /\ t # tx.turn
            /\ a.pendingTurns[t] = manager.pendingTurns[t]
  <2>1. CASE held
    <3>1. MaxHistory > 0 /\ a = ConfirmPendingTurn(manager, tx.turn, Retired)
      BY <1>2, <2>1 DEF Minted
    <3> HIDE DEF a
    <3>2. PICK b : b = a
      OBVIOUS
    <3>3. PICK turn : turn = manager.pendingTurns[tx.turn]
      OBVIOUS
    <3>4. PICK x \in DOMAIN transactions : /\ transactions[x].turn = tx.turn
                /\ turn.subjects \subseteq DOMAIN transactions[x].effects
      BY <2>1, <3>3 DEF SubjectsInv, PendingIsClaimed
    <3>5. turn.subjects \cap manager.forgotten = {}
      BY <3>4 DEF SubjectsInv, LetGoIsGone
    <3>6. turn.subjects \cap Retired = {}
      BY <3>4 DEF Retired
    <3>7. Kept(b) /\ \A r \in b.forgotten : r \in manager.forgotten \/ r \in Retired
      BY <1>2, <2>1, <3>1, <3>2, <3>3, <3>5, <3>6, ConfirmPendingForgets
    <3>8. /\ ManagerOK(b) /\ b.pendingTurns = Without(manager.pendingTurns, {tx.turn})
          /\ \A t \in Ids(b) : b.history[t] \in {turn} \cup RetainedTurns(manager)
      BY <1>2, <2>1, <3>1, <3>2, <3>3, ConfirmPendingOK
    <3>9. \A t \in DOMAIN b.pendingTurns :
            t \in DOMAIN manager.pendingTurns /\ t # tx.turn
            /\ b.pendingTurns[t] = manager.pendingTurns[t]
      BY <3>8 DEF Without
    <3>10. NamesItsRows(turn)
      BY <1>2, <2>1, <3>3 DEF HistoryNames
    <3>11. HistoryNames(b)
      BY <1>2, <3>8, <3>9, <3>10 DEF HistoryNames, RetainedTurns
    <3> QED BY <3>2, <3>7, <3>8, <3>9, <3>11
  <2>2. CASE ~held
    <3>1. a = manager
      BY <2>2
    <3> QED BY <1>2, <2>2, <3>1
  <2> QED BY <2>1, <2>2
<1> HIDE DEF a, left, held
<1>5. PICK n : n = manager'
  OBVIOUS
<1>6. /\ n.history = a.history /\ n.pendingTurns = a.pendingTurns
      /\ n.forgotten = a.forgotten \cup unclaimed
  <2>1. DOMAIN a = Fields
    BY <1>4 DEF ManagerOK, Turned
  <2> HIDE DEF unclaimed
  <2> QED BY <1>1, <1>5, <2>1 DEF Fields
<1>7. \A r \in unclaimed :
            /\ r \in Rows /\ visible[r] = "gone"
            /\ \A t \in Ids(a) : r \notin a.history[t].subjects
            /\ \A x \in DOMAIN left : r \notin DOMAIN left[x].effects
  <2>1. DOMAIN a.claims = Ids(a) /\ \A t \in Ids(a) : a.claims[t] = a.history[t].subjects
    BY <1>4 DEF ManagerOK, Claimed
  <2> QED BY <2>1
<1> HIDE DEF unclaimed
<1>8. Kept(n)
  BY <1>4, <1>6, <1>7 DEF Kept, Ids
<1>9. HistoryNames(n)
  BY <1>4, <1>6 DEF HistoryNames, Ids
<1>10. LetGoIsGone'
  <2>1. ASSUME NEW r \in n.forgotten
        PROVE  /\ r \in Rows /\ visible[r] = "gone"
               /\ \A x \in DOMAIN left : r \notin DOMAIN left[x].effects
    <3>1. CASE r \in unclaimed
      BY <1>7, <3>1
    <3>2. CASE r \notin unclaimed
      <4>1. r \in manager.forgotten \/ r \in Retired
        BY <1>4, <1>6, <2>1, <3>2
      <4>2. /\ r \in Rows /\ visible[r] = "gone"
            /\ \A x \in DOMAIN transactions : r \notin DOMAIN transactions[x].effects
        BY <4>1 DEF SubjectsInv, LetGoIsGone, Retired
      <4> QED BY <1>3, <4>2
    <3> QED BY <3>1, <3>2
  <2> QED BY <1>1, <1>5, <2>1 DEF LetGoIsGone
<1>11. PendingIsClaimed'
  <2>1. ASSUME NEW t \in DOMAIN n.pendingTurns
        PROVE  \E x \in DOMAIN left : /\ left[x].turn = t
                    /\ n.pendingTurns[t].subjects \subseteq DOMAIN left[x].effects
    <3>1. /\ t \in DOMAIN manager.pendingTurns /\ t # tx.turn
          /\ n.pendingTurns[t] = manager.pendingTurns[t]
      BY <1>4, <1>6, <2>1
    <3>2. PICK x \in DOMAIN transactions : /\ transactions[x].turn = t
                /\ manager.pendingTurns[t].subjects \subseteq DOMAIN transactions[x].effects
      BY <3>1 DEF SubjectsInv, PendingIsClaimed
    <3> QED BY <1>3, <3>1, <3>2
  <2> QED BY <1>1, <1>5, <2>1 DEF PendingIsClaimed
<1>12. WaitingIsRetained'
  BY <1>1 DEF WaitingIsRetained
<1>13. OnlyAuthoredDesignate'
  BY <1>1 DEF SubjectsInv, OnlyAuthoredDesignate
<1> QED BY <1>5, <1>8, <1>9, <1>10, <1>11, <1>12, <1>13
        DEF SubjectsInv, Kept, HistoryNames, Ids

LEMMA RollbackSubjects ==
    ASSUME HistoryInv, SubjectsInv, Ordinary, NEW id \in DOMAIN transactions, Rollback(id)
    PROVE  SubjectsInv'
<1> DEFINE tx == transactions[id]
           entry(c) == [class |-> "compensation", designated |-> FALSE,
                     promised |-> FALSE, old |-> visible[c],
                     new |-> Installed(c, tx.effects[c].before), by |-> id]
<1>1. /\ manager' = DiscardPendingTurn(manager, tx.turn)
      /\ transactions' = Without(transactions, {id})
      /\ visible' = [c \in Cells |-> IF c \in DOMAIN tx.effects
                            THEN Installed(c, tx.effects[c].before) ELSE visible[c]]
      /\ queue' = [c \in Cells |-> IF c \in DOMAIN tx.effects
                            THEN Enqueue(queue[c], c, entry(c)) ELSE queue[c]]
      /\ ~Designates(queue)
  BY DEF Rollback, Unless, Ordinary
<1>2. /\ ManagerOK(manager) /\ queue \in [Cells -> Seq(Entry)]
      /\ visible \in [Cells -> Endpoint] /\ IsStaged(tx) /\ id \in Nat
  BY DEF HistoryInv, StateTyped, QueueTyped
<1>3. \A c \in Cells \cap DOMAIN tx.effects : entry(c) \in Entry /\ ~entry(c).designated
  <2>1. \A c \in DOMAIN tx.effects : Installed(c, tx.effects[c].before) \in Endpoint
    BY <1>2 DEF IsStaged, Installed, Endpoint
  <2> QED BY <1>2, <2>1 DEF Entry
<1> HIDE DEF entry, tx
<1>4. PICK n : n = manager'
  OBVIOUS
<1>5. /\ n.history = manager.history /\ n.forgotten = manager.forgotten
      /\ n.pendingTurns = Without(manager.pendingTurns, {tx.turn})
  <2>1. PICK turn : turn = tx.turn
    OBVIOUS
  <2>2. n = DiscardPendingTurn(manager, turn)
    BY <1>1, <1>4, <2>1
  <2>3. /\ n.history = manager.history /\ n.forgotten = manager.forgotten
        /\ n.pendingTurns = Without(manager.pendingTurns, {turn})
    BY <1>2, <2>2, DiscardOK
  <2> QED BY <2>1, <2>3
<1>6. Kept(n)
  BY <1>5 DEF SubjectsInv, Kept, Ids
<1>7. \A t \in DOMAIN n.pendingTurns : t \in DOMAIN manager.pendingTurns
        /\ t # tx.turn /\ n.pendingTurns[t] = manager.pendingTurns[t]
  BY <1>5 DEF Without
<1>8. HistoryNames(n)
  BY <1>5, <1>7 DEF SubjectsInv, HistoryNames, Ids
<1>9. /\ DOMAIN transactions' = DOMAIN transactions \ {id}
      /\ \A x \in DOMAIN transactions' : transactions'[x] = transactions[x]
  BY <1>1 DEF Without
<1>10. LetGoIsGone'
  <2>1. ASSUME NEW r \in manager.forgotten
        PROVE  /\ r \in Rows /\ visible'[r] = "gone" /\ queue'[r] = <<>>
               /\ \A x \in DOMAIN transactions' : r \notin DOMAIN transactions'[x].effects
    <3>1. /\ r \in Rows /\ visible[r] = "gone" /\ queue[r] = <<>>
          /\ \A x \in DOMAIN transactions : r \notin DOMAIN transactions[x].effects
      BY <2>1 DEF SubjectsInv, LetGoIsGone
    <3>2. r \in Cells /\ r \notin DOMAIN tx.effects
      BY <3>1, OwnerAssumption DEF tx
    <3> QED BY <1>1, <1>9, <3>1, <3>2
  <2> QED BY <1>4, <1>5, <2>1 DEF LetGoIsGone
<1>11. PendingIsClaimed'
  <2>1. ASSUME NEW t \in DOMAIN n.pendingTurns
        PROVE  \E x \in DOMAIN transactions' : /\ transactions'[x].turn = t
                    /\ n.pendingTurns[t].subjects \subseteq DOMAIN transactions'[x].effects
    <3>1. PICK x \in DOMAIN transactions : /\ transactions[x].turn = t
                /\ manager.pendingTurns[t].subjects \subseteq DOMAIN transactions[x].effects
      BY <1>7, <2>1 DEF SubjectsInv, PendingIsClaimed
    <3>2. x # id
      BY <1>7, <2>1, <3>1 DEF tx
    <3> QED BY <1>7, <1>9, <2>1, <3>1, <3>2
  <2> QED BY <1>4, <2>1 DEF PendingIsClaimed
<1>12. ASSUME NEW c \in Cells, NEW i \in DOMAIN queue'[c]
       PROVE  ~queue'[c][i].designated
  <2>1. CASE c \in DOMAIN tx.effects
    <3>1. queue'[c] = Enqueue(queue[c], c, entry(c)) /\ entry(c) \in Entry
          /\ queue[c] \in Seq(Entry) /\ ~entry(c).designated
      BY <1>1, <1>2, <1>3, <2>1
    <3>2. \/ i \in DOMAIN queue[c] /\ queue'[c][i] = queue[c][i]
          \/ queue'[c][i].designated <=> entry(c).designated
      BY <1>12, <3>1, EnqueueIs
    <3> QED BY <1>1, <3>1, <3>2 DEF Designates
  <2>2. CASE c \notin DOMAIN tx.effects
    BY <1>1, <1>12, <2>2 DEF Designates
  <2> QED BY <2>1, <2>2
<1>13. OnlyAuthoredDesignate' /\ WaitingIsRetained'
  BY <1>12 DEF OnlyAuthoredDesignate, WaitingIsRetained, Designates
<1> QED BY <1>4, <1>6, <1>8, <1>10, <1>11, <1>13 DEF SubjectsInv, Kept, HistoryNames, Ids

(* No retained turn reaches a row that was let go, so no navigation does.  *)
LEMMA NavigateSubjects ==
    ASSUME HistoryInv, SubjectsInv, Ordinary, NEW s, Navigate(s),
           SameTurns(manager, s.manager), ChangesOnly(Now, s, Reach(manager))
    PROVE  SubjectsInv'
<1>1. /\ manager' = s.manager /\ visible' = s.visible /\ queue' = queue
      /\ transactions' = transactions /\ InQueue("authored") = {}
  BY DEF Navigate, Unless, Ordinary
<1>2. /\ s.manager.history = manager.history /\ s.manager.forgotten = manager.forgotten
      /\ s.manager.pendingTurns = manager.pendingTurns
  BY DEF SameTurns
<1>3. ~Designates(queue)
  BY <1>1 DEF Designates, InQueue, SubjectsInv, OnlyAuthoredDesignate
<1>4. ASSUME NEW r \in manager.forgotten
      PROVE  r \in Rows /\ visible'[r] = "gone" /\ queue[r] = <<>>
             /\ \A x \in DOMAIN transactions : r \notin DOMAIN transactions[x].effects
  <2>1. /\ r \in Rows /\ visible[r] = "gone" /\ queue[r] = <<>>
        /\ \A x \in DOMAIN transactions : r \notin DOMAIN transactions[x].effects
    BY <1>4 DEF SubjectsInv, LetGoIsGone
  <2>2. r \in Cells
    BY <2>1, OwnerAssumption
  <2>3. r \notin Reach(manager)
    <3>1. manager.indexed = manager.history
      BY DEF HistoryInv, ManagerOK, Indexed
    <3>2. \A t \in Ids(manager) : r \notin DOMAIN manager.history[t].effects
      BY <1>4, <2>1 DEF SubjectsInv, Kept, HistoryNames, NamesItsRows
    <3> QED BY <3>1, <3>2 DEF Reach, Touched, Touching
  <2>4. s.visible[r] = visible[r]
    BY <2>2, <2>3, NowIs DEF ChangesOnly
  <2> QED BY <1>1, <2>1, <2>4
<1>5. LetGoIsGone'
  BY <1>1, <1>2, <1>4 DEF LetGoIsGone
<1>6. Kept(s.manager) /\ HistoryNames(s.manager)
  BY <1>2 DEF SubjectsInv, Kept, HistoryNames, Ids
<1>7. PendingIsClaimed' /\ WaitingIsRetained' /\ OnlyAuthoredDesignate'
  BY <1>1, <1>2, <1>3
     DEF SubjectsInv, PendingIsClaimed, WaitingIsRetained, OnlyAuthoredDesignate, Designates
<1> QED BY <1>1, <1>5, <1>6, <1>7 DEF SubjectsInv, Kept, HistoryNames, Ids

LEMMA ResetSubjects ==
    ASSUME HistoryInv, SubjectsInv, Ordinary, Reset
    PROVE  SubjectsInv'
<1>1. /\ manager' = ResetRestorationHistory(manager, Retired)
      /\ visible' = visible /\ queue' = queue
      /\ transactions' = [id \in DOMAIN transactions |->
            [transactions[id] EXCEPT !.turn = 0, !.watched = FALSE]]
      /\ \A r \in Rows : queue[r] = <<>>
  BY DEF Reset, Unless, Ordinary
<1>2. PICK n : n = manager'
  OBVIOUS
<1>3. n.history = EmptyMap /\ n.pendingTurns = EmptyMap
  BY <1>1, <1>2, ResetOK
<1>4. \A r \in n.forgotten : r \in manager.forgotten \/ r \in Retired
  <2>1. n.forgotten = ReleaseRetained(manager, Ids(manager), Retired).forgotten
    BY <1>1, <1>2 DEF ResetRestorationHistory, InitialManager
  <2>2. DOMAIN manager = Fields
    BY DEF HistoryInv, ManagerOK, Turned
  <2> QED BY <2>1, <2>2, ReleaseForgets
<1>5. \A id \in DOMAIN transactions' : id \in DOMAIN transactions
            /\ transactions'[id].effects = transactions[id].effects
  <2>1. ASSUME NEW id \in DOMAIN transactions
        PROVE  transactions'[id].effects = transactions[id].effects
    <3>1. transactions'[id] = [transactions[id] EXCEPT !.turn = 0, !.watched = FALSE]
      BY <1>1, <2>1
    <3> QED BY <3>1
  <2> QED BY <1>1, <2>1
<1>6. LetGoIsGone'
  <2>1. ASSUME NEW r \in n.forgotten
        PROVE  r \in Rows /\ visible[r] = "gone"
               /\ \A x \in DOMAIN transactions : r \notin DOMAIN transactions[x].effects
    BY <1>4, <2>1 DEF SubjectsInv, LetGoIsGone, Retired
  <2> QED BY <1>1, <1>2, <1>5, <2>1 DEF LetGoIsGone
<1>7. Kept(n) /\ HistoryNames(n)
  BY <1>3, EmptyMapDomain DEF Kept, HistoryNames, Ids
<1>8. PendingIsClaimed'
  BY <1>2, <1>3, EmptyMapDomain DEF PendingIsClaimed
<1>9. WaitingIsRetained' /\ OnlyAuthoredDesignate'
  BY <1>1 DEF WaitingIsRetained, OnlyAuthoredDesignate, SubjectsInv
<1> QED BY <1>2, <1>6, <1>7, <1>8, <1>9 DEF SubjectsInv, Kept, HistoryNames, Ids

LEMMA InitSubjects == Init => SubjectsInv
<1>1. SUFFICES ASSUME Init PROVE SubjectsInv
  OBVIOUS
<1>2. queue = EmptyQueue /\ manager = InitialManager
  BY <1>1 DEF Init
<1>3. manager.history = EmptyMap /\ manager.pendingTurns = EmptyMap /\ manager.forgotten = {}
  BY <1>2, InitialFrame
<1>4. OnlyAuthoredDesignate /\ WaitingIsRetained
  BY <1>2, EmptyQueueWaits
<1> QED BY <1>3, <1>4, EmptyMapDomain
        DEF SubjectsInv, Kept, HistoryNames, Ids, LetGoIsGone, PendingIsClaimed

LEMMA StepSubjects ==
    ASSUME HistoryInv, ScopeInv, SubjectsInv, Ordinary, [Next]_vars
    PROVE  SubjectsInv'
<1>1. ASSUME NEW c \in Cells, NEW kind \in WriteKinds, NEW v \in NextValues(c),
             Write(c, v, kind)
      PROVE  SubjectsInv'
  BY <1>1, WriteSubjects
<1>2. CASE Flush
  BY <1>2, FlushSubjects
<1>3. ASSUME NEW writes \in TransactedWrites, NEW designated \in BOOLEAN,
             Transact(writes, designated)
      PROVE  SubjectsInv'
  BY <1>3, TransactSubjects
<1>4. ASSUME NEW id \in DOMAIN transactions, Confirm(id) \/ Rollback(id)
      PROVE  SubjectsInv'
  BY <1>4, ConfirmSubjects, RollbackSubjects
<1>5. ASSUME NEW scope \in Scopes, Undo(scope) \/ Redo(scope)
      PROVE  SubjectsInv'
  BY <1>5, UndoIs, RedoIs, NavigateSubjects
<1>6. ASSUME NEW index \in 0 .. (MaxHistory - 1), Jump(index)
      PROVE  SubjectsInv'
  BY <1>6, JumpIs, NavigateSubjects
<1>7. CASE Reset
  BY <1>7, ResetSubjects
<1>8. CASE UNCHANGED vars
  BY <1>8 DEF vars, SubjectsInv, Kept, HistoryNames, Ids, LetGoIsGone, PendingIsClaimed,
              WaitingIsRetained, OnlyAuthoredDesignate, Designates, NamedByDiscarded
<1> QED BY <1>1, <1>2, <1>3, <1>4, <1>5, <1>6, <1>7, <1>8 DEF Next

(* No turn that can be undone, redone or confirmed names a row whose       *)
(* backing was let go, for any number of rows, turns and transactions, in  *)
(* an instance that leaves out the three situations in which the code      *)
(* departs from this: a tick that mixes realized with designated work, the *)
(* re-removal of a row that a discarded turn names, and undo over writes   *)
(* that wait in the queue.                                                 *)
THEOREM SubjectsAreKept ==
    ASSUME {"mixed_tick", "reremoval", "undo_over_queue"} \cap Lets = {}
    PROVE  Spec => []NamedSubjectsAreKept
<1>1. Ordinary /\ "mixed_tick" \notin Lets
  BY DEF Ordinary
<1>2. Init => ScopeInv /\ SubjectsInv
  BY InitScope, InitSubjects
<1>3. HistoryInv /\ ScopeInv /\ SubjectsInv /\ [Next]_vars => ScopeInv' /\ SubjectsInv'
  BY <1>1, StepScope, StepSubjects
<1>4. SubjectsInv => NamedSubjectsAreKept
  <2> SUFFICES ASSUME SubjectsInv PROVE NamedSubjectsAreKept
    OBVIOUS
  <2>1. \A t \in DOMAIN manager.pendingTurns :
            manager.pendingTurns[t].subjects \cap manager.forgotten = {}
    BY DEF SubjectsInv, PendingIsClaimed, LetGoIsGone
  <2> QED BY <2>1 DEF SubjectsInv, Kept, NamedSubjectsAreKept
<1> QED BY <1>2, <1>3, <1>4, HistoryInvariant, PTL DEF Spec
=============================================================================
