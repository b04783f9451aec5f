-------------------------- MODULE CollectionProofs --------------------------
(***************************************************************************)
(* The entity collection for any number of keys, rows and writes.          *)
(***************************************************************************)
EXTENDS StructuralProofs

-----------------------------------------------------------------------------
(* The net of announcements                                                *)

Maps == [Nat -> Keys \cup {NoKey}]

(* What may be announced: the row is there on at least one side.           *)
Notes == {e \in Effects : e.before # NoKey \/ e.after # NoKey}

(* `net` says of each row whose key differs between f and g what it was    *)
(* and what it is, and nothing else.                                       *)
Nets(f, g, net) ==
    /\ net \in Seq(Effects)
    /\ \A i, j \in DOMAIN net : net[i].subject = net[j].subject => i = j
    /\ \A i \in DOMAIN net : LET s == net[i].subject
                             IN  net[i].before = f[s] /\ net[i].after = g[s] /\ f[s] # g[s]
    /\ \A s \in Nat : f[s] # g[s] => \E i \in DOMAIN net : net[i].subject = s

PlaceIn(net, s) == SelectInSeq(net, LAMBDA old : old.subject = s)

LEMMA PlaceInIs ==
    ASSUME NEW T, NEW net \in Seq(T), NEW s
    PROVE  LET i == PlaceIn(net, s)
           IN  /\ i \in 0 .. Len(net)
               /\ i = 0 <=> \A j \in DOMAIN net : net[j].subject # s
               /\ i # 0 => i \in DOMAIN net /\ net[i].subject = s
<1> DEFINE I == {i \in 1 .. Len(net) : net[i].subject = s}
<1>1. PlaceIn(net, s) = IF I # {} THEN Min(I) ELSE 0
  BY DEF PlaceIn, SelectInSeq
<1>2. Len(net) \in Nat /\ I \in SUBSET (1 .. Len(net)) /\ DOMAIN net = 1 .. Len(net)
  OBVIOUS
<1>3. I = {} <=> \A j \in DOMAIN net : net[j].subject # s
  BY <1>2
<1>4. \A i \in I : i \in DOMAIN net /\ net[i].subject = s
  BY <1>2
<1> HIDE DEF I
<1> QED BY <1>1, <1>2, <1>3, <1>4, LeastPlace

IsWithout(r, list, p) ==
    /\ Len(r) = Len(list) - 1
    /\ \A i \in DOMAIN r : r[i] = list[IF i < p THEN i ELSE i + 1]

LEMMA RemovedPlace ==
    ASSUME NEW T, NEW list \in Seq(T), NEW p \in DOMAIN list
    PROVE  RemoveAt(list, p) \in Seq(T) /\ IsWithout(RemoveAt(list, p), list, p)
<1>0. PICK n \in Nat : n = Len(list) /\ DOMAIN list = 1 .. n
  BY ListDomain
<1>1. p - 1 \in 0 .. n /\ p \in 0 .. n /\ p \in 1 .. n
  BY <1>0
<1>2. PICK a : a = SubSeq(list, 1, p - 1)
  OBVIOUS
<1>3. PICK b : b = SubSeq(list, p + 1, Len(list))
  OBVIOUS
<1>4. a \in Seq(T) /\ Len(a) = p - 1 /\ \A i \in 1 .. p - 1 : a[i] = list[i]
  BY <1>0, <1>1, <1>2, PrefixIs DEF FrontOf
<1>5. b \in Seq(T) /\ Len(b) = n - p /\ \A i \in 1 .. n - p : b[i] = list[p + i]
  BY <1>0, <1>1, <1>3, SuffixIs DEF RestOf
<1>6. PICK r : r = a \o b
  OBVIOUS
<1> PICK x \in Nat : x = p - 1
  BY <1>1
<1> PICK y \in Nat : y = n - p
  BY <1>1
<1>7. /\ r \in Seq(T) /\ Len(r) = (p - 1) + (n - p)
      /\ \A i \in 1 .. p - 1 : r[i] = a[i]
      /\ \A i \in p .. n - 1 : r[i] = b[i - (p - 1)]
  <2>1. Len(a) = x /\ Len(b) = y
    BY <1>4, <1>5
  <2>2. /\ r \in Seq(T) /\ Len(r) = x + y
        /\ \A i \in 1 .. x : r[i] = a[i]
        /\ \A i \in x + 1 .. x + y : r[i] = b[i - x]
    <3>1. a \in Seq(T) /\ b \in Seq(T)
      BY <1>4, <1>5
    <3>2. Joined(T, a, b, x, y, r)
      BY <1>6, <2>1, <3>1, JoinedIs
    <3> QED BY <3>2 DEF Joined
  <2>3. x + 1 = p /\ x + y = n - 1
    BY <1>1
  <2> QED BY <2>2, <2>3
<1>8. Len(r) = n - 1 /\ DOMAIN r = 1 .. n - 1
  <2> PICK m \in Nat : m = Len(r) /\ DOMAIN r = 1 .. m
    BY <1>7, ListDomain
  <2>1. (p - 1) + (n - p) = n - 1
    BY <1>1
  <2> QED BY <1>7, <2>1
<1>9. ASSUME NEW i \in 1 .. n - 1 PROVE r[i] = list[IF i < p THEN i ELSE i + 1]
  <2>1. CASE i < p
    <3>1. i \in 1 .. p - 1
      BY <1>1, <2>1
    <3> QED BY <1>4, <1>7, <2>1, <3>1
  <2>2. CASE ~(i < p)
    <3>0. p \in Int /\ n \in Int /\ i \in Int /\ p <= i /\ i <= n - 1
      BY <1>1, <2>2
    <3>1. i \in p .. n - 1 /\ i - (p - 1) \in 1 .. n - p /\ p + (i - (p - 1)) = i + 1
      BY ONLY <3>0
    <3>2. PICK j \in 1 .. n - p : j = i - (p - 1)
      BY <3>1
    <3>3. b[j] = list[p + j]
      BY <1>5
    <3> QED BY <1>7, <2>2, <3>1, <3>2, <3>3
  <2> QED BY <2>1, <2>2
<1> QED BY <1>0, <1>2, <1>3, <1>6, <1>7, <1>8, <1>9 DEF RemoveAt, IsWithout

LEMMA ComposedIs ==
    ASSUME NEW old \in Effects, NEW e \in Effects
    PROVE  Composed(old, e) \in Effects
           /\ Composed(old, e).subject = old.subject /\ Composed(old, e).before = old.before
           /\ Composed(old, e).after = e.after
<1>1. /\ old.subject \in Nat /\ old.left \in Nat /\ old.right \in Nat /\ old.before \in Keys \cup {NoKey}
      /\ e.after \in Keys \cup {NoKey} /\ e.left \in Nat /\ e.right \in Nat
  BY DEF Effects
<1>2. old = [subject |-> old.subject, before |-> old.before, after |-> old.after,
             left |-> old.left, right |-> old.right]
  BY DEF Effects
<1> PICK l \in Nat : l = IF IsRemove(e) THEN e.left ELSE old.left
  BY <1>1
<1> PICK r \in Nat : r = IF IsRemove(e) THEN e.right ELSE old.right
  BY <1>1
<1>3. Composed(old, e) = [old EXCEPT !.after = e.after, !.left = l, !.right = r]
  BY DEF Composed
<1>4. Composed(old, e) = [subject |-> old.subject, before |-> old.before, after |-> e.after,
                          left |-> l, right |-> r]
  BY <1>2, <1>3
<1> QED BY <1>1, <1>4 DEF Effects

LEMMA NetsNext ==
    ASSUME NEW f \in Maps, NEW g \in Maps, NEW net, Nets(f, g, net), NEW e \in Notes,
           g[e.subject] = e.before, IsAdd(e) => f[e.subject] = NoKey
    PROVE  Nets(f, [g EXCEPT ![e.subject] = e.after], EnqueueEffect(net, e))
<1> DEFINE s == e.subject
           h == [g EXCEPT ![s] = e.after]
           i == PlaceIn(net, s)
           c == Composed(net[i], e)
           new == EnqueueEffect(net, e)
<1>0. /\ e \in Effects /\ s \in Nat /\ e.before \in Keys \cup {NoKey} /\ e.after \in Keys \cup {NoKey}
      /\ e.left \in Nat /\ e.right \in Nat /\ (e.before # NoKey \/ e.after # NoKey)
  BY DEF Notes, Effects
<1>1. h \in Maps /\ h[s] = e.after /\ \A t \in Nat \ {s} : h[t] = g[t]
  BY <1>0 DEF Maps
<1>2. /\ net \in Seq(Effects)
      /\ \A k, j \in DOMAIN net : net[k].subject = net[j].subject => k = j
      /\ \A k \in DOMAIN net : /\ net[k].before = f[net[k].subject] /\ net[k].after = g[net[k].subject]
                               /\ f[net[k].subject] # g[net[k].subject]
      /\ \A t \in Nat : f[t] # g[t] => \E k \in DOMAIN net : net[k].subject = t
  BY DEF Nets
<1>3. /\ i \in 0 .. Len(net)
      /\ i = 0 <=> \A j \in DOMAIN net : net[j].subject # s
      /\ i # 0 => i \in DOMAIN net /\ net[i].subject = s
  BY <1>2, PlaceInIs
<1>4. new = CASE IsUpdate(e) -> net
              [] ~IsUpdate(e) /\ i = 0 -> Append(net, e)
              [] ~IsUpdate(e) /\ i # 0 /\ (IsRemove(net[i]) \/ IsAdd(e)) -> net
              [] OTHER -> IF c.before = c.after THEN RemoveAt(net, i) ELSE [net EXCEPT ![i] = c]
  BY DEF EnqueueEffect, PlaceIn
<1>5. PICK n \in Nat : n = Len(net) /\ DOMAIN net = 1 .. n /\ \A k \in 1 .. n : net[k] \in Effects
  BY <1>2, ListDomain
<1> HIDE DEF h, i, new, c
<1>6. CASE IsUpdate(e)
  <2>1. new = net /\ e.after = e.before
    BY <1>4, <1>6 DEF IsUpdate
  <2>2. h = g
    BY <1>0, <1>1, <2>1 DEF Maps
  <2> QED BY <2>1, <2>2 DEF new, h
<1>7. CASE ~IsUpdate(e) /\ i = 0
  <2>1. new = Append(net, e)
    BY <1>4, <1>7
  <2>2. e.before # e.after
    BY <1>0, <1>7 DEF IsUpdate
  <2>3. g[s] = f[s]
    BY <1>0, <1>2, <1>3, <1>7
  <2>4. /\ new \in Seq(Effects) /\ DOMAIN new = (1 .. n) \cup {n + 1} /\ new[n + 1] = e
        /\ \A k \in 1 .. n : new[k] = net[k] /\ net[k].subject \in Nat /\ net[k].subject # s
    <3>1. \A k \in 1 .. n : net[k].subject \in Nat
      BY <1>5 DEF Effects
    <3>2. \A k \in 1 .. n : net[k].subject # s
      BY <1>3, <1>5, <1>7
    <3>3. net \in Seq(Effects) /\ e \in Effects /\ Len(net) = n /\ DOMAIN net = 1 .. n
      BY <1>0, <1>2, <1>5
    <3>4. /\ new \in Seq(Effects) /\ DOMAIN new = (1 .. n) \cup {n + 1} /\ new[n + 1] = e
          /\ \A k \in 1 .. n : new[k] = net[k]
      BY <2>1, <3>3, AppendIs
    <3> QED BY <3>1, <3>2, <3>4
  <2>5. \A k, j \in DOMAIN new : new[k].subject = new[j].subject => k = j
    <3> SUFFICES ASSUME NEW k \in DOMAIN new, NEW j \in DOMAIN new, new[k].subject = new[j].subject PROVE k = j
      OBVIOUS
    <3>1. CASE k = n + 1 /\ j = n + 1
      BY <3>1
    <3>2. CASE k = n + 1 /\ j \in 1 .. n
      BY <2>4, <3>2
    <3>3. CASE k \in 1 .. n /\ j = n + 1
      BY <2>4, <3>3
    <3>4. CASE k \in 1 .. n /\ j \in 1 .. n
      <4>1. new[k] = net[k] /\ new[j] = net[j]
        BY <2>4, <3>4
      <4> QED BY <1>2, <1>5, <3>4, <4>1
    <3> QED BY <2>4, <3>1, <3>2, <3>3, <3>4
  <2>6. ASSUME NEW k \in DOMAIN new
        PROVE  /\ new[k].before = f[new[k].subject] /\ new[k].after = h[new[k].subject]
               /\ f[new[k].subject] # h[new[k].subject]
    <3>1. CASE k = n + 1
      BY <1>0, <1>1, <2>2, <2>3, <2>4, <3>1
    <3>2. CASE k \in 1 .. n
      BY <1>1, <1>2, <1>5, <2>4, <3>2
    <3> QED BY <2>4, <3>1, <3>2
  <2>7. ASSUME NEW t \in Nat, f[t] # h[t] PROVE \E k \in DOMAIN new : new[k].subject = t
    <3>1. CASE t = s
      BY <2>4, <3>1
    <3>2. CASE t # s
      BY <1>1, <1>2, <1>5, <2>4, <2>7, <3>2
    <3> QED BY <3>1, <3>2
  <2> QED BY <2>4, <2>5, <2>6, <2>7 DEF Nets, new, h
<1>8. CASE ~IsUpdate(e) /\ i # 0
  <2>0. i \in DOMAIN net /\ net[i].subject = s /\ net[i] \in Effects /\ f[s] # g[s]
        /\ net[i].before = f[s] /\ net[i].after = g[s]
    BY <1>2, <1>3, <1>5, <1>8
  <2>1. ~IsAdd(e) /\ ~IsRemove(net[i])
    BY <2>0 DEF IsAdd, IsRemove
  <2>2. new = IF c.before = c.after THEN RemoveAt(net, i) ELSE [net EXCEPT ![i] = c]
    BY <1>4, <1>8, <2>1
  <2>3. c \in Effects /\ c.subject = s /\ c.before = f[s] /\ c.after = e.after
    BY <1>0, <2>0, ComposedIs DEF c
  <2>4. \A k \in 1 .. n : net[k].subject \in Nat /\ (k # i => net[k].subject # s)
    <3>1. \A k \in 1 .. n : net[k].subject \in Nat
      BY <1>5 DEF Effects
    <3> QED BY <1>2, <1>5, <2>0, <3>1
  <2>5. CASE f[s] # e.after
    <3>1. new = [net EXCEPT ![i] = c]
      BY <2>2, <2>3, <2>5
    <3>2. /\ new \in Seq(Effects) /\ DOMAIN new = 1 .. n /\ new[i] = c /\ \A k \in 1 .. n : k # i => new[k] = net[k]
      BY <1>2, <1>5, <2>0, <2>3, <3>1
    <3>3. \A k, j \in DOMAIN new : new[k].subject = new[j].subject => k = j
      <4>1. \A k \in 1 .. n : new[k].subject = net[k].subject
        BY <2>0, <2>3, <3>2
      <4> QED BY <1>2, <1>5, <3>2, <4>1
    <3>4. ASSUME NEW k \in DOMAIN new
          PROVE  /\ new[k].before = f[new[k].subject] /\ new[k].after = h[new[k].subject]
                 /\ f[new[k].subject] # h[new[k].subject]
      <4>1. CASE k = i
        BY <1>1, <2>3, <2>5, <3>2, <4>1
      <4>2. CASE k # i
        BY <1>1, <1>2, <1>5, <2>4, <3>2, <4>2
      <4> QED BY <4>1, <4>2
    <3>5. ASSUME NEW t \in Nat, f[t] # h[t] PROVE \E k \in DOMAIN new : new[k].subject = t
      <4>1. CASE t = s
        BY <1>5, <2>0, <2>3, <3>2, <4>1
      <4>2. CASE t # s
        <5>1. PICK k \in DOMAIN net : net[k].subject = t
          BY <1>1, <1>2, <3>5, <4>2
        <5>2. k # i
          BY <2>0, <4>2, <5>1
        <5> QED BY <1>5, <3>2, <5>1, <5>2
      <4> QED BY <4>1, <4>2
    <3> QED BY <3>2, <3>3, <3>4, <3>5 DEF Nets, new, h
  <2>6. CASE f[s] = e.after
    <3>1. new = RemoveAt(net, i)
      BY <2>2, <2>3, <2>6
    <3>2. /\ new \in Seq(Effects) /\ Len(new) = n - 1
          /\ \A k \in DOMAIN new : new[k] = net[IF k < i THEN k ELSE k + 1]
      <4>1. RemoveAt(net, i) \in Seq(Effects) /\ IsWithout(RemoveAt(net, i), net, i)
        BY <1>2, <2>0, RemovedPlace
      <4> QED BY <1>5, <3>1, <4>1 DEF IsWithout
    <3>3. DOMAIN new = 1 .. n - 1 /\ i \in 1 .. n
      BY <1>5, <2>0, <3>2
    <3>4. \A k \in 1 .. n - 1 : /\ (IF k < i THEN k ELSE k + 1) \in 1 .. n
                                /\ (IF k < i THEN k ELSE k + 1) # i
      BY <3>3
    <3>5. \A k, j \in 1 .. n - 1 : (IF k < i THEN k ELSE k + 1) = (IF j < i THEN j ELSE j + 1) => k = j
      BY <3>3
    <3>6. \A k, j \in DOMAIN new : new[k].subject = new[j].subject => k = j
      <4> SUFFICES ASSUME NEW k \in 1 .. n - 1, NEW j \in 1 .. n - 1, new[k].subject = new[j].subject
                   PROVE  k = j
        BY <3>3
      <4> PICK a \in 1 .. n : a = (IF k < i THEN k ELSE k + 1)
        BY <3>4
      <4> PICK b \in 1 .. n : b = (IF j < i THEN j ELSE j + 1)
        BY <3>4
      <4>1. new[k] = net[a] /\ new[j] = net[b]
        BY <3>2, <3>3
      <4>2. a = b
        BY <1>2, <1>5, <4>1
      <4> QED BY <3>5, <4>2
    <3>7. ASSUME NEW k \in DOMAIN new
          PROVE  /\ new[k].before = f[new[k].subject] /\ new[k].after = h[new[k].subject]
                 /\ f[new[k].subject] # h[new[k].subject]
      <4> PICK j \in 1 .. n : j = (IF k < i THEN k ELSE k + 1) /\ j # i
        BY <3>3, <3>4
      <4>1. new[k] = net[j]
        BY <3>2
      <4> QED BY <1>1, <1>2, <1>5, <2>4, <4>1
    <3>8. ASSUME NEW t \in Nat, f[t] # h[t] PROVE \E k \in DOMAIN new : new[k].subject = t
      <4>1. t # s
        BY <1>1, <2>6, <3>8
      <4>2. PICK j \in DOMAIN net : net[j].subject = t
        BY <1>1, <1>2, <3>8, <4>1
      <4>3. j # i /\ j \in 1 .. n
        BY <1>5, <2>0, <4>1, <4>2
      <4> PICK k \in Int : k = (IF j < i THEN j ELSE j - 1)
        BY <4>3
      <4>4. k \in 1 .. n - 1 /\ j = (IF k < i THEN k ELSE k + 1)
        BY <3>3, <4>3
      <4> QED BY <3>2, <3>3, <4>2, <4>4
    <3> QED BY <3>2, <3>6, <3>7, <3>8 DEF Nets, new, h
  <2> QED BY <2>5, <2>6
<1> QED BY <1>6, <1>7, <1>8

EnqueueStep(nothing, net, e) == EnqueueEffect(net, e)
NetsHolds(p, n, net) == Nets(p.f, p.h[n], net)
Netting == INSTANCE Stepwise WITH Step <- EnqueueStep, Holds <- NetsHolds

(* The entries, one after the other, take the keys from f to g.            *)
StepOf(x, e, y) == x[e.subject] = e.before /\ y = [x EXCEPT ![e.subject] = e.after]
Walk(h, f, entries, g) ==
    /\ h \in [0 .. Len(entries) -> Maps] /\ h[0] = f /\ h[Len(entries)] = g
    /\ \A a \in 1 .. Len(entries) : StepOf(h[a - 1], entries[a], h[a])
Leads(f, entries, g) == \E h : Walk(h, f, entries, g)

AddsAreNew(entries, f) == \A a \in DOMAIN entries : IsAdd(entries[a]) => f[entries[a].subject] = NoKey

LEMMA EnqueueEachIs ==
    ASSUME NEW f \in Maps, NEW g, NEW k, NEW entries \in Seq(Notes), Leads(g, entries, k),
           AddsAreNew(entries, f), NEW net, Nets(f, g, net)
    PROVE  Nets(f, k, EnqueueEach(net, entries))
<1>1. PICK n \in Nat : n = Len(entries) /\ DOMAIN entries = 1 .. n /\ \A a \in 1 .. n : entries[a] \in Notes
  BY ListDomain
<1>2. PICK h : Walk(h, g, entries, k)
  BY DEF Leads
<1>3. /\ h \in [0 .. n -> Maps] /\ h[0] = g /\ h[n] = k
      /\ \A a \in 1 .. n : StepOf(h[a - 1], entries[a], h[a])
  BY <1>1, <1>2 DEF Walk
<1> DEFINE p == [f |-> f, h |-> h]
<1>4. EnqueueEach(net, entries) = Netting!Folded(NoKey, net, entries)
  BY DEF EnqueueEach, Netting!Folded, Netting!Greatest, EnqueueStep, FoldLeft, MapThenFoldSet, Max
<1>5. NetsHolds(p, 0, net)
  BY <1>3 DEF NetsHolds
<1>6. ASSUME NEW b, NEW a \in 1 .. n, NetsHolds(p, a - 1, b)
      PROVE  NetsHolds(p, a, EnqueueStep(NoKey, b, entries[a]))
  <2> PICK e \in Notes : e = entries[a]
    BY <1>1
  <2>1. a - 1 \in 0 .. n /\ a \in 0 .. n
    OBVIOUS
  <2> PICK x \in Maps : x = h[a - 1]
    BY <1>3, <2>1
  <2>2. Nets(f, x, b)
    BY <1>6 DEF NetsHolds
  <2>3. x[e.subject] = e.before /\ h[a] = [x EXCEPT ![e.subject] = e.after]
    BY <1>3 DEF StepOf
  <2>4. IsAdd(e) => f[e.subject] = NoKey
    BY <1>1 DEF AddsAreNew
  <2>5. Nets(f, [x EXCEPT ![e.subject] = e.after], EnqueueEffect(b, e))
    BY <2>2, <2>3, <2>4, NetsNext
  <2> QED BY <2>3, <2>5 DEF NetsHolds, EnqueueStep
<1>7. NetsHolds(p, n, EnqueueEach(net, entries))
  <2>1. Netting!PlacesAreOrdered(n)
    BY LeastPlaces DEF Netting!PlacesAreOrdered
  <2> QED BY <1>1, <1>4, <1>5, <1>6, <2>1, Netting!FoldKeeps
<1> QED BY <1>3, <1>7 DEF NetsHolds

(* What waits in the notifier takes the rows from f to g.                  *)
Slots == [path : Keys, entries : Seq(Notes)]
SlotFits(slot, f) ==
    /\ \A a \in DOMAIN slot.entries : PathOf(slot.entries[a]) = slot.path
    /\ slot.entries # <<>> /\ AddsAreNew(slot.entries, f)
Route(F, f, q, g) ==
    /\ F \in [0 .. Len(q) -> Maps] /\ F[0] = f /\ F[Len(q)] = g
    /\ \A i \in 1 .. Len(q) : Leads(F[i - 1], q[i].entries, F[i])
Trail(q, f, g) ==
    /\ q \in Seq(Slots) /\ \A i \in DOMAIN q : SlotFits(q[i], f)
    /\ \E F : Route(F, f, q, g)

SlotStep(nothing, net, slot) == EnqueueEach(net, slot.entries)
Capturing == INSTANCE Stepwise WITH Step <- SlotStep, Holds <- NetsHolds

LEMMA CapturedIs ==
    ASSUME NEW f \in Maps, NEW g, Trail(queue, f, g)
    PROVE  Nets(f, g, Captured)
<1>0. queue \in Seq(Slots) /\ \A i \in DOMAIN queue : SlotFits(queue[i], f)
  BY DEF Trail
<1>1. PICK n \in Nat : n = Len(queue) /\ DOMAIN queue = 1 .. n /\ \A i \in 1 .. n : queue[i] \in Slots
  BY <1>0, ListDomain
<1>2. PICK F : Route(F, f, queue, g)
  BY DEF Trail
<1>3. /\ F \in [0 .. n -> Maps] /\ F[0] = f /\ F[n] = g
      /\ \A i \in 1 .. n : Leads(F[i - 1], queue[i].entries, F[i])
  BY <1>1, <1>2 DEF Route
<1> DEFINE p == [f |-> f, h |-> F]
<1>4. Captured = Capturing!Folded(NoKey, <<>>, queue)
  BY DEF Captured, Capturing!Folded, Capturing!Greatest, SlotStep, FoldLeft, MapThenFoldSet, Max
<1>5. NetsHolds(p, 0, <<>>)
  BY <1>3 DEF NetsHolds, Nets
<1>6. ASSUME NEW b, NEW i \in 1 .. n, NetsHolds(p, i - 1, b)
      PROVE  NetsHolds(p, i, SlotStep(NoKey, b, queue[i]))
  <2> PICK entries : entries = queue[i].entries
    OBVIOUS
  <2>1. entries \in Seq(Notes) /\ AddsAreNew(entries, f)
    BY <1>0, <1>1 DEF Slots, SlotFits
  <2>2. Leads(F[i - 1], entries, F[i]) /\ Nets(f, F[i - 1], b)
    BY <1>3, <1>6 DEF NetsHolds
  <2>3. Nets(f, F[i], EnqueueEach(b, entries))
    BY <2>1, <2>2, EnqueueEachIs
  <2> QED BY <2>3 DEF NetsHolds, SlotStep
<1>7. NetsHolds(p, n, Captured)
  <2>1. Capturing!PlacesAreOrdered(n)
    BY LeastPlaces DEF Capturing!PlacesAreOrdered
  <2> QED BY <1>1, <1>4, <1>5, <1>6, <2>1, Capturing!FoldKeeps
<1> QED BY <1>3, <1>7 DEF NetsHolds

SilentOf(entries, s) == \A a \in DOMAIN entries : entries[a].subject # s

LEMMA LeadsLeaves ==
    ASSUME NEW f, NEW g, NEW entries \in Seq(Notes), Leads(f, entries, g), NEW s \in Nat, SilentOf(entries, s)
    PROVE  f[s] = g[s]
<1>1. PICK n \in Nat : n = Len(entries) /\ DOMAIN entries = 1 .. n
  BY ListDomain
<1>2. PICK h : Walk(h, f, entries, g)
  BY DEF Leads
<1>3. /\ h \in [0 .. n -> Maps] /\ h[0] = f /\ h[n] = g
      /\ \A a \in 1 .. n : StepOf(h[a - 1], entries[a], h[a])
  BY <1>1, <1>2 DEF Walk
<1> DEFINE Bad == {a \in 0 .. n : h[a][s] # f[s]}
<1> SUFFICES ASSUME Bad # {} PROVE FALSE
  <2>1. n \in 0 .. n
    OBVIOUS
  <2> QED BY <1>3, <2>1
<1>4. PICK a \in Bad : \A k \in 0 .. n : k < a => k \notin Bad
  <2>1. Bad \subseteq 0 .. n
    OBVIOUS
  <2> HIDE DEF Bad
  <2> QED BY <2>1, LeastIndex
<1>5. a # 0
  BY <1>3
<1>6. a \in 1 .. n /\ a - 1 \in 0 .. n /\ a - 1 < a
  BY <1>4, <1>5
<1>7. h[a - 1][s] = f[s] /\ h[a - 1] \in Maps
  BY <1>3, <1>4, <1>6
<1>8. entries[a].subject # s /\ h[a] = [h[a - 1] EXCEPT ![entries[a].subject] = entries[a].after]
  BY <1>1, <1>3, <1>6 DEF StepOf, SilentOf
<1>9. h[a][s] = f[s]
  BY <1>7, <1>8 DEF Maps
<1> QED BY <1>4, <1>9

LEMMA LeadsElsewhere ==
    ASSUME NEW f, NEW g, NEW entries \in Seq(Notes), Leads(f, entries, g), NEW s \in Nat, SilentOf(entries, s),
           NEW v \in Keys \cup {NoKey}
    PROVE  Leads([f EXCEPT ![s] = v], entries, [g EXCEPT ![s] = v])
<1>1. PICK n \in Nat : n = Len(entries) /\ DOMAIN entries = 1 .. n /\ \A a \in 1 .. n : entries[a] \in Notes
  BY ListDomain
<1>2. PICK h : Walk(h, f, entries, g)
  BY DEF Leads
<1>3. /\ h \in [0 .. n -> Maps] /\ h[0] = f /\ h[n] = g
      /\ \A a \in 1 .. n : StepOf(h[a - 1], entries[a], h[a])
  BY <1>1, <1>2 DEF Walk
<1> DEFINE k == [a \in 0 .. n |-> [h[a] EXCEPT ![s] = v]]
<1>4. k \in [0 .. n -> Maps] /\ k[0] = [f EXCEPT ![s] = v] /\ k[n] = [g EXCEPT ![s] = v]
  <2>1. \A a \in 0 .. n : [h[a] EXCEPT ![s] = v] \in Maps
    BY <1>3 DEF Maps
  <2>2. 0 \in 0 .. n /\ n \in 0 .. n
    OBVIOUS
  <2> QED BY <1>3, <2>1, <2>2
<1>5. ASSUME NEW a \in 1 .. n PROVE StepOf(k[a - 1], entries[a], k[a])
  <2>1. a - 1 \in 0 .. n /\ a \in 0 .. n
    OBVIOUS
  <2> PICK e : e = entries[a]
    OBVIOUS
  <2> PICK x \in Maps : x = h[a - 1]
    BY <1>3, <2>1
  <2> PICK y \in Maps : y = h[a]
    BY <1>3, <2>1
  <2>2. e.subject # s /\ e.subject \in Nat /\ e.after \in Keys \cup {NoKey}
    BY <1>1 DEF SilentOf, Notes, Effects
  <2>3. x[e.subject] = e.before /\ y = [x EXCEPT ![e.subject] = e.after]
    BY <1>3 DEF StepOf
  <2>4. k[a - 1] = [x EXCEPT ![s] = v] /\ k[a] = [y EXCEPT ![s] = v]
    BY <2>1
  <2>5. [y EXCEPT ![s] = v] = [[x EXCEPT ![s] = v] EXCEPT ![e.subject] = e.after]
    BY <2>2, <2>3 DEF Maps
  <2>6. [x EXCEPT ![s] = v][e.subject] = e.before
    BY <2>2, <2>3 DEF Maps
  <2> HIDE DEF k
  <2> QED BY <2>4, <2>5, <2>6 DEF StepOf
<1> HIDE DEF k
<1>6. Walk(k, [f EXCEPT ![s] = v], entries, [g EXCEPT ![s] = v])
  BY <1>1, <1>4, <1>5 DEF Walk
<1> QED BY <1>6 DEF Leads

LEMMA LeadsFurther ==
    ASSUME NEW f, NEW g, NEW entries \in Seq(Notes), Leads(f, entries, g), NEW e \in Notes,
           NEW k \in Maps, StepOf(g, e, k)
    PROVE  Leads(f, Append(entries, e), k)
<1>1. PICK n \in Nat : n = Len(entries) /\ DOMAIN entries = 1 .. n
  BY ListDomain
<1>2. PICK h : Walk(h, f, entries, g)
  BY DEF Leads
<1>3. /\ h \in [0 .. n -> Maps] /\ h[0] = f /\ h[n] = g
      /\ \A a \in 1 .. n : StepOf(h[a - 1], entries[a], h[a])
  BY <1>1, <1>2 DEF Walk
<1> PICK more : more = Append(entries, e)
  OBVIOUS
<1>4. /\ Len(more) = n + 1 /\ more[n + 1] = e
      /\ \A a \in 1 .. n : more[a] = entries[a]
  BY <1>1, AppendIs
<1> DEFINE w == [a \in 0 .. n + 1 |-> IF a = n + 1 THEN k ELSE h[a]]
<1>5. w \in [0 .. n + 1 -> Maps] /\ w[0] = f /\ w[n + 1] = k /\ \A a \in 0 .. n : w[a] = h[a]
  BY <1>3
<1>6. ASSUME NEW a \in 1 .. n + 1 PROVE StepOf(w[a - 1], more[a], w[a])
  <2> HIDE DEF w
  <2>1. CASE a = n + 1
    <3>1. a - 1 = n /\ n \in 0 .. n
      BY <2>1
    <3> QED BY <1>3, <1>4, <1>5, <2>1, <3>1
  <2>2. CASE a # n + 1
    <3>1. a \in 1 .. n /\ a \in 0 .. n /\ a - 1 \in 0 .. n
      BY <2>2
    <3> QED BY <1>3, <1>4, <1>5, <3>1
  <2> QED BY <2>1, <2>2
<1> HIDE DEF w
<1>7. Walk(w, f, more, k)
  BY <1>4, <1>5, <1>6 DEF Walk
<1> QED BY <1>7 DEF Leads

SlotOf(q, path) == SelectInSeq(q, LAMBDA slot : slot.path = path)
IsFirst(q, path, i) ==
    /\ i \in 0 .. Len(q)
    /\ i = 0 <=> \A j \in DOMAIN q : q[j].path # path
    /\ i # 0 => /\ i \in DOMAIN q /\ q[i].path = path
                /\ \A j \in DOMAIN q : q[j].path = path => i <= j

LEMMA SlotOfIs ==
    ASSUME NEW T, NEW q \in Seq(T), NEW path
    PROVE  IsFirst(q, path, SlotOf(q, path))
<1> DEFINE I == {i \in 1 .. Len(q) : q[i].path = path}
<1>1. SlotOf(q, path) = IF I # {} THEN Min(I) ELSE 0
  BY DEF SlotOf, SelectInSeq
<1>2. PICK n \in Nat : n = Len(q) /\ DOMAIN q = 1 .. n
  BY ListDomain
<1>3. I = {} <=> \A j \in DOMAIN q : q[j].path # path
  BY <1>2
<1>4. \A i \in I : i \in DOMAIN q /\ q[i].path = path
  BY <1>2
<1>5. \A i \in DOMAIN q : q[i].path = path => i \in I
  BY <1>2
<1>6. I \subseteq 0 .. n
  BY <1>2
<1>7. 0 \notin I
  OBVIOUS
<1> HIDE DEF I
<1>8. CASE I # {}
  <2>1. PICK m \in I : \A k \in 0 .. n : k < m => k \notin I
    BY <1>6, <1>8, LeastIndex
  <2>2. \A y \in I : m <= y
    BY <1>6, <2>1
  <2>3. Min(I) \in I /\ \A y \in I : Min(I) <= y
    BY <2>2 DEF Min
  <2>4. PICK i \in I : i = Min(I) /\ \A y \in I : i <= y
    BY <2>3
  <2>5. SlotOf(q, path) = i
    BY <1>1, <1>8, <2>4
  <2>6. i # 0 /\ i \in 0 .. n
    BY <1>6, <1>7
  <2> QED BY <1>2, <1>3, <1>4, <1>5, <1>8, <2>4, <2>5, <2>6 DEF IsFirst
<1>9. CASE I = {}
  <2>1. SlotOf(q, path) = 0 /\ 0 \in 0 .. n
    BY <1>1, <1>9
  <2> QED BY <1>2, <1>3, <1>9, <2>1 DEF IsFirst
<1> QED BY <1>8, <1>9

(* r is q with e in the slot i, or, if i is 0, in a new one.               *)
Enqueued(q, r, e, i) ==
    /\ r \in Seq(Slots)
    /\ i = 0 => /\ Len(r) = Len(q) + 1 /\ r[Len(q) + 1] = [path |-> PathOf(e), entries |-> <<e>>]
                /\ \A j \in DOMAIN q : r[j] = q[j]
    /\ i # 0 => /\ Len(r) = Len(q) /\ r[i] = [path |-> q[i].path, entries |-> Coalesce(q[i].entries, e)]
                /\ \A j \in DOMAIN q : j # i => r[j] = q[j]

LEMMA PathIs == ASSUME NEW e \in Notes PROVE PathOf(e) \in Keys
BY DEF Notes, Effects, PathOf

LEMMA CoalesceIs ==
    ASSUME NEW entries \in Seq(Notes), entries # <<>>, NEW e \in Notes
    PROVE  LET new == Coalesce(entries, e)
           IN  /\ new \in Seq(Notes) /\ new # <<>>
               /\ ToSet(new) \subseteq ToSet(entries) \cup {e}
<1> PICK n \in Nat : n = Len(entries) /\ DOMAIN entries = 1 .. n /\ n > 0
  BY ListDomain
<1> PICK a : a = Append(entries, e)
  OBVIOUS
<1> PICK b : b = [entries EXCEPT ![n] = e]
  OBVIOUS
<1>1. a \in Seq(Notes) /\ ToSet(a) = ToSet(entries) \cup {e} /\ a # <<>>
  BY AppendIs
<1>2. b \in Seq(Notes) /\ Len(b) = n /\ DOMAIN b = 1 .. n /\ b[n] = e
      /\ \A i \in 1 .. n : i # n => b[i] = entries[i]
  OBVIOUS
<1>3. ToSet(b) \subseteq ToSet(entries) \cup {e} /\ b # <<>>
  BY <1>2 DEF ToSet
<1>4. Coalesce(entries, e) = a \/ Coalesce(entries, e) = b
  BY DEF Coalesce
<1> QED BY <1>1, <1>2, <1>3, <1>4

LEMMA EnqueuePendingIs ==
    ASSUME NEW q \in Seq(Slots), \A j \in DOMAIN q : q[j].entries # <<>>, NEW e \in Notes
    PROVE  Enqueued(q, EnqueuePending(q, e), e, SlotOf(q, PathOf(e)))
<1> PICK i : i = SlotOf(q, PathOf(e))
  OBVIOUS
<1> PICK r : r = EnqueuePending(q, e)
  OBVIOUS
<1> PICK slot : slot = [path |-> PathOf(e), entries |-> <<e>>]
  OBVIOUS
<1>0. PICK n \in Nat : n = Len(q) /\ DOMAIN q = 1 .. n /\ \A j \in 1 .. n : q[j] \in Slots
  BY ListDomain
<1>1. IsFirst(q, PathOf(e), i)
  BY SlotOfIs
<1>2. r = IF i = 0 THEN Append(q, slot) ELSE [q EXCEPT ![i].entries = Coalesce(q[i].entries, e)]
  BY DEF EnqueuePending, SlotOf
<1>3. slot \in Slots
  BY PathIs DEF Slots
<1>4. CASE i = 0
  <2>1. r = Append(q, slot)
    BY <1>2, <1>4
  <2> QED BY <1>0, <1>3, <1>4, <2>1, AppendIs DEF Enqueued
<1>5. CASE i # 0
  <2>1. i \in 1 .. n
    BY <1>0, <1>1, <1>5 DEF IsFirst
  <2> PICK new : new = Coalesce(q[i].entries, e)
    OBVIOUS
  <2>2. q[i] = [path |-> q[i].path, entries |-> q[i].entries] /\ q[i].path \in Keys
        /\ q[i].entries \in Seq(Notes) /\ q[i].entries # <<>>
    BY <1>0, <2>1 DEF Slots
  <2>3. new \in Seq(Notes)
    BY <2>2, CoalesceIs
  <2> PICK x : x = [path |-> q[i].path, entries |-> new]
    OBVIOUS
  <2>4. [q[i] EXCEPT !.entries = new] = x /\ x \in Slots
    BY <2>2, <2>3 DEF Slots
  <2>5. r = [q EXCEPT ![i] = x]
    BY <1>2, <1>5, <2>4
  <2>6. r \in Seq(Slots) /\ Len(r) = Len(q) /\ r[i] = x /\ \A j \in DOMAIN q : j # i => r[j] = q[j]
    BY <1>0, <2>1, <2>4, <2>5
  <2> QED BY <1>5, <2>6 DEF Enqueued
<1> QED BY <1>4, <1>5

LEMMA InSequenceIs ==
    ASSUME NEW q, NEW e
    PROVE  InSequence(q, e) <=>
             (SlotOf(q, PathOf(e)) # 0 =>
                \A j \in SlotOf(q, PathOf(e)) + 1 .. Len(q) : SilentOf(q[j].entries, e.subject))
BY DEF InSequence, SlotOf, SilentOf, ToSet

LEMMA InSequenceStays ==
    ASSUME NEW q \in Seq(Slots), \A j \in DOMAIN q : q[j].entries # <<>>, NEW e \in Notes,
           NEW d \in Notes, d.subject # e.subject, InSequence(q, d)
    PROVE  InSequence(EnqueuePending(q, e), d)
<1> PICK i : i = SlotOf(q, PathOf(e))
  OBVIOUS
<1> PICK r : r = EnqueuePending(q, e)
  OBVIOUS
<1> PICK k : k = SlotOf(q, PathOf(d))
  OBVIOUS
<1> PICK m : m = SlotOf(r, PathOf(d))
  OBVIOUS
<1>0. PICK n \in Nat : n = Len(q) /\ DOMAIN q = 1 .. n /\ \A j \in 1 .. n : q[j] \in Slots
  BY ListDomain
<1>1. Enqueued(q, r, e, i)
  BY EnqueuePendingIs
<1>a. /\ i = 0 => /\ Len(r) = Len(q) + 1 /\ r[Len(q) + 1] = [path |-> PathOf(e), entries |-> <<e>>]
                  /\ \A x \in DOMAIN q : r[x] = q[x]
      /\ i # 0 => /\ Len(r) = Len(q) /\ r[i] = [path |-> q[i].path, entries |-> Coalesce(q[i].entries, e)]
                  /\ \A x \in DOMAIN q : x # i => r[x] = q[x]
  BY <1>1 DEF Enqueued
<1>2. PICK l \in Nat : l = Len(r) /\ DOMAIN r = 1 .. l
  BY <1>1, ListDomain DEF Enqueued
<1>3. IsFirst(q, PathOf(e), i) /\ IsFirst(q, PathOf(d), k) /\ IsFirst(r, PathOf(d), m)
  BY <1>1, SlotOfIs DEF Enqueued
<1>4. k # 0 => \A j \in k + 1 .. n : SilentOf(q[j].entries, d.subject)
  BY <1>0, InSequenceIs
<1> SUFFICES ASSUME m # 0, NEW j \in m + 1 .. l PROVE SilentOf(r[j].entries, d.subject)
  BY <1>2, InSequenceIs
<1>5. m \in 1 .. l /\ r[m].path = PathOf(d) /\ (\A x \in 1 .. l : r[x].path = PathOf(d) => m <= x) /\ j \in 1 .. l /\ j > m
  <2>1. m \in DOMAIN r /\ r[m].path = PathOf(d) /\ (\A x \in DOMAIN r : r[x].path = PathOf(d) => m <= x)
    BY <1>3 DEF IsFirst
  <2>2. m \in 1 .. l
    BY <1>2, <2>1
  <2>3. j \in 1 .. l /\ j > m
    BY <1>2, <2>2
  <2> QED BY <1>2, <2>1, <2>2, <2>3
<1>6. CASE i = 0
  <2>1. l = n + 1 /\ r[n + 1].entries = <<e>> /\ \A x \in 1 .. n : r[x] = q[x]
    BY <1>0, <1>a, <1>2, <1>6
  <2>2. m \in 1 .. n /\ q[m].path = PathOf(d)
    BY <1>5, <2>1
  <2>3. k # 0 /\ k \in 1 .. n /\ k <= m
    BY <1>0, <1>3, <2>2 DEF IsFirst
  <2>4. CASE j = n + 1
    BY <2>1, <2>4 DEF SilentOf
  <2>5. CASE j # n + 1
    <3>1. j \in k + 1 .. n
      BY <1>5, <2>1, <2>3, <2>5
    <3> QED BY <1>4, <2>1, <2>3, <3>1
  <2> QED BY <2>4, <2>5
<1>7. CASE i # 0
  <2>1. /\ i \in 1 .. n /\ l = n /\ r[i].path = q[i].path /\ r[i].entries = Coalesce(q[i].entries, e)
        /\ \A x \in 1 .. n : x # i => r[x] = q[x]
    <3>1. i \in 1 .. n
      BY <1>0, <1>3, <1>7 DEF IsFirst
    <3> PICK p : p = q[i].path
      OBVIOUS
    <3> PICK c : c = Coalesce(q[i].entries, e)
      OBVIOUS
    <3>2. r[i] = [path |-> p, entries |-> c]
      BY <1>a, <1>7
    <3>3. r[i].path = p /\ r[i].entries = c
      BY <3>2
    <3>4. l = n /\ \A x \in 1 .. n : x # i => r[x] = q[x]
      BY <1>0, <1>a, <1>2, <1>7
    <3> QED BY <3>1, <3>3, <3>4
  <2>2. q[m].path = PathOf(d) /\ m \in 1 .. n /\ j \in 1 .. n
    BY <1>5, <2>1
  <2>3. k # 0 /\ k \in 1 .. n /\ k <= m
    BY <1>0, <1>3, <2>2 DEF IsFirst
  <2>4. j \in k + 1 .. n
    BY <1>5, <2>2, <2>3
  <2>5. SilentOf(q[j].entries, d.subject)
    BY <1>4, <2>3, <2>4
  <2>6. CASE j = i
    <3>1. q[i].entries \in Seq(Notes) /\ q[i].entries # <<>>
      BY <1>0, <2>1 DEF Slots
    <3>2. PICK new : new = Coalesce(q[i].entries, e)
      OBVIOUS
    <3>3. ToSet(new) \subseteq ToSet(q[i].entries) \cup {e}
      BY <3>1, <3>2, CoalesceIs
    <3>4. \A x \in ToSet(q[i].entries) : x.subject # d.subject
      BY <2>5, <2>6 DEF SilentOf, ToSet
    <3>5. \A a \in DOMAIN new : new[a] \in ToSet(new)
      BY DEF ToSet
    <3>6. \A a \in DOMAIN new : new[a].subject # d.subject
      BY <3>3, <3>4, <3>5
    <3> QED BY <2>1, <2>6, <3>2, <3>6 DEF SilentOf
  <2>7. CASE j # i
    BY <2>1, <2>2, <2>5, <2>7
  <2> QED BY <2>6, <2>7
<1> QED BY <1>6, <1>7

SilentAfter(q, i, s) == \A j \in i + 1 .. Len(q) : SilentOf(q[j].entries, s)

LEMMA RouteLeaves ==
    ASSUME NEW q \in Seq(Slots), NEW F, NEW f, NEW g, Route(F, f, q, g), NEW s \in Nat, NEW i \in 0 .. Len(q),
           SilentAfter(q, i, s)
    PROVE  F[i][s] = g[s]
<1>0. PICK n \in Nat : n = Len(q) /\ DOMAIN q = 1 .. n /\ \A j \in 1 .. n : q[j] \in Slots
  BY ListDomain
<1>1. /\ F \in [0 .. n -> Maps] /\ F[0] = f /\ F[n] = g
      /\ \A j \in 1 .. n : Leads(F[j - 1], q[j].entries, F[j])
  BY <1>0 DEF Route
<1> DEFINE Bad == {a \in 0 .. n - i : F[n - a][s] # g[s]}
<1> SUFFICES ASSUME Bad # {} PROVE FALSE
  <2>1. n - i \in 0 .. n - i /\ n - (n - i) = i
    BY <1>0
  <2> QED BY <2>1
<1>4. PICK a \in Bad : \A k \in 0 .. n - i : k < a => k \notin Bad
  <2>1. Bad \subseteq 0 .. n - i /\ n - i \in Nat
    BY <1>0
  <2> HIDE DEF Bad
  <2> QED BY <2>1, LeastIndex
<1>5. a # 0
  BY <1>1
<1>6. a - 1 \in 0 .. n - i /\ a - 1 < a /\ n - a + 1 \in 1 .. n /\ n - a + 1 \in i + 1 .. Len(q)
      /\ (n - a + 1) - 1 = n - a /\ n - (a - 1) = n - a + 1
  BY <1>0, <1>4, <1>5
<1> PICK j \in 1 .. n : j = n - a + 1
  BY <1>6
<1>7. F[j][s] = g[s]
  BY <1>4, <1>6
<1>8. Leads(F[j - 1], q[j].entries, F[j]) /\ q[j].entries \in Seq(Notes) /\ SilentOf(q[j].entries, s)
  BY <1>0, <1>1, <1>6 DEF Slots, SilentAfter
<1>9. F[j - 1][s] = F[j][s]
  <2> PICK x : x = F[j - 1]
    OBVIOUS
  <2> PICK y : y = F[j]
    OBVIOUS
  <2> PICK entries \in Seq(Notes) : entries = q[j].entries
    BY <1>8
  <2>1. Leads(x, entries, y) /\ SilentOf(entries, s)
    BY <1>8
  <2>2. x[s] = y[s]
    BY <2>1, LeadsLeaves
  <2> QED BY <2>2
<1> QED BY <1>4, <1>6, <1>7, <1>9

(* One more entry in a slot.                                               *)
LEMMA LeadsCoalesced ==
    ASSUME NEW f, NEW g \in Maps, NEW entries \in Seq(Notes), entries # <<>>, Leads(f, entries, g),
           NEW e \in Notes, \A a \in DOMAIN entries : PathOf(entries[a]) = PathOf(e),
           g[e.subject] = e.before
    PROVE  Leads(f, Coalesce(entries, e), [g EXCEPT ![e.subject] = e.after])
<1> PICK n \in Nat : n = Len(entries) /\ DOMAIN entries = 1 .. n /\ n > 0 /\ \A a \in 1 .. n : entries[a] \in Notes
  BY ListDomain
<1> PICK tail \in Notes : tail = entries[n]
  OBVIOUS
<1> PICK k : k = [g EXCEPT ![e.subject] = e.after]
  OBVIOUS
<1>1. e.subject \in Nat /\ e.after \in Keys \cup {NoKey} /\ tail.subject \in Nat
  BY DEF Notes, Effects
<1>2. k \in Maps
  BY <1>1 DEF Maps
<1>3. CASE tail.subject = e.subject /\ SameKind(tail, e)
  <2>1. PICK h : Walk(h, f, entries, g)
    BY DEF Leads
  <2>2. /\ h \in [0 .. n -> Maps] /\ h[0] = f /\ h[n] = g
        /\ \A a \in 1 .. n : StepOf(h[a - 1], entries[a], h[a])
    BY <2>1 DEF Walk
  <2>3. n \in 1 .. n /\ n - 1 \in 0 .. n
    OBVIOUS
  <2> PICK x \in Maps : x = h[n - 1]
    BY <2>2, <2>3
  <2>4. x[tail.subject] = tail.before /\ g = [x EXCEPT ![tail.subject] = tail.after]
    BY <2>2, <2>3 DEF StepOf
  <2>5. g[tail.subject] = tail.after
    BY <1>1, <2>4 DEF Maps
  <2>6. tail.after = e.before /\ PathOf(tail) = PathOf(e)
    BY <1>3, <2>3, <2>5
  <2>7. (e.before # NoKey \/ e.after # NoKey) /\ (tail.before # NoKey \/ tail.after # NoKey)
    BY DEF Notes
  <2>8. IsUpdate(e) /\ IsUpdate(tail)
    <3>1. ~IsAdd(e) /\ ~IsAdd(tail)
      BY <1>3, <2>6, <2>7 DEF SameKind, IsAdd
    <3>2. ~IsRemove(e) /\ ~IsRemove(tail)
      BY <1>3, <2>6, <2>7 DEF SameKind, IsRemove
    <3>3. tail.after = e.after
      BY <2>6, <3>2 DEF PathOf, IsRemove
    <3> QED BY <1>3, <2>6, <3>1, <3>2, <3>3 DEF SameKind, IsUpdate, IsAdd, IsRemove
  <2>9. e.before = tail.before /\ e.after = tail.after /\ e.after = e.before
    BY <2>6, <2>8 DEF IsUpdate
  <2>10. k = g
    <3>1. g[e.subject] = e.after
      BY <2>9
    <3> QED BY <3>1 DEF Maps
  <2> PICK new : new = [entries EXCEPT ![n] = e]
    OBVIOUS
  <2>11. Coalesce(entries, e) = new
    BY <1>3 DEF Coalesce
  <2>12. Len(new) = n /\ new[n] = e /\ \A a \in 1 .. n : a # n => new[a] = entries[a]
    OBVIOUS
  <2>13. ASSUME NEW a \in 1 .. n PROVE StepOf(h[a - 1], new[a], h[a])
    <3>1. CASE a = n
      <4>1. StepOf(h[n - 1], tail, h[n])
        BY <2>2, <2>3
      <4>2. StepOf(h[n - 1], e, h[n])
        BY <1>3, <2>9, <4>1 DEF StepOf
      <4> QED BY <2>12, <3>1, <4>2
    <3>2. CASE a # n
      BY <2>2, <2>12, <3>2
    <3> QED BY <3>1, <3>2
  <2>14. Walk(h, f, new, g)
    BY <2>2, <2>12, <2>13 DEF Walk
  <2> QED BY <2>10, <2>11, <2>14 DEF Leads
<1>4. CASE ~(tail.subject = e.subject /\ SameKind(tail, e))
  <2>1. Coalesce(entries, e) = Append(entries, e)
    BY <1>4 DEF Coalesce
  <2>2. StepOf(g, e, k)
    BY DEF StepOf
  <2> QED BY <1>2, <2>1, <2>2, LeadsFurther
<1> QED BY <1>3, <1>4

LEMMA SlotFitsOne ==
    ASSUME NEW f, NEW e \in Notes, IsAdd(e) => f[e.subject] = NoKey
    PROVE  SlotFits([path |-> PathOf(e), entries |-> <<e>>], f)
BY DEF SlotFits, AddsAreNew

LEMMA SlotFitsMore ==
    ASSUME NEW f, NEW slot \in Slots, SlotFits(slot, f), NEW e \in Notes, PathOf(e) = slot.path,
           IsAdd(e) => f[e.subject] = NoKey
    PROVE  SlotFits([path |-> slot.path, entries |-> Coalesce(slot.entries, e)], f)
<1> PICK old : old = slot.entries
  OBVIOUS
<1> PICK new : new = Coalesce(old, e)
  OBVIOUS
<1>1. old \in Seq(Notes) /\ old # <<>> /\ AddsAreNew(old, f) /\ \A a \in DOMAIN old : PathOf(old[a]) = slot.path
  BY DEF SlotFits, Slots
<1>2. new # <<>> /\ ToSet(new) \subseteq ToSet(old) \cup {e}
  BY <1>1, CoalesceIs
<1>3. \A x \in ToSet(old) \cup {e} : PathOf(x) = slot.path /\ (IsAdd(x) => f[x.subject] = NoKey)
  BY <1>1 DEF AddsAreNew, ToSet
<1>4. \A a \in DOMAIN new : new[a] \in ToSet(new)
  BY DEF ToSet
<1>5. \A a \in DOMAIN new : PathOf(new[a]) = slot.path /\ (IsAdd(new[a]) => f[new[a].subject] = NoKey)
  BY <1>2, <1>3, <1>4
<1> PICK more : more = [path |-> slot.path, entries |-> new]
  OBVIOUS
<1>6. more.path = slot.path /\ more.entries = new
  OBVIOUS
<1> QED BY <1>2, <1>5, <1>6 DEF SlotFits, AddsAreNew

LEMMA EnqueueKeeps ==
    ASSUME NEW f \in Maps, NEW g \in Maps, NEW q, Trail(q, f, g), NEW e \in Notes, InSequence(q, e),
           g[e.subject] = e.before, IsAdd(e) => f[e.subject] = NoKey
    PROVE  Trail(EnqueuePending(q, e), f, [g EXCEPT ![e.subject] = e.after])
<1> PICK i : i = SlotOf(q, PathOf(e))
  OBVIOUS
<1> PICK r : r = EnqueuePending(q, e)
  OBVIOUS
<1> PICK s : s = e.subject
  OBVIOUS
<1> PICK v : v = e.after
  OBVIOUS
<1> PICK k : k = [g EXCEPT ![s] = v]
  OBVIOUS
<1>0. q \in Seq(Slots) /\ \A j \in DOMAIN q : SlotFits(q[j], f)
  BY DEF Trail
<1>1. PICK n \in Nat : n = Len(q) /\ DOMAIN q = 1 .. n /\ \A j \in 1 .. n : q[j] \in Slots
  BY <1>0, ListDomain
<1>2. PICK F : Route(F, f, q, g)
  BY DEF Trail
<1>3. /\ F \in [0 .. n -> Maps] /\ F[0] = f /\ F[n] = g
      /\ \A j \in 1 .. n : Leads(F[j - 1], q[j].entries, F[j])
  BY <1>1, <1>2 DEF Route
<1>4. s \in Nat /\ v \in Keys \cup {NoKey} /\ k \in Maps
  <2>1. s \in Nat /\ v \in Keys \cup {NoKey}
    BY DEF Notes, Effects
  <2> QED BY <2>1 DEF Maps
<1>5. IsFirst(q, PathOf(e), i)
  BY <1>0, SlotOfIs
<1>6. Enqueued(q, r, e, i)
  <2>1. \A j \in DOMAIN q : q[j].entries # <<>>
    BY <1>0 DEF SlotFits
  <2> QED BY <1>0, <2>1, EnqueuePendingIs
<1>7. /\ r \in Seq(Slots)
      /\ i = 0 => /\ Len(r) = n + 1 /\ r[n + 1] = [path |-> PathOf(e), entries |-> <<e>>]
                  /\ \A x \in 1 .. n : r[x] = q[x]
      /\ i # 0 => /\ Len(r) = n /\ r[i] = [path |-> q[i].path, entries |-> Coalesce(q[i].entries, e)]
                  /\ \A x \in 1 .. n : x # i => r[x] = q[x]
  BY <1>1, <1>6 DEF Enqueued
<1>8. CASE i = 0
  <2> PICK l \in Nat : l = n + 1
    OBVIOUS
  <2> DEFINE G == [j \in 0 .. l |-> IF j = l THEN k ELSE F[j]]
  <2>1. Len(r) = l /\ DOMAIN r = 1 .. l
    <3>1. DOMAIN r = 1 .. Len(r)
      BY <1>7, ListDomain
    <3> QED BY <1>7, <1>8, <3>1
  <2>2. G \in [0 .. l -> Maps] /\ G[0] = f /\ G[l] = k /\ \A j \in 0 .. n : G[j] = F[j]
    BY <1>3, <1>4
  <2> HIDE DEF G
  <2>3. r[l].entries = <<e>>
    BY <1>7, <1>8
  <2>4. Leads(g, <<e>>, k)
    <3> DEFINE h == [a \in 0 .. 1 |-> IF a = 0 THEN g ELSE k]
    <3>1. h \in [0 .. 1 -> Maps] /\ h[0] = g /\ h[1] = k
      BY <1>4
    <3> HIDE DEF h
    <3>2. StepOf(h[0], e, h[1])
      BY <3>1 DEF StepOf
    <3> PICK one : one = <<e>>
      OBVIOUS
    <3>3. Len(one) = 1 /\ one[1] = e /\ \A a \in 1 .. 1 : a = 1 /\ a - 1 = 0
      OBVIOUS
    <3>4. Walk(h, g, one, k)
      BY <3>1, <3>2, <3>3 DEF Walk
    <3> QED BY <3>4 DEF Leads
  <2>5. ASSUME NEW j \in 1 .. l PROVE Leads(G[j - 1], r[j].entries, G[j]) /\ SlotFits(r[j], f)
    <3>1. CASE j = l
      <4>1. j - 1 = n /\ n \in 0 .. n
        BY <3>1
      <4>2. Leads(G[j - 1], r[j].entries, G[j])
        BY <1>3, <2>2, <2>3, <2>4, <3>1, <4>1
      <4>3. r[j] = [path |-> PathOf(e), entries |-> <<e>>]
        BY <1>7, <1>8, <3>1
      <4>4. SlotFits([path |-> PathOf(e), entries |-> <<e>>], f)
        BY SlotFitsOne
      <4> QED BY <4>2, <4>3, <4>4
    <3>2. CASE j # l
      <4>1. j \in 1 .. n /\ j \in 0 .. n /\ j - 1 \in 0 .. n
        BY <3>2
      <4> QED BY <1>0, <1>1, <1>3, <1>7, <1>8, <2>2, <4>1
    <3> QED BY <3>1, <3>2
  <2>6. Route(G, f, r, k)
    BY <2>1, <2>2, <2>5 DEF Route
  <2> QED BY <1>7, <2>1, <2>5, <2>6 DEF Trail
<1>9. CASE i # 0
  <2>0. i \in 1 .. n /\ i \in 0 .. n /\ i - 1 \in 0 .. n /\ q[i].path = PathOf(e)
    BY <1>1, <1>5, <1>9 DEF IsFirst
  <2> DEFINE G == [j \in 0 .. n |-> IF j < i THEN F[j] ELSE [F[j] EXCEPT ![s] = v]]
  <2>1. Len(r) = n /\ DOMAIN r = 1 .. n
    <3>1. DOMAIN r = 1 .. Len(r)
      BY <1>7, ListDomain
    <3> QED BY <1>7, <1>9, <3>1
  <2>2. G \in [0 .. n -> Maps]
    <3>1. \A x \in Maps : [x EXCEPT ![s] = v] \in Maps
      BY <1>4 DEF Maps
    <3>2. \A j \in 0 .. n : F[j] \in Maps
      BY <1>3
    <3>3. \A j \in 0 .. n : (IF j < i THEN F[j] ELSE [F[j] EXCEPT ![s] = v]) \in Maps
      BY <3>1, <3>2
    <3> QED BY <3>3
  <2>3. G[0] = f /\ G[n] = k
    BY <1>3, <2>0
  <2>a. /\ \A j \in 0 .. n : j < i => G[j] = F[j]
        /\ \A j \in 0 .. n : ~(j < i) => G[j] = [F[j] EXCEPT ![s] = v]
    OBVIOUS
  <2> HIDE DEF G
  <2>4. \A j \in i + 1 .. n : SilentOf(q[j].entries, s)
    BY <1>1, <1>9, InSequenceIs
  <2>5. F[i][s] = e.before
    <3>0. SilentAfter(q, i, s) /\ i \in 0 .. Len(q)
      BY <1>1, <2>0, <2>4 DEF SilentAfter
    <3>1. F[i][s] = g[s]
      BY <1>0, <1>2, <1>4, <3>0, RouteLeaves
    <3> QED BY <3>1
  <2>6. q[i] \in Slots /\ SlotFits(q[i], f) /\ Leads(F[i - 1], q[i].entries, F[i])
    BY <1>0, <1>1, <1>3, <2>0
  <2>7. r[i] = [path |-> q[i].path, entries |-> Coalesce(q[i].entries, e)]
    BY <1>7, <1>9
  <2>8. Leads(G[i - 1], r[i].entries, G[i])
    <3> PICK entries : entries = q[i].entries
      OBVIOUS
    <3> PICK new : new = Coalesce(entries, e)
      OBVIOUS
    <3> PICK x \in Maps : x = F[i]
      BY <1>3, <2>0
    <3>1. entries \in Seq(Notes) /\ entries # <<>> /\ \A a \in DOMAIN entries : PathOf(entries[a]) = PathOf(e)
      BY <2>0, <2>6 DEF Slots, SlotFits
    <3>2. Leads(F[i - 1], new, [x EXCEPT ![s] = v])
      BY <2>5, <2>6, <3>1, LeadsCoalesced
    <3>3. r[i].entries = new
      BY <2>7
    <3>a. i - 1 < i /\ ~(i < i)
      BY <2>0
    <3>4. G[i - 1] = F[i - 1] /\ G[i] = [x EXCEPT ![s] = v]
      BY <2>0, <2>a, <3>a
    <3> QED BY <3>2, <3>3, <3>4
  <2>9. SlotFits(r[i], f)
    BY <2>0, <2>6, <2>7, SlotFitsMore
  <2>10. ASSUME NEW j \in 1 .. n, j # i PROVE Leads(G[j - 1], r[j].entries, G[j]) /\ SlotFits(r[j], f)
    <3>1. r[j] = q[j] /\ SlotFits(q[j], f) /\ q[j].entries \in Seq(Notes)
      BY <1>0, <1>1, <1>7, <1>9, <2>10 DEF Slots
    <3>2. j - 1 \in 0 .. n /\ j \in 0 .. n
      OBVIOUS
    <3>3. Leads(F[j - 1], q[j].entries, F[j])
      BY <1>3
    <3>4. CASE j < i
      <4>0. j - 1 < i
        BY <2>0, <3>4
      <4>1. G[j - 1] = F[j - 1] /\ G[j] = F[j]
        BY <2>a, <3>2, <3>4, <4>0
      <4> QED BY <3>1, <3>3, <4>1
    <3>5. CASE ~(j < i)
      <4>1. j \in i + 1 .. n /\ ~(j - 1 < i)
        BY <2>0, <2>10, <3>5
      <4>2. G[j - 1] = [F[j - 1] EXCEPT ![s] = v] /\ G[j] = [F[j] EXCEPT ![s] = v]
        BY <2>a, <3>2, <3>5, <4>1
      <4>3. SilentOf(q[j].entries, s)
        BY <2>4, <4>1
      <4>4. Leads([F[j - 1] EXCEPT ![s] = v], q[j].entries, [F[j] EXCEPT ![s] = v])
        BY <1>4, <3>1, <3>3, <4>3, LeadsElsewhere
      <4> QED BY <3>1, <4>2, <4>4
    <3> QED BY <3>4, <3>5
  <2>11. \A j \in 1 .. n : Leads(G[j - 1], r[j].entries, G[j]) /\ SlotFits(r[j], f)
    BY <2>8, <2>9, <2>10
  <2>12. Route(G, f, r, k)
    BY <2>1, <2>2, <2>3, <2>11 DEF Route
  <2> QED BY <1>7, <2>1, <2>11, <2>12 DEF Trail
<1> QED BY <1>8, <1>9

(* The announcements of one write take the rows from f to g; n is the next *)
(* row.                                                                    *)
Announces(list, n, f, g) ==
    /\ list \in Seq(Notes)
    /\ \A i, j \in DOMAIN list : list[i].subject = list[j].subject => i = j
    /\ \A i \in DOMAIN list : /\ list[i].before = f[list[i].subject] /\ list[i].after = g[list[i].subject]
                              /\ IsAdd(list[i]) => list[i].subject >= n
    /\ \A s \in Nat : f[s] # g[s] => \E i \in DOMAIN list : list[i].subject = s

Over(f, g, list, n) == [s \in Nat |-> IF \E i \in 1 .. n : list[i].subject = s THEN g[s] ELSE f[s]]

AnnounceStep(nothing, q, e) == EnqueuePending(q, e)
AnnounceHolds(p, n, q) ==
    /\ Trail(q, p.origin, Over(p.f, p.g, p.list, n))
    /\ \A i \in DOMAIN p.list : i > n => InSequence(q, p.list[i])
Announcing == INSTANCE Stepwise WITH Step <- AnnounceStep, Holds <- AnnounceHolds

LEMMA AnnouncedIs ==
    ASSUME NEW origin \in Maps, NEW f \in Maps, NEW g \in Maps, NEW m, NEW list, Announces(list, m, f, g),
           \A s \in Nat : s >= m => origin[s] = NoKey,
           Trail(queue, origin, f), \A e \in ToSet(list) : InSequence(queue, e)
    PROVE  Trail(FoldLeft(EnqueuePending, queue, list), origin, g)
<1>0. /\ list \in Seq(Notes)
      /\ \A i, j \in DOMAIN list : list[i].subject = list[j].subject => i = j
      /\ \A i \in DOMAIN list : /\ list[i].before = f[list[i].subject] /\ list[i].after = g[list[i].subject]
                                /\ IsAdd(list[i]) => list[i].subject >= m
      /\ \A s \in Nat : f[s] # g[s] => \E i \in DOMAIN list : list[i].subject = s
  BY DEF Announces
<1>1. PICK n \in Nat : n = Len(list) /\ DOMAIN list = 1 .. n /\ \A i \in 1 .. n : list[i] \in Notes
  BY <1>0, ListDomain
<1> DEFINE p == [origin |-> origin, f |-> f, g |-> g, list |-> list]
<1> PICK r : r = FoldLeft(EnqueuePending, queue, list)
  OBVIOUS
<1>2. r = Announcing!Folded(NoKey, queue, list)
  BY DEF Announcing!Folded, Announcing!Greatest, AnnounceStep, FoldLeft, MapThenFoldSet, Max
<1>3. AnnounceHolds(p, 0, queue)
  <2>1. Over(f, g, list, 0) = f
    BY DEF Over, Maps
  <2>2. \A i \in DOMAIN list : InSequence(queue, list[i])
    BY DEF ToSet
  <2> QED BY <2>1, <2>2 DEF AnnounceHolds
<1>4. ASSUME NEW q, NEW i \in 1 .. n, AnnounceHolds(p, i - 1, q)
      PROVE  AnnounceHolds(p, i, AnnounceStep(NoKey, q, list[i]))
  <2> PICK e \in Notes : e = list[i]
    BY <1>1
  <2> PICK x : x = Over(f, g, list, i - 1)
    OBVIOUS
  <2> PICK y : y = Over(f, g, list, i)
    OBVIOUS
  <2>1. Trail(q, origin, x) /\ \A j \in DOMAIN list : j > i - 1 => InSequence(q, list[j])
    BY <1>4 DEF AnnounceHolds
  <2>2. e.subject \in Nat /\ e.after \in Keys \cup {NoKey}
    BY DEF Notes, Effects
  <2>3. x \in Maps
    BY DEF Over, Maps
  <2>4. \A j \in 1 .. i - 1 : j \in 1 .. n /\ list[j].subject # e.subject
    BY <1>0, <1>1
  <2>5. x[e.subject] = e.before
    BY <1>0, <1>1, <2>2, <2>4 DEF Over
  <2>6. y = [x EXCEPT ![e.subject] = e.after]
    <3>1. 1 .. i = (1 .. i - 1) \cup {i}
      OBVIOUS
    <3>2. e.after = g[e.subject]
      BY <1>0, <1>1
    <3>3. \A s \in Nat : y[s] = IF s = e.subject THEN e.after ELSE x[s]
      BY <3>1, <3>2 DEF Over
    <3>4. DOMAIN y = Nat /\ DOMAIN x = Nat /\ x = [s \in Nat |-> x[s]] /\ y = [s \in Nat |-> y[s]]
      BY DEF Over
    <3> QED BY <3>3, <3>4
  <2>7. IsAdd(e) => origin[e.subject] = NoKey
    BY <1>0, <1>1, <2>2
  <2>8. InSequence(q, e)
    <3>1. i > i - 1 /\ i \in DOMAIN list
      BY <1>1
    <3> QED BY <2>1, <3>1
  <2>9. Trail(EnqueuePending(q, e), origin, y)
    BY <2>1, <2>3, <2>5, <2>6, <2>7, <2>8, EnqueueKeeps
  <2>10. ASSUME NEW j \in DOMAIN list, j > i PROVE InSequence(EnqueuePending(q, e), list[j])
    <3> PICK d \in Notes : d = list[j]
      BY <1>1
    <3>1. j > i - 1 /\ j # i /\ i \in DOMAIN list
      BY <1>1, <2>10
    <3>2. InSequence(q, d) /\ d.subject # e.subject
      BY <1>0, <2>1, <3>1
    <3>3. q \in Seq(Slots) /\ \A k \in DOMAIN q : q[k].entries # <<>>
      BY <2>1 DEF Trail, SlotFits
    <3> QED BY <3>2, <3>3, InSequenceStays
  <2> QED BY <2>9, <2>10 DEF AnnounceHolds, AnnounceStep
<1>5. AnnounceHolds(p, n, r)
  <2>1. Announcing!PlacesAreOrdered(n)
    BY LeastPlaces DEF Announcing!PlacesAreOrdered
  <2> QED BY <1>1, <1>2, <1>3, <1>4, <2>1, Announcing!FoldKeeps
<1>6. Over(f, g, list, n) = g
  BY <1>0, <1>1 DEF Over, Maps
<1> QED BY <1>5, <1>6 DEF AnnounceHolds

-----------------------------------------------------------------------------
(* The writes                                                              *)

KeysNow(chain) == [s \in Nat |-> KeyIn(chain, s)]
Now(states) == [s \in Nat |-> IF s \in DOMAIN states THEN states[s] ELSE NoKey]

LEMMA NowIs ==
    ASSUME NEW w, Sound(w)
    PROVE  /\ KeysNow(w.chain) = Now(w.states) /\ Now(w.states) \in Maps
           /\ \A s \in Nat : s >= w.next => Now(w.states)[s] = NoKey
           /\ \A s \in DOMAIN w.states : s \in Nat /\ Now(w.states)[s] = w.states[s]
<1>1. KeysNow(w.chain) = Now(w.states)
  BY KeyInIs DEF KeysNow, Now
<1>2. w.next \in Nat /\ DOMAIN w.states = 1 .. w.next - 1 /\ w.states \in [1 .. w.next - 1 -> Keys \cup {NoKey}]
  BY DEF Sound
<1>3. Now(w.states) \in Maps
  BY <1>2 DEF Now, Maps
<1>4. \A s \in Nat : s >= w.next => s \notin DOMAIN w.states
  BY <1>2
<1>5. \A s \in DOMAIN w.states : s \in Nat
  BY <1>2
<1> QED BY <1>1, <1>3, <1>4, <1>5 DEF Now

LEMMA IdIs ==
    ASSUME NEW w, Sound(w), NEW k \in DOMAIN w.ids
    PROVE  /\ w.ids[k] \in Live(w.states) /\ w.states[w.ids[k]] = k /\ k \in Keys /\ w.ids[k] \in Nat
           /\ w.ids[k] \in DOMAIN w.states /\ w.ids[k] > 0 /\ w.ids[k] < w.next
<1>1. PICK s \in Live(w.states) : w.states[s] = k
  BY DEF Sound, IdsTell
<1>2. w.ids[k] = s
  BY <1>1 DEF Sound, IdsTell
<1> QED BY <1>1, <1>2, LiveIs

LEMMA SubjectAtIs ==
    ASSUME NEW w, Sound(w), NEW i
    PROVE  SubjectAt(w.chain, i) \in Nat
<1>1. w.chain \in Seq(Nodes)
  BY DEF Sound, ChainTells
<1>2. i \in DOMAIN w.chain => w.chain[i] \in Nodes
  BY <1>1, ListDomain
<1> QED BY <1>2 DEF SubjectAt, Nodes

IsNote(e, s, before, after) == e \in Notes /\ e.subject = s /\ e.before = before /\ e.after = after

LEMMA EffectIs ==
    ASSUME NEW s \in Nat, NEW before \in Keys \cup {NoKey}, NEW after \in Keys \cup {NoKey},
           before # NoKey \/ after # NoKey, NEW left \in Nat, NEW right \in Nat
    PROVE  IsNote(Effect(s, before, after, left, right), s, before, after)
BY DEF Effect, Effects, Notes, IsNote

(* The list tells what happens to the rows of X, each once.                *)
Tells(list, n, f, g, X) ==
    /\ list \in Seq(Notes)
    /\ \A i, j \in DOMAIN list : list[i].subject = list[j].subject => i = j
    /\ \A i \in DOMAIN list : /\ list[i].before = f[list[i].subject] /\ list[i].after = g[list[i].subject]
                              /\ IsAdd(list[i]) => list[i].subject >= n
    /\ X = {list[i].subject : i \in DOMAIN list}

LEMMA TellsAll ==
    ASSUME NEW list, NEW n \in Nat, NEW f, NEW g, NEW X, Tells(list, n, f, g, X), \A s \in Nat \ X : f[s] = g[s]
    PROVE  Announces(list, n, f, g)
BY DEF Tells, Announces

(* A list with one announcement for each of the rows at some places.       *)
Apart(who, m)             == \A i, j \in 1 .. m : who[i] = who[j] => i = j
Noted(list, who, m, f, g) == /\ list = [i \in 1 .. m |-> list[i]]
                             /\ \A i \in 1 .. m : IsNote(list[i], who[i], f[who[i]], g[who[i]])
NewFrom(who, m, f, n)     == \A i \in 1 .. m : f[who[i]] = NoKey => who[i] >= n

LEMMA TellsEach ==
    ASSUME NEW m \in Nat, NEW list, NEW who, Apart(who, m),
           NEW n \in Nat, NEW f, NEW g, Noted(list, who, m, f, g), NewFrom(who, m, f, n),
           NEW X, X = {who[i] : i \in 1 .. m}
    PROVE  Tells(list, n, f, g, X)
<1>1. DOMAIN list = 1 .. m
  BY DEF Noted
<1>2. \A i \in 1 .. m : list[i] \in Notes
  BY DEF IsNote, Noted
<1>3. list \in Seq(Notes)
  BY <1>1, <1>2 DEF Noted
<1>4. \A i \in 1 .. m : /\ list[i].subject = who[i] /\ list[i].before = f[who[i]] /\ list[i].after = g[who[i]]
                        /\ IsAdd(list[i]) => who[i] >= n
  BY DEF IsNote, IsAdd, Noted, NewFrom
<1>5. \A i, j \in 1 .. m : list[i].subject = list[j].subject => i = j
  BY <1>4 DEF Apart
<1>6. X = {list[i].subject : i \in 1 .. m}
  BY <1>4
<1> QED BY <1>1, <1>3, <1>4, <1>5, <1>6 DEF Tells

LEMMA TellsBoth ==
    ASSUME NEW n \in Nat, NEW f, NEW g, NEW a, NEW b, NEW X, NEW Y, Tells(a, n, f, g, X), Tells(b, n, f, g, Y),
           X \cap Y = {}
    PROVE  Tells(a \o b, n, f, g, X \cup Y)
<1> PICK c : c = a \o b
  OBVIOUS
<1>0. a \in Seq(Notes) /\ b \in Seq(Notes)
  BY DEF Tells
<1> PICK l \in Nat : l = Len(a) /\ DOMAIN a = 1 .. l
  BY <1>0, ListDomain
<1> PICK m \in Nat : m = Len(b) /\ DOMAIN b = 1 .. m
  BY <1>0, ListDomain
<1>1. /\ c \in Seq(Notes) /\ DOMAIN c = 1 .. l + m
      /\ \A i \in 1 .. l : c[i] = a[i]
      /\ \A i \in 1 .. m : c[l + i] = b[i]
  BY <1>0
<1>2. \A i \in 1 .. l + m : i \in 1 .. l \/ (i - l \in 1 .. m /\ l + (i - l) = i)
  OBVIOUS
<1>3. /\ \A i \in 1 .. l : i \in 1 .. l + m
      /\ \A i \in 1 .. m : l + i \in 1 .. l + m
  OBVIOUS
<1>4. /\ \A i, j \in 1 .. l : a[i].subject = a[j].subject => i = j
      /\ \A i, j \in 1 .. m : b[i].subject = b[j].subject => i = j
      /\ \A i \in 1 .. l : a[i].subject \in X
      /\ \A i \in 1 .. m : b[i].subject \in Y
      /\ X = {a[i].subject : i \in 1 .. l} /\ Y = {b[i].subject : i \in 1 .. m}
  BY DEF Tells
<1>8. /\ \A i \in 1 .. l : /\ a[i].before = f[a[i].subject] /\ a[i].after = g[a[i].subject]
                           /\ IsAdd(a[i]) => a[i].subject >= n
      /\ \A i \in 1 .. m : /\ b[i].before = f[b[i].subject] /\ b[i].after = g[b[i].subject]
                           /\ IsAdd(b[i]) => b[i].subject >= n
  BY DEF Tells
<1>5. ASSUME NEW i \in 1 .. l + m, NEW j \in 1 .. l + m, c[i].subject = c[j].subject PROVE i = j
  <2>1. CASE i \in 1 .. l /\ j \in 1 .. l
    BY <1>1, <1>4, <1>5, <2>1
  <2>2. CASE i \notin 1 .. l /\ j \notin 1 .. l
    <3> PICK x \in 1 .. m : l + x = i
      BY <1>2, <2>2
    <3> PICK y \in 1 .. m : l + y = j
      BY <1>2, <2>2
    <3>1. c[i] = b[x] /\ c[j] = b[y]
      BY <1>1
    <3>2. x = y
      BY <1>4, <1>5, <3>1
    <3> QED BY <3>2
  <2>3. CASE i \in 1 .. l /\ j \notin 1 .. l
    <3> PICK y \in 1 .. m : l + y = j
      BY <1>2, <2>3
    <3>1. c[i] = a[i] /\ c[j] = b[y]
      BY <1>1, <2>3
    <3>2. a[i].subject \in X /\ b[y].subject \in Y
      BY <1>4, <2>3
    <3> QED BY <1>5, <3>1, <3>2
  <2>4. CASE i \notin 1 .. l /\ j \in 1 .. l
    <3> PICK x \in 1 .. m : l + x = i
      BY <1>2, <2>4
    <3> QED BY <1>1, <1>4, <1>5, <2>4
  <2> QED BY <2>1, <2>2, <2>3, <2>4
<1>6. ASSUME NEW i \in 1 .. l + m
      PROVE  /\ c[i].before = f[c[i].subject] /\ c[i].after = g[c[i].subject]
             /\ IsAdd(c[i]) => c[i].subject >= n
             /\ c[i].subject \in X \cup Y
  <2>1. CASE i \in 1 .. l
    <3>1. c[i] = a[i]
      BY <1>1, <2>1
    <3>2. c[i].before = f[c[i].subject] /\ c[i].after = g[c[i].subject]
      BY <3>1, <1>8, <2>1
    <3>3. IsAdd(c[i]) => c[i].subject >= n
      BY <3>1, <1>8, <2>1 DEF IsAdd
    <3>4. c[i].subject \in X
      BY <3>1, <1>4, <2>1
    <3> QED BY <3>2, <3>3, <3>4
  <2>2. CASE i \notin 1 .. l
    <3> PICK x \in 1 .. m : l + x = i
      BY <1>2, <2>2
    <3>1. c[i] = b[x]
      BY <1>1
    <3>2. c[i].before = f[c[i].subject] /\ c[i].after = g[c[i].subject]
      BY <3>1, <1>8
    <3>3. IsAdd(c[i]) => c[i].subject >= n
      BY <3>1, <1>8 DEF IsAdd
    <3>4. c[i].subject \in Y
      BY <3>1, <1>4
    <3> QED BY <3>2, <3>3, <3>4
  <2> QED BY <2>1, <2>2
<1>7. X \cup Y \subseteq {c[i].subject : i \in 1 .. l + m}
  <2>1. X \subseteq {c[i].subject : i \in 1 .. l + m}
    BY <1>1, <1>3, <1>4
  <2>2. ASSUME NEW y \in Y PROVE y \in {c[i].subject : i \in 1 .. l + m}
    <3> PICK i \in 1 .. m : y = b[i].subject
      BY <1>4
    <3>1. c[l + i] = b[i] /\ l + i \in 1 .. l + m
      BY <1>1, <1>3
    <3> PICK j \in 1 .. l + m : j = l + i
      BY <3>1
    <3> QED BY <3>1
  <2> QED BY <2>1, <2>2
<1>9. {c[i].subject : i \in 1 .. l + m} \subseteq X \cup Y
  BY <1>6
<1>10. X \cup Y = {c[i].subject : i \in DOMAIN c}
  BY <1>1, <1>7, <1>9
<1>11. \A i, j \in DOMAIN c : c[i].subject = c[j].subject => i = j
  BY <1>1, <1>5
<1>12. \A i \in DOMAIN c : /\ c[i].before = f[c[i].subject] /\ c[i].after = g[c[i].subject]
                           /\ IsAdd(c[i]) => c[i].subject >= n
  BY <1>1, <1>6
<1>13. c \in Seq(Notes)
  BY <1>1
<1>14. Tells(c, n, f, g, X \cup Y)
  BY <1>10, <1>11, <1>12, <1>13 DEF Tells
<1> QED BY <1>14

(* The store becomes v, and the list announces it.                         *)
Written(w, v, list) ==
    /\ Sound(v) /\ v.next >= w.next
    /\ Announces(list, w.next, Now(w.states), Now(v.states))

LEMMA OneWritten ==
    ASSUME NEW w, Sound(w), NEW v, Sound(v), v.next >= w.next, NEW s \in Nat, NEW e,
           IsNote(e, s, Now(w.states)[s], Now(v.states)[s]), Now(w.states)[s] = NoKey => s >= w.next,
           \A t \in Nat \ {s} : Now(v.states)[t] = Now(w.states)[t]
    PROVE  Written(w, v, <<e>>)
<1> PICK f : f = Now(w.states)
  OBVIOUS
<1> PICK g : g = Now(v.states)
  OBVIOUS
<1> PICK list : list = <<e>>
  OBVIOUS
<1> DEFINE who == [i \in 1 .. 1 |-> s]
<1>1. list = [i \in 1 .. 1 |-> list[i]] /\ \A i \in 1 .. 1 : i = 1 /\ list[i] = e /\ who[i] = s
  OBVIOUS
<1> HIDE DEF who
<1>2. Apart(who, 1)
  BY DEF Apart
<1>3. Noted(list, who, 1, f, g)
  BY <1>1 DEF Noted
<1>4. NewFrom(who, 1, f, w.next)
  BY <1>1 DEF NewFrom
<1>5. 1 \in Nat /\ w.next \in Nat
  BY DEF Sound
<1>9. PICK X : X = {who[i] : i \in 1 .. 1}
  OBVIOUS
<1>6. Tells(list, w.next, f, g, X)
  BY <1>2, <1>3, <1>4, <1>5, <1>9, TellsEach
<1>7. \A t \in Nat \ X : f[t] = g[t]
  BY <1>1, <1>9
<1>8. Announces(list, w.next, f, g)
  BY <1>5, <1>6, <1>7, TellsAll
<1> QED BY <1>8 DEF Written

LEMMA OneAdded ==
    ASSUME NEW w, Sound(w), NEW k \in Keys, k \notin DOMAIN w.ids, NEW v, AddedOne(w, v, k),
           NEW u, Sound(u), u.next = v.next, u.states = v.states, NEW left \in Nat, NEW right \in Nat
    PROVE  Written(w, u, <<Effect(w.next, NoKey, k, left, right)>>)
<1>1. /\ w.next \in Nat /\ w.next > 0 /\ DOMAIN w.states = 1 .. w.next - 1
      /\ v.next = w.next + 1 /\ v.states = Lengthened(w.states, w.next, k)
  BY DEF Sound, AddedOne
<1>2. Now(w.states)[w.next] = NoKey /\ Now(u.states)[w.next] = k
  BY <1>1 DEF Now, Lengthened
<1>3. \A t \in Nat \ {w.next} : Now(u.states)[t] = Now(w.states)[t]
  BY <1>1 DEF Now, Lengthened
<1> PICK e : e = Effect(w.next, NoKey, k, left, right)
  OBVIOUS
<1>4. IsNote(e, w.next, NoKey, k)
  BY <1>1, EffectIs, KeysAssumption
<1>5. IsNote(e, w.next, Now(w.states)[w.next], Now(u.states)[w.next])
  BY <1>2, <1>4
<1>6. u.next >= w.next /\ w.next >= w.next
  BY <1>1
<1>7. Written(w, u, <<e>>)
  BY <1>1, <1>3, <1>5, <1>6, OneWritten
<1> QED BY <1>7

LEMMA AddOneWrites ==
    ASSUME NEW w, Sound(w), NEW k \in Keys, k \notin DOMAIN w.ids, NEW fresh,
           NEW left \in Nat, NEW right \in Nat
    PROVE  Written(w, CreateSubject(w, w.next, k, fresh), <<Effect(w.next, NoKey, k, left, right)>>)
<1> PICK v : v = CreateSubject(w, w.next, k, fresh)
  OBVIOUS
<1>1. AddedOne(w, v, k)
  BY CreateSubjectIs
<1>2. Sound(v)
  BY <1>1 DEF AddedOne
<1> QED BY <1>1, <1>2, OneAdded

LEMMA PrependOneWrites ==
    ASSUME NEW w, Sound(w), NEW k \in Keys, k \notin DOMAIN w.ids, NEW fresh,
           NEW left \in Nat, NEW right \in Nat
    PROVE  Written(w, MoveKeysToFront(CreateSubject(w, w.next, k, fresh), <<k>>, fresh),
                   <<Effect(w.next, NoKey, k, left, right)>>)
<1> PICK v : v = CreateSubject(w, w.next, k, fresh)
  OBVIOUS
<1>1. AddedOne(w, v, k)
  BY CreateSubjectIs
<1>2. Sound(v) /\ k \in DOMAIN v.ids
  BY <1>1 DEF AddedOne
<1>7. PICK keys : keys = <<k>>
  OBVIOUS
<1>3. keys \in Seq(Keys) /\ IsInjective(keys)
  BY <1>7 DEF IsInjective
<1>4. ToSet(keys) \subseteq DOMAIN v.ids
  BY <1>2, <1>7 DEF ToSet
<1> PICK u : u = MoveKeysToFront(v, keys, fresh)
  OBVIOUS
<1>6. Sound(v)
  BY <1>2
<1>5. Sound(u) /\ u.next = v.next /\ u.states = v.states
  BY <1>3, <1>4, <1>6, MoveKeysToFrontIs
<1>8. Written(w, u, <<Effect(w.next, NoKey, k, left, right)>>)
  BY <1>1, <1>5, OneAdded
<1> QED BY <1>7, <1>8

(* One announcement for each of the rows who[1 .. m], and no other row     *)
(* changes.                                                                *)
LEMMA EachWritten ==
    ASSUME NEW w, Sound(w), NEW v, Sound(v), v.next >= w.next, NEW m \in Nat, NEW list, NEW who,
           Apart(who, m), Noted(list, who, m, Now(w.states), Now(v.states)),
           NewFrom(who, m, Now(w.states), w.next),
           \A s \in Nat : (\A i \in 1 .. m : who[i] # s) => Now(w.states)[s] = Now(v.states)[s]
    PROVE  Written(w, v, list)
<1> PICK f : f = Now(w.states)
  OBVIOUS
<1> PICK g : g = Now(v.states)
  OBVIOUS
<1> PICK X : X = {who[i] : i \in 1 .. m}
  OBVIOUS
<1>1. w.next \in Nat
  BY DEF Sound
<1>2. Tells(list, w.next, f, g, X)
  BY <1>1, TellsEach
<1>3. \A s \in Nat \ X : f[s] = g[s]
  OBVIOUS
<1>4. Announces(list, w.next, f, g)
  BY <1>1, <1>2, <1>3, TellsAll
<1> QED BY <1>4 DEF Written

(* The announcements of addMany and prependMany.                           *)
AreAdded(list, keys, ids) ==
    /\ list = [i \in DOMAIN keys |-> list[i]]
    /\ \A i \in DOMAIN keys : IsNote(list[i], ids[keys[i]], NoKey, keys[i])

LEMMA AddedWrites ==
    ASSUME NEW w, Sound(w), NEW keys \in Seq(Keys), IsInjective(keys), ToSet(keys) \cap DOMAIN w.ids = {},
           NEW v, Added(w, v, ToSet(keys)), NEW u, Sound(u), u.next = v.next, u.states = v.states,
           NEW list, AreAdded(list, keys, v.ids)
    PROVE  Written(w, u, list)
<1> PICK m \in Nat : m = Len(keys) /\ DOMAIN keys = 1 .. m
  BY ListDomain
<1> PICK K : K = ToSet(keys)
  OBVIOUS
<1>1. /\ Sound(v) /\ v.next >= w.next
      /\ \A s \in DOMAIN w.states : s \in DOMAIN v.states /\ v.states[s] = w.states[s]
      /\ \A s \in DOMAIN v.states : s >= w.next => v.states[s] \in K
      /\ K \subseteq DOMAIN v.ids
      /\ \A k \in K : v.ids[k] >= w.next
  BY DEF Added
<1>2. /\ w.next \in Nat /\ v.next \in Nat /\ DOMAIN w.states = 1 .. w.next - 1 /\ DOMAIN v.states = 1 .. v.next - 1
  BY <1>1 DEF Sound
<1>3. \A i \in 1 .. m : keys[i] \in K /\ keys[i] \in DOMAIN v.ids /\ keys[i] \in Keys
  BY <1>1, ListDomain DEF ToSet
<1>4. \A i, j \in 1 .. m : keys[i] = keys[j] => i = j
  BY DEF IsInjective
<1> DEFINE who == [i \in 1 .. m |-> v.ids[keys[i]]]
<1>5. \A i \in 1 .. m : who[i] = v.ids[keys[i]]
  OBVIOUS
<1> HIDE DEF who
<1>6. \A i \in 1 .. m : /\ who[i] \in Nat /\ who[i] >= w.next /\ who[i] \in DOMAIN v.states
                        /\ v.states[who[i]] = keys[i]
  BY <1>1, <1>3, <1>5, IdIs
<1>7. \A i \in 1 .. m : Now(w.states)[who[i]] = NoKey /\ Now(u.states)[who[i]] = keys[i]
  BY <1>2, <1>6 DEF Now
<1>8. Apart(who, m)
  BY <1>4, <1>6 DEF Apart
<1>9. Noted(list, who, m, Now(w.states), Now(u.states))
  <2>1. list = [i \in 1 .. m |-> list[i]] /\ \A i \in 1 .. m : IsNote(list[i], who[i], NoKey, keys[i])
    BY <1>5 DEF AreAdded
  <2> QED BY <2>1, <1>7 DEF Noted
<1>10. NewFrom(who, m, Now(w.states), w.next)
  BY <1>6 DEF NewFrom
<1>11. ASSUME NEW s \in Nat, \A i \in 1 .. m : who[i] # s PROVE Now(w.states)[s] = Now(u.states)[s]
  <2>1. CASE s \in DOMAIN w.states
    BY <1>1, <2>1 DEF Now
  <2>2. CASE s \notin DOMAIN w.states /\ s \in DOMAIN v.states
    <3>1. s >= w.next
      BY <1>2, <2>2
    <3>2. v.states[s] \in K
      BY <1>1, <2>2, <3>1
    <3> PICK i \in 1 .. m : keys[i] = v.states[s]
      BY <3>2 DEF ToSet
    <3>3. v.states[s] # NoKey /\ s \in Live(v.states)
      BY <1>3, <2>2, KeysAssumption DEF Live
    <3>4. v.ids[v.states[s]] = s
      BY <1>1, <3>3, LiveIs
    <3> QED BY <1>5, <1>11, <3>4
  <2>3. CASE s \notin DOMAIN w.states /\ s \notin DOMAIN v.states
    BY <2>3 DEF Now
  <2> QED BY <2>1, <2>2, <2>3
<1>12. u.next >= w.next
  BY <1>1
<1> QED BY <1>8, <1>9, <1>10, <1>11, <1>12, EachWritten

LEMMA AddManyEffectsAre ==
    ASSUME NEW keys \in Seq(Keys), NEW v, Sound(v), ToSet(keys) \subseteq DOMAIN v.ids, Sound(store)
    PROVE  AreAdded(AddManyEffects(keys, v), keys, v.ids)
<1> PICK list : list = AddManyEffects(keys, v)
  OBVIOUS
<1>1. list = [i \in DOMAIN keys |-> Effect(v.ids[keys[i]], NoKey, keys[i], AddManyAnchor(i, Len(keys)), 0)]
  BY DEF AddManyEffects
<1>2. ASSUME NEW i \in DOMAIN keys PROVE IsNote(list[i], v.ids[keys[i]], NoKey, keys[i])
  <2>1. keys[i] \in DOMAIN v.ids /\ keys[i] \in Keys
    BY ListDomain DEF ToSet
  <2>2. v.ids[keys[i]] \in Nat
    BY <2>1, IdIs
  <2> PICK a : a = AddManyAnchor(i, Len(keys))
    OBVIOUS
  <2>3. a \in Nat
    BY SubjectAtIs DEF AddManyAnchor, Chain
  <2>4. list[i] = Effect(v.ids[keys[i]], NoKey, keys[i], a, 0)
    BY <1>1
  <2> QED BY <2>1, <2>2, <2>3, <2>4, EffectIs, KeysAssumption
<1>3. list = [i \in DOMAIN keys |-> list[i]]
  BY <1>1
<1> QED BY <1>2, <1>3 DEF AreAdded

LEMMA AddManyWrites ==
    ASSUME Sound(store), NEW keys \in Seq(Keys), IsInjective(keys), ToSet(keys) \cap DOMAIN store.ids = {}, NEW fresh
    PROVE  LET created == CreateEach(store, keys, fresh)
           IN  Written(store, created, AddManyEffects(keys, created))
<1> PICK v : v = CreateEach(store, keys, fresh)
  OBVIOUS
<1>1. Added(store, v, ToSet(keys))
  BY CreateEachIs
<1>2. Sound(v) /\ ToSet(keys) \subseteq DOMAIN v.ids
  BY <1>1 DEF Added
<1>3. AreAdded(AddManyEffects(keys, v), keys, v.ids)
  BY <1>2, AddManyEffectsAre
<1> QED BY <1>1, <1>2, <1>3, AddedWrites

LEMMA PrependManyWrites ==
    ASSUME Sound(store), NEW keys \in Seq(Keys), IsInjective(keys), ToSet(keys) \cap DOMAIN store.ids = {}, NEW fresh
    PROVE  LET created == CreateEach(store, keys, fresh)
           IN  Written(store, MoveKeysToFront(created, keys, fresh), AddManyEffects(keys, created))
<1> PICK v : v = CreateEach(store, keys, fresh)
  OBVIOUS
<1>1. Added(store, v, ToSet(keys))
  BY CreateEachIs
<1>2. Sound(v) /\ ToSet(keys) \subseteq DOMAIN v.ids
  BY <1>1 DEF Added
<1>3. AreAdded(AddManyEffects(keys, v), keys, v.ids)
  BY <1>2, AddManyEffectsAre
<1> PICK u : u = MoveKeysToFront(v, keys, fresh)
  OBVIOUS
<1>4. Sound(u) /\ u.next = v.next /\ u.states = v.states
  BY <1>2, MoveKeysToFrontIs
<1> QED BY <1>1, <1>3, <1>4, AddedWrites

LEMMA ChangeIdWrites ==
    ASSUME NEW w, Sound(w), NEW from \in DOMAIN w.ids, NEW to \in Keys, to \notin DOMAIN w.ids
    PROVE  Written(w, TransferSubject(w, w.ids[from], from, to), <<Effect(w.ids[from], from, to, 0, 0)>>)
<1> PICK s : s = w.ids[from]
  OBVIOUS
<1>1. /\ s \in Live(w.states) /\ w.states[s] = from /\ from \in Keys /\ s \in Nat /\ s \in DOMAIN w.states
      /\ s > 0 /\ s < w.next
  BY IdIs
<1> PICK v : v = TransferSubject(w, s, from, to)
  OBVIOUS
<1>2. Sound(v) /\ v.next = w.next /\ v.states = [w.states EXCEPT ![s] = to]
  BY <1>1, TransferSubjectIs
<1>3. Now(w.states)[s] = from /\ Now(v.states)[s] = to /\ from # NoKey
  BY <1>1, <1>2, KeysAssumption DEF Now
<1>4. \A t \in Nat \ {s} : Now(v.states)[t] = Now(w.states)[t]
  BY <1>2 DEF Now
<1> PICK e : e = Effect(s, from, to, 0, 0)
  OBVIOUS
<1>5. IsNote(e, s, from, to)
  BY <1>1, <1>3, EffectIs
<1>6. IsNote(e, s, Now(w.states)[s], Now(v.states)[s])
  BY <1>3, <1>5
<1>7. v.next >= w.next
  BY <1>2 DEF Sound
<1>8. Written(w, v, <<e>>)
  BY <1>1, <1>2, <1>3, <1>4, <1>6, <1>7, OneWritten
<1> QED BY <1>8

(* The announcements of removeOne, removeMany and clear.                   *)
RemovalsOf(w, keys) ==
    [i \in DOMAIN keys |->
        LET near == NeighborSubjectsForKey(w, keys[i])
        IN  Effect(w.ids[keys[i]], keys[i], NoKey, near.left, near.right)]

LEMMA RemoveRowsWrites ==
    ASSUME NEW w, Sound(w), NEW keys \in Seq(Keys), IsInjective(keys), ToSet(keys) \subseteq DOMAIN w.ids, NEW fresh
    PROVE  Written(w, TombstoneEach(w, NodesOf(w.chain, keys), fresh), RemovalsOf(w, keys))
<1> PICK m \in Nat : m = Len(keys) /\ DOMAIN keys = 1 .. m
  BY ListDomain
<1> PICK nodes : nodes = NodesOf(w.chain, keys)
  OBVIOUS
<1>1. /\ nodes \in Seq(Nodes) /\ IsInjective(nodes) /\ DOMAIN nodes = 1 .. m
      /\ \A i \in 1 .. m : nodes[i] = Node(w.ids[keys[i]], keys[i])
      /\ ToSet(nodes) \subseteq ToSet(w.chain)
  BY NodesOfIs
<1>2. ToSet(nodes) \subseteq RowsOf(w.states)
  BY <1>1 DEF Sound, ChainTells
<1> PICK v : v = TombstoneEach(w, nodes, fresh)
  OBVIOUS
<1> PICK S : S = {node.subject : node \in ToSet(nodes)}
  OBVIOUS
<1>3. nodes \in Seq(Nodes) /\ IsInjective(nodes)
  BY <1>1
<1>4. Removed(w, v, S)
  BY <1>2, <1>3, TombstoneEachIs
<1>5. Sound(v) /\ v.next = w.next /\ v.states = [s \in DOMAIN w.states |-> IF s \in S THEN NoKey ELSE w.states[s]]
  BY <1>4 DEF Removed
<1>6. \A i \in 1 .. m : keys[i] \in DOMAIN w.ids /\ keys[i] \in Keys
  BY ListDomain DEF ToSet
<1> DEFINE who == [i \in 1 .. m |-> w.ids[keys[i]]]
<1>7. \A i \in 1 .. m : who[i] = w.ids[keys[i]]
  OBVIOUS
<1> HIDE DEF who
<1>8. \A i \in 1 .. m : /\ who[i] \in Nat /\ who[i] \in DOMAIN w.states /\ w.states[who[i]] = keys[i]
                        /\ keys[i] # NoKey
  BY <1>6, <1>7, IdIs, KeysAssumption
<1>9. S = {who[i] : i \in 1 .. m}
  <2>1. ASSUME NEW i \in 1 .. m PROVE nodes[i].subject = who[i]
    <3>1. nodes[i] = Node(who[i], keys[i])
      BY <1>1, <1>7
    <3> QED BY <3>1 DEF Node
  <2>2. ToSet(nodes) = {nodes[i] : i \in 1 .. m}
    BY <1>1 DEF ToSet
  <2> QED BY <2>1, <2>2
<1>10. ASSUME NEW i \in 1 .. m PROVE Now(w.states)[who[i]] = keys[i] /\ Now(v.states)[who[i]] = NoKey
  <2>1. who[i] \in Nat /\ who[i] \in DOMAIN w.states /\ w.states[who[i]] = keys[i]
    BY <1>8
  <2>2. v.states[who[i]] = NoKey
    BY <1>5, <1>9, <2>1
  <2>3. Now(w.states)[who[i]] = keys[i]
    BY <2>1 DEF Now
  <2>4. Now(v.states)[who[i]] = NoKey
    BY <2>1, <2>2 DEF Now
  <2> QED BY <2>3, <2>4
<1>11. Apart(who, m)
  BY <1>8 DEF Apart, IsInjective
<1> PICK list : list = RemovalsOf(w, keys)
  OBVIOUS
<1>12. ASSUME NEW i \in 1 .. m PROVE IsNote(list[i], who[i], keys[i], NoKey)
  <2> PICK near : near = NeighborSubjectsForKey(w, keys[i])
    OBVIOUS
  <2>1. near.left \in Nat /\ near.right \in Nat
    BY SubjectAtIs DEF NeighborSubjectsForKey
  <2>2. list[i] = Effect(who[i], keys[i], NoKey, near.left, near.right)
    BY <1>7 DEF RemovalsOf
  <2>3. who[i] \in Nat /\ keys[i] \in Keys \cup {NoKey} /\ NoKey \in Keys \cup {NoKey} /\ keys[i] # NoKey
    BY <1>6, <1>8
  <2>4. IsNote(Effect(who[i], keys[i], NoKey, near.left, near.right), who[i], keys[i], NoKey)
    BY <2>1, <2>3, EffectIs
  <2> QED BY <2>2, <2>4
<1>13. list = [i \in 1 .. m |-> list[i]]
  BY DEF RemovalsOf
<1>14. Noted(list, who, m, Now(w.states), Now(v.states))
  BY <1>10, <1>12, <1>13 DEF Noted
<1>15. NewFrom(who, m, Now(w.states), w.next)
  BY <1>8, <1>10 DEF NewFrom
<1>16. ASSUME NEW s \in Nat, \A i \in 1 .. m : who[i] # s PROVE Now(w.states)[s] = Now(v.states)[s]
  <2>1. s \notin S /\ DOMAIN v.states = DOMAIN w.states
    BY <1>5, <1>9, <1>16
  <2>2. s \in DOMAIN w.states => v.states[s] = w.states[s]
    BY <1>5, <2>1
  <2> QED BY <2>1, <2>2 DEF Now
<1>17. v.next >= w.next
  BY <1>5 DEF Sound
<1>18. Sound(v)
  BY <1>5
<1> QED BY <1>11, <1>14, <1>15, <1>16, <1>17, <1>18, EachWritten

(* v holds just the rows at the keys K: those of w, and new ones.          *)
Settled(w, v, K) ==
    /\ Sound(v) /\ v.next >= w.next
    /\ \A s \in DOMAIN w.states :
          s \in DOMAIN v.states /\ v.states[s] = IF w.states[s] \in K THEN w.states[s] ELSE NoKey
    /\ \A s \in DOMAIN v.states : s >= w.next => v.states[s] \in K \ DOMAIN w.ids
    /\ DOMAIN v.ids = K
    /\ \A k \in K \ DOMAIN w.ids : v.ids[k] >= w.next

LEMMA SettledIs ==
    ASSUME NEW w, Sound(w), NEW K \in SUBSET Keys, NEW c, Added(w, c, K),
           NEW v, Removed(c, v, {s \in Live(w.states) : w.states[s] \notin K})
    PROVE  Settled(w, v, K)
<1> PICK S : S = {s \in Live(w.states) : w.states[s] \notin K}
  OBVIOUS
<1> PICK A : A = DOMAIN w.ids
  OBVIOUS
<1>1. /\ Sound(c) /\ c.next >= w.next
      /\ \A s \in DOMAIN w.states : s \in DOMAIN c.states /\ c.states[s] = w.states[s]
      /\ \A s \in DOMAIN c.states : s >= w.next => c.states[s] \in K \ A
      /\ DOMAIN c.ids = A \cup K
      /\ \A k \in K \ A : c.ids[k] >= w.next
  BY DEF Added
<1>2. /\ Sound(v) /\ v.next = c.next /\ DOMAIN v.states = DOMAIN c.states
      /\ \A s \in DOMAIN c.states : v.states[s] = IF s \in S THEN NoKey ELSE c.states[s]
  BY DEF Removed
<1>3. w.next \in Nat /\ DOMAIN w.states = 1 .. w.next - 1 /\ c.next \in Nat /\ DOMAIN c.states = 1 .. c.next - 1
  BY <1>1 DEF Sound
<1>4. \A s \in DOMAIN w.states : s \in S <=> w.states[s] # NoKey /\ w.states[s] \notin K
  BY DEF Live
<1>5. NoKey \notin K
  BY KeysAssumption
<1>6. ASSUME NEW s \in DOMAIN w.states
      PROVE  s \in DOMAIN v.states /\ v.states[s] = IF w.states[s] \in K THEN w.states[s] ELSE NoKey
  BY <1>1, <1>2, <1>4, <1>5
<1>7. ASSUME NEW s \in DOMAIN v.states, s >= w.next PROVE v.states[s] \in K \ A
  <2>1. s \in DOMAIN c.states /\ s \notin DOMAIN w.states
    BY <1>2, <1>3, <1>7
  <2>2. s \notin S
    BY <2>1 DEF Live
  <2> QED BY <1>1, <1>2, <1>7, <2>1, <2>2
<1>8. ASSUME NEW k \in DOMAIN v.ids PROVE k \in K
  <2> PICK s : s = v.ids[k]
    OBVIOUS
  <2>1. s \in DOMAIN v.states /\ v.states[s] = k /\ k # NoKey
    BY <1>2, IdIs, KeysAssumption
  <2>2. CASE s \in DOMAIN w.states
    BY <2>1, <2>2, <1>6
  <2>3. CASE s \notin DOMAIN w.states
    <3>1. s >= w.next
      BY <1>2, <1>3, <2>1, <2>3
    <3> QED BY <1>7, <2>1, <3>1
  <2> QED BY <2>2, <2>3
<1>9. ASSUME NEW k \in K PROVE k \in DOMAIN v.ids /\ v.ids[k] = c.ids[k]
  <2> PICK s : s = c.ids[k]
    OBVIOUS
  <2>1. k \in DOMAIN c.ids
    BY <1>1
  <2>2. s \in DOMAIN c.states /\ c.states[s] = k
    BY <1>1, <2>1, IdIs
  <2>3. s \notin S
    BY <1>1, <2>2 DEF Live
  <2>4. s \in Live(v.states) /\ v.states[s] = k
    BY <1>2, <1>5, <2>2, <2>3 DEF Live
  <2> QED BY <1>2, <2>4, LiveIs
<1>10. v.next >= w.next
  BY <1>1, <1>2
<1>11. \A k \in K \ A : v.ids[k] >= w.next
  BY <1>1, <1>9
<1>12. DOMAIN v.ids = K
  BY <1>8, <1>9
<1>13. \A s \in DOMAIN v.states : s >= w.next => v.states[s] \in K \ DOMAIN w.ids
  BY <1>7
<1> QED BY <1>2, <1>6, <1>10, <1>11, <1>12, <1>13 DEF Settled

(* The places of the rows that setAll removes.                             *)
GonePlaces(chain, keys) ==
    Within([i \in DOMAIN chain |-> i], {i \in DOMAIN chain : chain[i].key \notin ToSet(keys)})

AreGone(w, keys, gone) ==
    /\ gone \in Seq(DOMAIN w.chain) /\ IsInjective(gone)
    /\ ToSet(gone) = {i \in DOMAIN w.chain : w.chain[i].key \notin ToSet(keys)}

LEMMA GonePlacesAre ==
    ASSUME NEW w, Sound(w), NEW keys
    PROVE  AreGone(w, keys, GonePlaces(w.chain, keys))
<1>0. w.chain \in Seq(Nodes)
  BY DEF Sound, ChainTells
<1> PICK n \in Nat : n = Len(w.chain) /\ DOMAIN w.chain = 1 .. n
  BY <1>0, ListDomain
<1> PICK T : T = DOMAIN w.chain
  OBVIOUS
<1>6. PICK list : list = [i \in DOMAIN w.chain |-> i]
  OBVIOUS
<1>1. list \in Seq(T) /\ IsInjective(list)
  BY <1>6 DEF IsInjective
<1>2. ToSet(list) = T
  BY <1>6 DEF ToSet
<1>7. PICK S : S = {i \in DOMAIN w.chain : w.chain[i].key \notin ToSet(keys)}
  OBVIOUS
<1> PICK gone : gone = Within(list, S)
  OBVIOUS
<1>3. gone \in Seq(T) /\ ToSet(gone) = ToSet(list) \cap S /\ IsInjective(gone)
  BY <1>1, WithinIs
<1>4. ToSet(gone) = S
  BY <1>2, <1>3, <1>7
<1>5. AreGone(w, keys, gone)
  BY <1>3, <1>4, <1>7 DEF AreGone
<1> QED BY <1>5, <1>6, <1>7 DEF GonePlaces

GoneRows(w, keys) == {s \in Live(w.states) : w.states[s] \notin ToSet(keys)}

NodesGo(w, keys, nodes) ==
    /\ nodes \in Seq(Nodes) /\ IsInjective(nodes) /\ ToSet(nodes) \subseteq RowsOf(w.states)
    /\ {node.subject : node \in ToSet(nodes)} = GoneRows(w, keys)

LEMMA GoneNodesAre ==
    ASSUME NEW w, Sound(w), NEW keys, NEW gone, AreGone(w, keys, gone),
           NEW nodes, nodes = [j \in DOMAIN gone |-> w.chain[gone[j]]]
    PROVE  NodesGo(w, keys, nodes)
<1>0. w.chain \in Seq(Nodes) /\ IsInjective(w.chain) /\ ToSet(w.chain) = RowsOf(w.states)
  BY DEF Sound, ChainTells
<1>1. /\ gone \in Seq(DOMAIN w.chain) /\ IsInjective(gone)
      /\ ToSet(gone) = {i \in DOMAIN w.chain : w.chain[i].key \notin ToSet(keys)}
  BY DEF AreGone
<1> PICK m \in Nat : m = Len(gone) /\ DOMAIN gone = 1 .. m
  BY <1>1, ListDomain
<1>2. \A j \in 1 .. m : gone[j] \in DOMAIN w.chain
  BY <1>1
<1>3. \A i \in DOMAIN w.chain : w.chain[i] \in Nodes
  BY <1>0, ListDomain
<1>4. nodes \in Seq(Nodes) /\ DOMAIN nodes = 1 .. m /\ \A j \in 1 .. m : nodes[j] = w.chain[gone[j]]
  BY <1>2, <1>3
<1>5. IsInjective(nodes)
  BY <1>0, <1>1, <1>2, <1>4 DEF IsInjective
<1>6. ToSet(nodes) \subseteq RowsOf(w.states)
  <2>1. ToSet(nodes) \subseteq ToSet(w.chain)
    BY <1>2, <1>4 DEF ToSet
  <2> QED BY <2>1, <1>0
<1>7. ASSUME NEW node \in ToSet(nodes) PROVE node.subject \in GoneRows(w, keys)
  <2> PICK j \in 1 .. m : node = w.chain[gone[j]]
    BY <1>4 DEF ToSet
  <2> PICK i \in DOMAIN w.chain : i = gone[j]
    BY <1>2
  <2>1. i \in ToSet(gone)
    BY DEF ToSet
  <2>2. w.chain[i].key \notin ToSet(keys)
    BY <1>1, <2>1
  <2> QED BY <2>2, RowIs DEF GoneRows
<1>8. ASSUME NEW s \in GoneRows(w, keys) PROVE \E node \in ToSet(nodes) : node.subject = s
  <2>1. s \in Live(w.states) /\ w.states[s] \notin ToSet(keys)
    BY DEF GoneRows
  <2>2. Node(s, w.states[s]) \in ToSet(w.chain)
    BY <2>1, LiveIs
  <2> PICK i \in DOMAIN w.chain : w.chain[i] = Node(s, w.states[s])
    BY <2>2 DEF ToSet
  <2>3. w.chain[i].subject = s /\ w.chain[i].key = w.states[s]
    BY DEF Node
  <2>4. i \in ToSet(gone)
    BY <1>1, <2>1, <2>3
  <2> PICK j \in 1 .. m : gone[j] = i
    BY <2>4 DEF ToSet
  <2>5. nodes[j] = w.chain[i] /\ nodes[j] \in ToSet(nodes)
    BY <1>4 DEF ToSet
  <2> QED BY <2>3, <2>5
<1>9. {node.subject : node \in ToSet(nodes)} = GoneRows(w, keys)
  BY <1>7, <1>8
<1>10. nodes \in Seq(Nodes)
  BY <1>4
<1> QED BY <1>5, <1>6, <1>9, <1>10 DEF NodesGo

(* The store after setAll.                                                 *)
SetAllStore(w, keys, fresh) ==
    LET gone == GonePlaces(w.chain, keys)
    IN  ReorderActiveKeys(
            TombstoneEach(CreateEach(w, keys, fresh), [j \in DOMAIN gone |-> w.chain[gone[j]]], fresh),
            keys, fresh)

LEMMA SetAllStoreIs ==
    ASSUME NEW w, Sound(w), NEW keys \in Seq(Keys), IsInjective(keys), NEW fresh
    PROVE  Settled(w, SetAllStore(w, keys, fresh), ToSet(keys))
<1> PICK K : K = ToSet(keys)
  OBVIOUS
<1>0. K \in SUBSET Keys
  BY ListDomain DEF ToSet
<1> PICK c : c = CreateEach(w, keys, fresh)
  OBVIOUS
<1>1. Added(w, c, K)
  BY CreateEachIs
<1>2. /\ Sound(c) /\ \A s \in DOMAIN w.states : s \in DOMAIN c.states /\ c.states[s] = w.states[s]
  BY <1>1 DEF Added
<1> PICK gone : gone = GonePlaces(w.chain, keys)
  OBVIOUS
<1>3. AreGone(w, keys, gone)
  BY GonePlacesAre
<1> PICK nodes : nodes = [j \in DOMAIN gone |-> w.chain[gone[j]]]
  OBVIOUS
<1>4. /\ nodes \in Seq(Nodes) /\ IsInjective(nodes) /\ ToSet(nodes) \subseteq RowsOf(w.states)
      /\ {node.subject : node \in ToSet(nodes)} = GoneRows(w, keys)
  <2>1. NodesGo(w, keys, nodes)
    BY <1>3, GoneNodesAre
  <2> QED BY <2>1 DEF NodesGo
<1>5. RowsOf(w.states) \subseteq RowsOf(c.states)
  BY <1>2 DEF RowsOf, Live
<1>6. nodes \in Seq(Nodes) /\ IsInjective(nodes) /\ ToSet(nodes) \subseteq RowsOf(c.states)
  BY <1>4, <1>5
<1> PICK u : u = TombstoneEach(c, nodes, fresh)
  OBVIOUS
<1>7. Removed(c, u, {node.subject : node \in ToSet(nodes)})
  BY <1>2, <1>6, TombstoneEachIs
<1>8. Removed(c, u, {s \in Live(w.states) : w.states[s] \notin K})
  BY <1>4, <1>7 DEF GoneRows
<1>9. Settled(w, u, K)
  BY <1>0, <1>1, <1>8, SettledIs
<1>10. Sound(u) /\ ToSet(keys) = DOMAIN u.ids
  BY <1>9 DEF Settled
<1> PICK v : v = ReorderActiveKeys(u, keys, fresh)
  OBVIOUS
<1>11. Sound(v) /\ v.next = u.next /\ v.states = u.states /\ v.ids = u.ids
  BY <1>10, ReorderActiveKeysIs
<1>12. Settled(w, v, K)
  <2>1. /\ u.next >= w.next
        /\ \A s \in DOMAIN w.states :
              s \in DOMAIN u.states /\ u.states[s] = IF w.states[s] \in K THEN w.states[s] ELSE NoKey
        /\ \A s \in DOMAIN u.states : s >= w.next => u.states[s] \in K \ DOMAIN w.ids
        /\ DOMAIN u.ids = K
        /\ \A k \in K \ DOMAIN w.ids : u.ids[k] >= w.next
    BY <1>9 DEF Settled
  <2>2. v.next >= w.next /\ DOMAIN v.ids = K
    BY <1>11, <2>1
  <2>a. v.states = u.states
    BY <1>11
  <2>3. \A s \in DOMAIN w.states :
           s \in DOMAIN v.states /\ v.states[s] = IF w.states[s] \in K THEN w.states[s] ELSE NoKey
    BY <2>1, <2>a
  <2>4. \A s \in DOMAIN v.states : s >= w.next => v.states[s] \in K \ DOMAIN w.ids
    BY <1>11, <2>1
  <2>5. \A k \in K \ DOMAIN w.ids : v.ids[k] >= w.next
    BY <1>11, <2>1
  <2> QED BY <1>11, <2>2, <2>3, <2>4, <2>5 DEF Settled
<1> QED BY <1>12 DEF SetAllStore

(* Its announcements.                                                      *)
LEMMA GoneTold ==
    ASSUME NEW w, Sound(w), NEW keys \in Seq(Keys), NEW v, Settled(w, v, ToSet(keys)),
           NEW gone, AreGone(w, keys, gone), NEW list, list = [j \in DOMAIN gone |-> list[j]],
           \A j \in DOMAIN gone : IsNote(list[j], w.chain[gone[j]].subject, w.chain[gone[j]].key, NoKey)
    PROVE  Tells(list, w.next, Now(w.states), Now(v.states), GoneRows(w, keys))
<1>1. /\ gone \in Seq(DOMAIN w.chain) /\ IsInjective(gone)
      /\ ToSet(gone) = {i \in DOMAIN w.chain : w.chain[i].key \notin ToSet(keys)}
  BY DEF AreGone
<1> PICK m \in Nat : m = Len(gone) /\ DOMAIN gone = 1 .. m
  BY <1>1, ListDomain
<1> PICK nodes : nodes = [j \in DOMAIN gone |-> w.chain[gone[j]]]
  OBVIOUS
<1>2. {node.subject : node \in ToSet(nodes)} = GoneRows(w, keys)
  <2>1. NodesGo(w, keys, nodes)
    BY GoneNodesAre
  <2> QED BY <2>1 DEF NodesGo
<1> DEFINE who == [j \in 1 .. m |-> w.chain[gone[j]].subject]
<1>3. \A j \in 1 .. m : who[j] = w.chain[gone[j]].subject
  OBVIOUS
<1> HIDE DEF who
<1>4. ASSUME NEW j \in 1 .. m
      PROVE  /\ gone[j] \in DOMAIN w.chain /\ who[j] \in Nat /\ who[j] \in DOMAIN w.states
             /\ w.chain[gone[j]].key = w.states[who[j]] /\ w.states[who[j]] # NoKey
             /\ w.states[who[j]] \notin ToSet(keys)
  <2>1. gone[j] \in ToSet(gone)
    BY DEF ToSet
  <2> PICK i \in DOMAIN w.chain : i = gone[j] /\ w.chain[i].key \notin ToSet(keys)
    BY <1>1, <2>1
  <2>2. who[j] \in Live(w.states) /\ w.chain[i].key = w.states[who[j]]
    BY <1>3, RowIs
  <2> QED BY <2>2, LiveIs
<1>5. ASSUME NEW j \in 1 .. m
      PROVE  Now(w.states)[who[j]] = w.chain[gone[j]].key /\ Now(v.states)[who[j]] = NoKey
  <2>1. who[j] \in DOMAIN v.states /\ v.states[who[j]] = NoKey
    BY <1>4 DEF Settled
  <2>2. Now(v.states)[who[j]] = NoKey
    BY <1>4, <2>1 DEF Now
  <2>3. Now(w.states)[who[j]] = w.chain[gone[j]].key
    BY <1>4 DEF Now
  <2> QED BY <2>2, <2>3
<1>6. Apart(who, m)
  BY <1>1, <1>3, <1>4, OnePlace DEF Apart, IsInjective
<1>7. Noted(list, who, m, Now(w.states), Now(v.states))
  BY <1>3, <1>5 DEF Noted
<1>8. NewFrom(who, m, Now(w.states), w.next)
  BY <1>4, <1>5 DEF NewFrom
<1>9. GoneRows(w, keys) = {who[j] : j \in 1 .. m}
  <2>1. DOMAIN nodes = 1 .. m /\ \A j \in 1 .. m : nodes[j].subject = who[j]
    BY <1>3
  <2>2. ToSet(nodes) = {nodes[j] : j \in 1 .. m}
    BY <2>1 DEF ToSet
  <2>3. ASSUME NEW s \in {node.subject : node \in ToSet(nodes)} PROVE s \in {who[j] : j \in 1 .. m}
    <3> PICK node \in ToSet(nodes) : s = node.subject
      OBVIOUS
    <3> PICK j \in 1 .. m : node = nodes[j]
      BY <2>2
    <3> QED BY <2>1
  <2>4. ASSUME NEW j \in 1 .. m PROVE who[j] \in {node.subject : node \in ToSet(nodes)}
    <3>1. nodes[j] \in ToSet(nodes) /\ nodes[j].subject = who[j]
      BY <2>1, <2>2
    <3> PICK node \in ToSet(nodes) : node.subject = who[j]
      BY <3>1
    <3> QED OBVIOUS
  <2> QED BY <1>2, <2>3, <2>4
<1>10. w.next \in Nat
  BY DEF Sound
<1>11. PICK X : X = {who[j] : j \in 1 .. m}
  OBVIOUS
<1>12. Tells(list, w.next, Now(w.states), Now(v.states), X)
  BY <1>6, <1>7, <1>8, <1>10, <1>11, TellsEach
<1> QED BY <1>9, <1>11, <1>12

KeptRows(w, keys)   == {s \in Live(w.states) : w.states[s] \in ToSet(keys)}
NewRows(w, v, keys) == {v.ids[k] : k \in ToSet(keys) \ DOMAIN w.ids}

IsPart(list, keys, S) == list \in Seq(Keys) /\ IsInjective(list) /\ ToSet(list) = ToSet(keys) \cap S

LEMMA PartIs ==
    ASSUME NEW keys \in Seq(Keys), IsInjective(keys), NEW S
    PROVE  IsPart(Within(keys, S), keys, S)
<1>1. Within(keys, S) \in Seq(Keys) /\ IsInjective(Within(keys, S))
  BY WithinIs
<1>2. ToSet(Within(keys, S)) = ToSet(keys) \cap S
  BY WithinIs
<1> QED BY <1>1, <1>2 DEF IsPart

LEMMA KeptTold ==
    ASSUME NEW w, Sound(w), NEW keys \in Seq(Keys), NEW v, Settled(w, v, ToSet(keys)),
           NEW kept, IsPart(kept, keys, DOMAIN w.ids), NEW list, list = [j \in DOMAIN kept |-> list[j]],
           \A j \in DOMAIN kept : IsNote(list[j], w.ids[kept[j]], kept[j], kept[j])
    PROVE  Tells(list, w.next, Now(w.states), Now(v.states), KeptRows(w, keys))
<1>1. kept \in Seq(Keys) /\ IsInjective(kept) /\ ToSet(kept) = ToSet(keys) \cap DOMAIN w.ids
  BY DEF IsPart
<1> PICK m \in Nat : m = Len(kept) /\ DOMAIN kept = 1 .. m
  BY <1>1, ListDomain
<1> DEFINE who == [j \in 1 .. m |-> w.ids[kept[j]]]
<1>2. \A j \in 1 .. m : who[j] = w.ids[kept[j]]
  OBVIOUS
<1> HIDE DEF who
<1>3. \A j \in 1 .. m : kept[j] \in DOMAIN w.ids /\ kept[j] \in ToSet(keys) /\ kept[j] \in Keys
  BY <1>1, ListDomain DEF ToSet
<1>4. \A j \in 1 .. m : /\ who[j] \in Nat /\ who[j] \in DOMAIN w.states /\ w.states[who[j]] = kept[j]
                        /\ who[j] \in Live(w.states)
  BY <1>2, <1>3, IdIs
<1>5. ASSUME NEW j \in 1 .. m
      PROVE  Now(w.states)[who[j]] = kept[j] /\ Now(v.states)[who[j]] = kept[j]
  <2>1. who[j] \in DOMAIN v.states /\ v.states[who[j]] = kept[j]
    BY <1>3, <1>4 DEF Settled
  <2>2. Now(v.states)[who[j]] = kept[j]
    BY <1>4, <2>1 DEF Now
  <2>3. Now(w.states)[who[j]] = kept[j]
    BY <1>4 DEF Now
  <2> QED BY <2>2, <2>3
<1>6. Apart(who, m)
  BY <1>1, <1>4 DEF Apart, IsInjective
<1>7. Noted(list, who, m, Now(w.states), Now(v.states))
  BY <1>2, <1>5 DEF Noted
<1>8. NewFrom(who, m, Now(w.states), w.next)
  BY <1>3, <1>5, KeysAssumption DEF NewFrom
<1>9. KeptRows(w, keys) = {who[j] : j \in 1 .. m}
  <2>1. ASSUME NEW s \in KeptRows(w, keys) PROVE \E j \in 1 .. m : who[j] = s
    <3>1. s \in Live(w.states) /\ w.states[s] \in ToSet(keys)
      BY DEF KeptRows
    <3>2. w.states[s] \in DOMAIN w.ids /\ w.ids[w.states[s]] = s
      BY <3>1, LiveIs
    <3>3. w.states[s] \in ToSet(kept)
      BY <1>1, <3>1, <3>2
    <3> PICK j \in 1 .. m : kept[j] = w.states[s]
      BY <3>3 DEF ToSet
    <3> QED BY <1>2, <3>2
  <2>2. ASSUME NEW j \in 1 .. m PROVE who[j] \in KeptRows(w, keys)
    BY <1>3, <1>4 DEF KeptRows
  <2> QED BY <2>1, <2>2
<1>10. w.next \in Nat
  BY DEF Sound
<1>11. PICK X : X = {who[j] : j \in 1 .. m}
  OBVIOUS
<1>12. Tells(list, w.next, Now(w.states), Now(v.states), X)
  BY <1>6, <1>7, <1>8, <1>10, <1>11, TellsEach
<1> QED BY <1>9, <1>11, <1>12

LEMMA NewTold ==
    ASSUME NEW w, Sound(w), NEW keys \in Seq(Keys), NEW v, Settled(w, v, ToSet(keys)),
           NEW new, IsPart(new, keys, ToSet(keys) \ DOMAIN w.ids), NEW list, list = [j \in DOMAIN new |-> list[j]],
           \A j \in DOMAIN new : IsNote(list[j], v.ids[new[j]], NoKey, new[j])
    PROVE  Tells(list, w.next, Now(w.states), Now(v.states), NewRows(w, v, keys))
<1>1. new \in Seq(Keys) /\ IsInjective(new) /\ ToSet(new) = ToSet(keys) \ DOMAIN w.ids
  BY DEF IsPart
<1> PICK m \in Nat : m = Len(new) /\ DOMAIN new = 1 .. m
  BY <1>1, ListDomain
<1> DEFINE who == [j \in 1 .. m |-> v.ids[new[j]]]
<1>2. \A j \in 1 .. m : who[j] = v.ids[new[j]]
  OBVIOUS
<1> HIDE DEF who
<1>3. \A j \in 1 .. m : new[j] \in ToSet(keys) \ DOMAIN w.ids
  BY <1>1 DEF ToSet
<1>4. /\ Sound(v) /\ DOMAIN v.ids = ToSet(keys)
      /\ \A k \in ToSet(keys) \ DOMAIN w.ids : v.ids[k] >= w.next
      /\ w.next \in Nat /\ DOMAIN w.states = 1 .. w.next - 1
  BY DEF Settled, Sound
<1>5. \A j \in 1 .. m : /\ who[j] \in Nat /\ who[j] \in DOMAIN v.states /\ v.states[who[j]] = new[j]
                        /\ who[j] >= w.next
  BY <1>2, <1>3, <1>4, IdIs
<1>6. ASSUME NEW j \in 1 .. m
      PROVE  Now(w.states)[who[j]] = NoKey /\ Now(v.states)[who[j]] = new[j]
  <2>1. who[j] \notin DOMAIN w.states
    BY <1>4, <1>5
  <2>2. Now(v.states)[who[j]] = new[j]
    BY <1>5 DEF Now
  <2>3. Now(w.states)[who[j]] = NoKey
    BY <1>5, <2>1 DEF Now
  <2> QED BY <2>2, <2>3
<1>7. Apart(who, m)
  BY <1>1, <1>5 DEF Apart, IsInjective
<1>8. Noted(list, who, m, Now(w.states), Now(v.states))
  BY <1>2, <1>6 DEF Noted
<1>9. NewFrom(who, m, Now(w.states), w.next)
  BY <1>5 DEF NewFrom
<1>10. NewRows(w, v, keys) = {who[j] : j \in 1 .. m}
  <2>1. ASSUME NEW k \in ToSet(keys) \ DOMAIN w.ids PROVE \E j \in 1 .. m : who[j] = v.ids[k]
    <3> PICK j \in 1 .. m : new[j] = k
      BY <1>1 DEF ToSet
    <3> QED BY <1>2
  <2>2. ASSUME NEW j \in 1 .. m PROVE who[j] \in NewRows(w, v, keys)
    BY <1>2, <1>3 DEF NewRows
  <2> QED BY <2>1, <2>2 DEF NewRows
<1>11. PICK X : X = {who[j] : j \in 1 .. m}
  OBVIOUS
<1>12. Tells(list, w.next, Now(w.states), Now(v.states), X)
  BY <1>4, <1>7, <1>8, <1>9, <1>11, TellsEach
<1> QED BY <1>10, <1>11, <1>12

LEMMA SettledWrites ==
    ASSUME NEW w, Sound(w), NEW keys \in Seq(Keys), NEW v, Settled(w, v, ToSet(keys)),
           NEW a, Tells(a, w.next, Now(w.states), Now(v.states), GoneRows(w, keys)),
           NEW b, Tells(b, w.next, Now(w.states), Now(v.states), KeptRows(w, keys)),
           NEW c, Tells(c, w.next, Now(w.states), Now(v.states), NewRows(w, v, keys))
    PROVE  Written(w, v, a \o b \o c)
<1> PICK f : f = Now(w.states)
  OBVIOUS
<1> PICK g : g = Now(v.states)
  OBVIOUS
<1>0. /\ Sound(v) /\ DOMAIN v.ids = ToSet(keys) /\ v.next >= w.next
      /\ \A k \in ToSet(keys) \ DOMAIN w.ids : v.ids[k] >= w.next
      /\ \A s \in DOMAIN w.states :
            s \in DOMAIN v.states /\ v.states[s] = IF w.states[s] \in ToSet(keys) THEN w.states[s] ELSE NoKey
      /\ \A s \in DOMAIN v.states : s >= w.next => v.states[s] \in ToSet(keys) \ DOMAIN w.ids
  BY DEF Settled
<1>1. w.next \in Nat /\ v.next \in Nat /\ DOMAIN w.states = 1 .. w.next - 1 /\ DOMAIN v.states = 1 .. v.next - 1
  BY <1>0 DEF Sound
<1> PICK X : X = GoneRows(w, keys)
  OBVIOUS
<1> PICK Y : Y = KeptRows(w, keys)
  OBVIOUS
<1> PICK Z : Z = NewRows(w, v, keys)
  OBVIOUS
<1>2. X \cap Y = {}
  BY DEF GoneRows, KeptRows
<1>3. \A s \in X \cup Y : s \in Live(w.states) /\ s < w.next
  BY LiveIs DEF GoneRows, KeptRows
<1>4. \A s \in Z : s >= w.next /\ s \in Nat
  <2>1. ASSUME NEW k \in ToSet(keys) \ DOMAIN w.ids PROVE v.ids[k] >= w.next /\ v.ids[k] \in Nat
    BY <1>0, IdIs
  <2> QED BY <2>1 DEF NewRows
<1>5. (X \cup Y) \cap Z = {}
  <2> SUFFICES ASSUME NEW s \in X \cup Y, s \in Z PROVE FALSE
    OBVIOUS
  <2>1. s < w.next /\ s >= w.next /\ s \in Nat
    BY <1>3, <1>4
  <2> QED BY <1>1, <2>1
<1>6. Tells(a \o b, w.next, f, g, X \cup Y)
  BY <1>1, <1>2, TellsBoth
<1> PICK d : d = a \o b
  OBVIOUS
<1> PICK U : U = X \cup Y
  OBVIOUS
<1>7. Tells(d, w.next, f, g, U) /\ U \cap Z = {}
  BY <1>5, <1>6
<1>8. Tells(d \o c, w.next, f, g, U \cup Z)
  BY <1>1, <1>7, TellsBoth
<1>9. ASSUME NEW s \in Nat \ (U \cup Z) PROVE f[s] = g[s]
  <2>1. CASE s \in DOMAIN w.states
    <3>1. f[s] = w.states[s]
      BY <2>1 DEF Now
    <3>2. g[s] = IF w.states[s] \in ToSet(keys) THEN w.states[s] ELSE NoKey
      BY <1>0, <2>1 DEF Now
    <3>3. s \notin Live(w.states)
      BY DEF GoneRows, KeptRows
    <3>4. w.states[s] = NoKey
      BY <2>1, <3>3 DEF Live
    <3> QED BY <3>1, <3>2, <3>4
  <2>2. CASE s \notin DOMAIN w.states /\ s \in DOMAIN v.states
    <3>1. s >= w.next
      BY <1>1, <2>2
    <3>2. v.states[s] \in ToSet(keys) \ DOMAIN w.ids
      BY <1>0, <2>2, <3>1
    <3>3. v.states[s] # NoKey
      <4>1. v.states[s] \in Keys
        BY <3>2, ListDomain DEF ToSet
      <4> QED BY <4>1, KeysAssumption
    <3>4. v.ids[v.states[s]] = s
      BY <1>0, <2>2, <3>3, LiveIs DEF Live
    <3>5. s \in Z
      BY <3>2, <3>4 DEF NewRows
    <3> QED BY <3>5
  <2>3. CASE s \notin DOMAIN w.states /\ s \notin DOMAIN v.states
    BY <2>3 DEF Now
  <2> QED BY <2>1, <2>2, <2>3
<1> PICK V : V = U \cup Z
  OBVIOUS
<1>10. Tells(d \o c, w.next, f, g, V) /\ \A s \in Nat \ V : f[s] = g[s]
  BY <1>8, <1>9
<1>11. Announces(d \o c, w.next, f, g)
  BY <1>1, <1>10, TellsAll
<1> QED BY <1>0, <1>11 DEF Written

SetAllRemovals(keys) ==
    LET gone == GonePlaces(Chain, keys)
    IN  [j \in DOMAIN gone |->
           LET i == gone[j]
           IN  Effect(Chain[i].subject, Chain[i].key, NoKey, StayingLeft(i, keys), StayingRight(i, keys))]
SetAllUpdates(keys) ==
    LET kept == Within(keys, ActiveKeys)
    IN  [j \in DOMAIN kept |-> Effect(store.ids[kept[j]], kept[j], kept[j], 0, 0)]
SetAllAdditions(keys, final) ==
    LET new == Within(keys, ToSet(keys) \ ActiveKeys)
    IN  [j \in DOMAIN new |->
           LET i == RankIn(keys, new[j])
           IN  Effect(final.ids[new[j]], NoKey, new[j],
                      SubjectAt(final.chain, i - 1), SubjectAt(final.chain, i + 1))]
SetAllAnnounced(keys, final) == SetAllRemovals(keys) \o SetAllUpdates(keys) \o SetAllAdditions(keys, final)

(* The order a tick is known by.                                           *)
IsOrder(o) ==
    \/ o = NoDelta
    \/ /\ o = [before |-> o.before, after |-> o.after,
               beforeFrontier |-> o.beforeFrontier, afterFrontier |-> o.afterFrontier]
       /\ Len(o.before) \in Nat /\ Len(o.after) \in Nat

LEMMA SetAllIs ==
    ASSUME NEW keys, SetAll(keys)
    PROVE  LET final == SetAllStore(store, keys, FreshFrontier)
           IN  Write(final, SetAllAnnounced(keys, final))
BY DEF SetAll, SetAllStore, SetAllAnnounced, SetAllRemovals, SetAllUpdates, SetAllAdditions, GonePlaces, Chain, ActiveKeys

LEMMA SetAllOrder ==
    ASSUME NEW keys, SetAll(keys), IsOrder(order), Sound(store), Sound(store')
    PROVE  IsOrder(order')
<1> PICK final : final = SetAllStore(store, keys, FreshFrontier)
  OBVIOUS
<1> PICK before : before = SubjectsOf(Chain)
  OBVIOUS
<1> PICK after : after = SubjectsOf(final.chain)
  OBVIOUS
<1>1. final = store'
  BY SetAllIs DEF Write
<1>2. order' = IF ToSet(before) # ToSet(after) \/ before = after THEN order
               ELSE IF order = NoDelta
               THEN [before |-> before, after |-> after,
                     beforeFrontier |-> store.frontier, afterFrontier |-> final.frontier]
               ELSE [order EXCEPT !.after = after, !.afterFrontier = final.frontier]
  BY DEF SetAll, SetAllStore, GonePlaces, Chain, ActiveKeys
<1>3. Len(before) \in Nat /\ Len(after) \in Nat
  <2>1. ASSUME NEW chain \in Seq(Nodes) PROVE Len(SubjectsOf(chain)) \in Nat
    BY ListDomain DEF SubjectsOf
  <2>2. store.chain \in Seq(Nodes) /\ store'.chain \in Seq(Nodes)
    BY DEF Sound, ChainTells
  <2> QED BY <1>1, <2>1, <2>2 DEF Chain
<1>4. CASE order' = order
  BY <1>4
<1>5. CASE order' = [before |-> before, after |-> after,
                     beforeFrontier |-> store.frontier, afterFrontier |-> final.frontier]
  BY <1>3, <1>5 DEF IsOrder
<1>6. CASE order # NoDelta /\ order' = [order EXCEPT !.after = after, !.afterFrontier = final.frontier]
  <2> PICK o : o = order
    OBVIOUS
  <2>1. /\ o = [before |-> o.before, after |-> o.after,
                beforeFrontier |-> o.beforeFrontier, afterFrontier |-> o.afterFrontier]
        /\ Len(o.before) \in Nat
    BY <1>6 DEF IsOrder
  <2>2. order' = [before |-> o.before, after |-> after,
                  beforeFrontier |-> o.beforeFrontier, afterFrontier |-> final.frontier]
    BY <1>6, <2>1
  <2> QED BY <1>3, <2>1, <2>2 DEF IsOrder
<1> QED BY <1>2, <1>4, <1>5, <1>6

LEMMA StayingIs ==
    ASSUME Sound(store), NEW i \in DOMAIN Chain, NEW keys
    PROVE  StayingLeft(i, keys) \in Nat /\ StayingRight(i, keys) \in Nat
<1>0. Chain \in Seq(Nodes)
  BY DEF Sound, ChainTells, Chain
<1> PICK n \in Nat : n = Len(Chain) /\ DOMAIN Chain = 1 .. n
  BY <1>0, ListDomain
<1>1. ASSUME NEW j \in 1 .. n PROVE Chain[j].subject \in Nat
  <2>1. Chain[j] \in Nodes
    BY <1>0
  <2> QED BY <2>1 DEF Nodes
<1>2. StayingLeft(i, keys) \in Nat
  <2>1. PICK near : near = {j \in 1 .. i - 1 : Chain[j].key \in ToSet(keys)}
    OBVIOUS
  <2>2. near \subseteq 1 .. n /\ near \subseteq Int /\ IsFiniteSet(near)
    <3>1. 1 \in Int /\ n \in Int /\ near \subseteq 1 .. n
      BY <2>1
    <3>2. near \subseteq Int
      BY <3>1
    <3>3. IsFiniteSet(near)
      BY <3>1, BoundedIsFinite
    <3> QED BY <3>1, <3>2, <3>3
  <2>3. CASE near = {}
    BY <2>1, <2>3 DEF StayingLeft
  <2>4. CASE near # {}
    <3>1. \E j \in near : \A m \in near : j >= m
      BY <2>2, <2>4, MaxExists
    <3>2. \E j \in near : \A m \in near : m <= j
      BY <2>2, <3>1
    <3> PICK c : c = CHOOSE j \in near : \A m \in near : m <= j
      OBVIOUS
    <3>3. c \in near
      BY <3>2
    <3>4. StayingLeft(i, keys) = Chain[c].subject
      BY <2>1, <2>4 DEF StayingLeft
    <3> QED BY <1>1, <2>2, <3>3, <3>4
  <2> QED BY <2>3, <2>4
<1>3. StayingRight(i, keys) \in Nat
  <2>1. PICK near : near = {j \in i + 1 .. Len(Chain) : Chain[j].key \in ToSet(keys)}
    OBVIOUS
  <2>2. near \subseteq 1 .. n /\ near \subseteq Int /\ IsFiniteSet(near)
    <3>1. 1 \in Int /\ n \in Int /\ near \subseteq 1 .. n
      BY <2>1
    <3>2. near \subseteq Int
      BY <3>1
    <3>3. IsFiniteSet(near)
      BY <3>1, BoundedIsFinite
    <3> QED BY <3>1, <3>2, <3>3
  <2>3. CASE near = {}
    BY <2>1, <2>3 DEF StayingRight
  <2>4. CASE near # {}
    <3>1. \E j \in near : \A m \in near : j <= m
      BY <2>2, <2>4, MinExists
    <3> PICK c : c = CHOOSE j \in near : \A m \in near : j <= m
      OBVIOUS
    <3>3. c \in near
      BY <3>1
    <3>4. StayingRight(i, keys) = Chain[c].subject
      BY <2>1, <2>4 DEF StayingRight
    <3> QED BY <1>1, <2>2, <3>3, <3>4
  <2> QED BY <2>3, <2>4
<1> QED BY <1>2, <1>3

LEMMA SetAllWrites ==
    ASSUME Sound(store), NEW keys \in Seq(Keys), IsInjective(keys), NEW fresh
    PROVE  LET final == SetAllStore(store, keys, fresh)
           IN  Written(store, final, SetAllAnnounced(keys, final))
<1> PICK w : w = store
  OBVIOUS
<1> PICK v : v = SetAllStore(store, keys, fresh)
  OBVIOUS
<1>1. Sound(w) /\ Settled(w, v, ToSet(keys))
  BY SetAllStoreIs
<1> PICK f : f = Now(w.states)
  OBVIOUS
<1> PICK g : g = Now(v.states)
  OBVIOUS
<1>2. Tells(SetAllRemovals(keys), w.next, f, g, GoneRows(w, keys))
  <2> PICK gone : gone = GonePlaces(w.chain, keys)
    OBVIOUS
  <2>1. AreGone(w, keys, gone)
    BY GonePlacesAre
  <2> PICK list : list = SetAllRemovals(keys)
    OBVIOUS
  <2>2. list = [j \in DOMAIN gone |-> list[j]]
    BY DEF SetAllRemovals, Chain
  <2>3. ASSUME NEW j \in DOMAIN gone
        PROVE  IsNote(list[j], w.chain[gone[j]].subject, w.chain[gone[j]].key, NoKey)
    <3> PICK i : i = gone[j]
      OBVIOUS
    <3>1. i \in DOMAIN w.chain
      <4>1. gone \in Seq(DOMAIN w.chain)
        BY <2>1 DEF AreGone
      <4> QED BY <4>1, ListDomain
    <3> PICK l : l = StayingLeft(i, keys)
      OBVIOUS
    <3> PICK r : r = StayingRight(i, keys)
      OBVIOUS
    <3>2. l \in Nat /\ r \in Nat
      BY <3>1, StayingIs DEF Chain
    <3>3. list[j] = Effect(w.chain[i].subject, w.chain[i].key, NoKey, l, r)
      BY DEF SetAllRemovals, Chain
    <3>4. w.chain[i] \in Nodes
      <4>1. w.chain \in Seq(Nodes)
        BY DEF Sound, ChainTells
      <4> QED BY <3>1, <4>1, ListDomain
    <3>5. w.chain[i].subject \in Nat /\ w.chain[i].key \in Keys /\ w.chain[i].key # NoKey
      BY <3>4, KeysAssumption DEF Nodes
    <3> PICK s : s = w.chain[i].subject
      OBVIOUS
    <3> PICK k : k = w.chain[i].key
      OBVIOUS
    <3>6. s \in Nat /\ k \in Keys \cup {NoKey} /\ NoKey \in Keys \cup {NoKey} /\ k # NoKey
      BY <3>5
    <3>7. IsNote(Effect(s, k, NoKey, l, r), s, k, NoKey)
      BY <3>2, <3>6, EffectIs
    <3> QED BY <3>3, <3>7
  <2> QED BY <1>1, <2>1, <2>2, <2>3, GoneTold
<1>3. Tells(SetAllUpdates(keys), w.next, f, g, KeptRows(w, keys))
  <2> PICK kept : kept = Within(keys, DOMAIN w.ids)
    OBVIOUS
  <2>1. IsPart(kept, keys, DOMAIN w.ids)
    BY PartIs
  <2> PICK list : list = SetAllUpdates(keys)
    OBVIOUS
  <2>2. list = [j \in DOMAIN kept |-> list[j]]
    BY DEF SetAllUpdates, ActiveKeys
  <2>3. ASSUME NEW j \in DOMAIN kept PROVE IsNote(list[j], w.ids[kept[j]], kept[j], kept[j])
    <3>1. kept[j] \in DOMAIN w.ids
      BY <2>1 DEF IsPart, ToSet
    <3>2. kept[j] \in Keys /\ kept[j] # NoKey /\ w.ids[kept[j]] \in Nat
      BY <1>1, <3>1, IdIs, KeysAssumption
    <3>3. list[j] = Effect(w.ids[kept[j]], kept[j], kept[j], 0, 0)
      BY DEF SetAllUpdates, ActiveKeys
    <3> QED BY <3>2, <3>3, EffectIs
  <2> QED BY <1>1, <2>1, <2>2, <2>3, KeptTold
<1>4. Tells(SetAllAdditions(keys, v), w.next, f, g, NewRows(w, v, keys))
  <2> PICK new : new = Within(keys, ToSet(keys) \ DOMAIN w.ids)
    OBVIOUS
  <2>1. IsPart(new, keys, ToSet(keys) \ DOMAIN w.ids)
    BY PartIs
  <2> PICK list : list = SetAllAdditions(keys, v)
    OBVIOUS
  <2>2. list = [j \in DOMAIN new |-> list[j]]
    BY DEF SetAllAdditions, ActiveKeys
  <2>3. ASSUME NEW j \in DOMAIN new PROVE IsNote(list[j], v.ids[new[j]], NoKey, new[j])
    <3>1. Sound(v) /\ DOMAIN v.ids = ToSet(keys)
      BY <1>1 DEF Settled
    <3>2. new[j] \in DOMAIN v.ids
      BY <2>1, <3>1 DEF IsPart, ToSet
    <3>3. new[j] \in Keys /\ new[j] # NoKey /\ v.ids[new[j]] \in Nat
      BY <3>1, <3>2, IdIs, KeysAssumption
    <3> PICK i : i = RankIn(keys, new[j])
      OBVIOUS
    <3> PICK l : l = SubjectAt(v.chain, i - 1)
      OBVIOUS
    <3> PICK r : r = SubjectAt(v.chain, i + 1)
      OBVIOUS
    <3>4. l \in Nat /\ r \in Nat
      BY <3>1, SubjectAtIs
    <3>5. list[j] = Effect(v.ids[new[j]], NoKey, new[j], l, r)
      BY DEF SetAllAdditions, ActiveKeys
    <3> PICK s : s = v.ids[new[j]]
      OBVIOUS
    <3> PICK k : k = new[j]
      OBVIOUS
    <3>6. s \in Nat /\ k \in Keys \cup {NoKey} /\ NoKey \in Keys \cup {NoKey} /\ k # NoKey
      BY <3>3
    <3>7. IsNote(Effect(s, NoKey, k, l, r), s, NoKey, k)
      BY <3>4, <3>6, EffectIs
    <3> QED BY <3>5, <3>7
  <2> QED BY <1>1, <2>1, <2>2, <2>3, NewTold
<1>5. Written(w, v, SetAllRemovals(keys) \o SetAllUpdates(keys) \o SetAllAdditions(keys, v))
  BY <1>1, <1>2, <1>3, <1>4, SettledWrites
<1> QED BY <1>5 DEF SetAllAnnounced

(* A write, whatever it is.                                                *)
Wrote(list) ==
    /\ Written(store, store', list)
    /\ Revisits \/ \A e \in ToSet(list) : InSequence(queue, e)
    /\ queue' = FoldLeft(EnqueuePending, queue, list)
    /\ UNCHANGED <<enhancer, found, history, applied, open, pending, later>>

LEMMA WriteIs ==
    ASSUME NEW v, NEW list, Write(v, list), Written(store, v, list)
    PROVE  Wrote(list)
BY DEF Write, Wrote

LEMMA KeyListIs ==
    ASSUME NEW keys \in KeyLists
    PROVE  keys \in Seq(Keys) /\ IsInjective(keys)
<1>1. CASE keys = <<>>
  BY <1>1 DEF IsInjective
<1>2. CASE keys # <<>>
  <2>1. Cardinality(Keys) \in Nat
    BY KeysAssumption, FS_CardinalityType
  <2> PICK n \in 1 .. Cardinality(Keys) : keys \in {ks \in [1 .. n -> Keys] : IsInjective(ks)}
    BY <1>2 DEF KeyLists
  <2>2. n \in Nat
    BY <2>1
  <2>3. keys \in [1 .. n -> Keys] /\ IsInjective(keys)
    OBVIOUS
  <2> QED BY <2>2, <2>3
<1> QED BY <1>1, <1>2

LEMMA AuthorWrites ==
    ASSUME Sound(store), IsOrder(order), Modes \subseteq {"strict"}, Author
    PROVE  (\E list : Wrote(list)) /\ IsOrder(order')
<1>0. store.next \in Nat
  BY DEF Sound
<1>1. ASSUME NEW k \in Keys, AddOne(k) PROVE (\E list : Wrote(list)) /\ IsOrder(order')
  <2> PICK left : left = SubjectAt(Chain, Len(Chain))
    OBVIOUS
  <2>1. left \in Nat /\ k \notin DOMAIN store.ids
    BY <1>1, SubjectAtIs DEF Chain, AddOne, ActiveKeys
  <2> PICK list : list = <<Effect(store.next, NoKey, k, left, 0)>>
    OBVIOUS
  <2> PICK v : v = CreateSubject(store, store.next, k, FreshFrontier)
    OBVIOUS
  <2>2. Written(store, v, list)
    BY <2>1, AddOneWrites
  <2>3. Write(v, list) /\ order' = order
    BY <1>1 DEF AddOne
  <2> QED BY <2>2, <2>3, WriteIs
<1>2. ASSUME NEW k \in Keys, PrependOne(k) PROVE (\E list : Wrote(list)) /\ IsOrder(order')
  <2> PICK right : right = SubjectAt(Chain, 1)
    OBVIOUS
  <2>1. right \in Nat /\ k \notin DOMAIN store.ids
    BY <1>2, SubjectAtIs DEF Chain, PrependOne, ActiveKeys
  <2> PICK list : list = <<Effect(store.next, NoKey, k, 0, right)>>
    OBVIOUS
  <2> PICK v : v = MoveKeysToFront(CreateSubject(store, store.next, k, FreshFrontier), <<k>>, FreshFrontier)
    OBVIOUS
  <2>2. Written(store, v, list)
    BY <2>1, PrependOneWrites
  <2>3. Write(v, list) /\ order' = order
    BY <1>2 DEF PrependOne
  <2> QED BY <2>2, <2>3, WriteIs
<1>3. ASSUME NEW keys \in KeyLists, NEW mode \in Modes, AddMany(keys, mode)
      PROVE  (\E list : Wrote(list)) /\ IsOrder(order')
  <2> PICK v : v = CreateEach(store, keys, FreshFrontier)
    OBVIOUS
  <2> PICK list : list = AddManyEffects(keys, v)
    OBVIOUS
  <2>1. keys \in Seq(Keys) /\ IsInjective(keys)
    BY KeyListIs
  <2>2. ToSet(keys) \cap DOMAIN store.ids = {}
    BY <1>3 DEF AddMany, CanAddMany, ActiveKeys
  <2>3. Written(store, v, list)
    BY <2>1, <2>2, AddManyWrites
  <2>4. Write(v, list) /\ order' = order
    BY <1>3 DEF AddMany
  <2> QED BY <2>3, <2>4, WriteIs
<1>4. ASSUME NEW keys \in KeyLists, NEW mode \in Modes, PrependMany(keys, mode)
      PROVE  (\E list : Wrote(list)) /\ IsOrder(order')
  <2> PICK v : v = CreateEach(store, keys, FreshFrontier)
    OBVIOUS
  <2> PICK list : list = AddManyEffects(keys, v)
    OBVIOUS
  <2>1. keys \in Seq(Keys) /\ IsInjective(keys)
    BY KeyListIs
  <2>2. ToSet(keys) \cap DOMAIN store.ids = {}
    BY <1>4 DEF PrependMany, CanAddMany, ActiveKeys
  <2> PICK u : u = MoveKeysToFront(v, keys, FreshFrontier)
    OBVIOUS
  <2>3. Written(store, u, list)
    BY <2>1, <2>2, PrependManyWrites
  <2>4. Write(u, list) /\ order' = order
    BY <1>4 DEF PrependMany
  <2> QED BY <2>3, <2>4, WriteIs
<1>5. ASSUME NEW from \in Keys, NEW to \in Keys, ChangeId(from, to)
      PROVE  (\E list : Wrote(list)) /\ IsOrder(order')
  <2>1. from \in DOMAIN store.ids /\ to \notin DOMAIN store.ids
    BY <1>5 DEF ChangeId, ActiveKeys
  <2> PICK v : v = TransferSubject(store, store.ids[from], from, to)
    OBVIOUS
  <2> PICK list : list = <<Effect(store.ids[from], from, to, 0, 0)>>
    OBVIOUS
  <2>2. Written(store, v, list)
    BY <2>1, ChangeIdWrites
  <2>3. Write(v, list) /\ order' = order
    BY <1>5 DEF ChangeId
  <2> QED BY <2>2, <2>3, WriteIs
<1>6. ASSUME NEW keys \in KeyLists, RemoveRows(keys) PROVE (\E list : Wrote(list)) /\ IsOrder(order')
  <2>1. keys \in Seq(Keys) /\ IsInjective(keys)
    BY KeyListIs
  <2>2. ToSet(keys) \subseteq DOMAIN store.ids
    BY <1>6 DEF RemoveRows, ActiveKeys
  <2> PICK v : v = TombstoneEach(store, NodesOf(store.chain, keys), FreshFrontier)
    OBVIOUS
  <2> PICK list : list = RemovalsOf(store, keys)
    OBVIOUS
  <2>3. Written(store, v, list)
    BY <2>1, <2>2, RemoveRowsWrites
  <2>4. Write(v, list) /\ order' = order
    BY <1>6 DEF RemoveRows, RemovalsOf, Chain
  <2> QED BY <2>3, <2>4, WriteIs
<1>7. ASSUME NEW keys \in KeyLists, SetAll(keys) PROVE (\E list : Wrote(list)) /\ IsOrder(order')
  <2>1. keys \in Seq(Keys) /\ IsInjective(keys)
    BY KeyListIs
  <2> PICK v : v = SetAllStore(store, keys, FreshFrontier)
    OBVIOUS
  <2> PICK list : list = SetAllAnnounced(keys, v)
    OBVIOUS
  <2>2. Written(store, v, list)
    BY <2>1, SetAllWrites
  <2>3. Write(v, list)
    BY <1>7, SetAllIs
  <2>4. Sound(store')
    BY <2>2, <2>3 DEF Write, Written
  <2> QED BY <1>7, <2>2, <2>3, <2>4, WriteIs, SetAllOrder
<1> QED BY <1>1, <1>2, <1>3, <1>4, <1>5, <1>6, <1>7 DEF Author

-----------------------------------------------------------------------------
(* Rows                                                                    *)

IsRows(chain, n) ==
    /\ chain \in Seq(Nodes)
    /\ \A i, j \in DOMAIN chain : chain[i].subject = chain[j].subject \/ chain[i].key = chain[j].key => i = j
    /\ \A i \in DOMAIN chain : chain[i].subject > 0 /\ chain[i].subject < n

(* What a map of keys is when it is that of rows.                          *)
KeysFit(f, n) ==
    /\ f \in Maps /\ f[0] = NoKey /\ \A s \in Nat : s >= n => f[s] = NoKey
    /\ \A s, t \in Nat : f[s] = f[t] /\ f[s] # NoKey => s = t

LEMMA KeysNowIs ==
    ASSUME NEW n \in Nat, NEW chain, IsRows(chain, n)
    PROVE  /\ \A i \in DOMAIN chain : KeysNow(chain)[chain[i].subject] = chain[i].key
           /\ \A s \in Nat : KeysNow(chain)[s] # NoKey =>
                 \E i \in DOMAIN chain : chain[i].subject = s /\ chain[i].key = KeysNow(chain)[s]
           /\ \A i \in DOMAIN chain : chain[i] \in Nodes
<1>0. chain \in Seq(Nodes)
  BY DEF IsRows
<1>1. \A i \in DOMAIN chain : chain[i] \in Nodes
  BY <1>0, ListDomain
<1>2. ASSUME NEW i \in DOMAIN chain PROVE KeysNow(chain)[chain[i].subject] = chain[i].key
  <2> PICK s : s = chain[i].subject
    OBVIOUS
  <2>1. s \in Nat
    BY <1>1 DEF Nodes
  <2> PICK j : j = IndexOfSubject(chain, s)
    OBVIOUS
  <2>2. j # 0
    BY <1>0, IndexOfSubjectIs
  <2>3. j \in DOMAIN chain /\ chain[j].subject = s
    BY <1>0, <2>2, IndexOfSubjectIs
  <2>4. j = i
    BY <2>3 DEF IsRows
  <2> QED BY <2>1, <2>2, <2>4 DEF KeysNow, KeyIn
<1>3. ASSUME NEW s \in Nat, KeysNow(chain)[s] # NoKey
      PROVE  \E i \in DOMAIN chain : chain[i].subject = s /\ chain[i].key = KeysNow(chain)[s]
  <2> PICK j : j = IndexOfSubject(chain, s)
    OBVIOUS
  <2>1. j # 0 /\ KeysNow(chain)[s] = chain[j].key
    BY <1>3 DEF KeysNow, KeyIn
  <2>2. j \in DOMAIN chain /\ chain[j].subject = s
    BY <1>0, <2>1, IndexOfSubjectIs
  <2> QED BY <2>1, <2>2
<1> QED BY <1>1, <1>2, <1>3

LEMMA RowsFit ==
    ASSUME NEW n \in Nat, NEW chain, IsRows(chain, n)
    PROVE  KeysFit(KeysNow(chain), n)
<1> PICK f : f = KeysNow(chain)
  OBVIOUS
<1>1. /\ \A i \in DOMAIN chain : f[chain[i].subject] = chain[i].key
      /\ \A s \in Nat : f[s] # NoKey => \E i \in DOMAIN chain : chain[i].subject = s /\ chain[i].key = f[s]
      /\ \A i \in DOMAIN chain : chain[i] \in Nodes
  BY KeysNowIs
<1>2. \A i, j \in DOMAIN chain : chain[i].subject = chain[j].subject \/ chain[i].key = chain[j].key => i = j
  BY DEF IsRows
<1>3. \A i \in DOMAIN chain : chain[i].subject > 0 /\ chain[i].subject < n
  BY DEF IsRows
<1>4. ASSUME NEW s \in Nat, f[s] # NoKey PROVE f[s] \in Keys /\ s > 0 /\ s < n
  <2> PICK i \in DOMAIN chain : chain[i].subject = s /\ chain[i].key = f[s]
    BY <1>1, <1>4
  <2> QED BY <1>1, <1>3 DEF Nodes
<1>5. f \in Maps
  <2>1. f = [s \in Nat |-> f[s]]
    BY DEF KeysNow
  <2> QED BY <1>4, <2>1 DEF Maps
<1>6. f[0] = NoKey /\ \A s \in Nat : s >= n => f[s] = NoKey
  BY <1>4
<1>7. ASSUME NEW s \in Nat, NEW t \in Nat, f[s] = f[t], f[s] # NoKey PROVE s = t
  <2> PICK i \in DOMAIN chain : chain[i].subject = s /\ chain[i].key = f[s]
    BY <1>1, <1>7
  <2> PICK j \in DOMAIN chain : chain[j].subject = t /\ chain[j].key = f[t]
    BY <1>1, <1>7
  <2> QED BY <1>2, <1>7
<1> QED BY <1>5, <1>6, <1>7 DEF KeysFit

LEMMA RowsLater ==
    ASSUME NEW n \in Nat, NEW m \in Nat, m >= n, NEW chain, IsRows(chain, n)
    PROVE  IsRows(chain, m)
<1>1. /\ chain \in Seq(Nodes)
      /\ \A i, j \in DOMAIN chain : chain[i].subject = chain[j].subject \/ chain[i].key = chain[j].key => i = j
      /\ \A i \in DOMAIN chain : chain[i].subject > 0 /\ chain[i].subject < n
  BY DEF IsRows
<1>2. \A i \in DOMAIN chain : chain[i].subject \in Nat
  <2>1. \A i \in DOMAIN chain : chain[i] \in Nodes
    BY <1>1, ListDomain
  <2> QED BY <2>1 DEF Nodes
<1>3. \A i \in DOMAIN chain : chain[i].subject > 0 /\ chain[i].subject < m
  BY <1>1, <1>2
<1> QED BY <1>1, <1>3 DEF IsRows

LEMMA SoundRows ==
    ASSUME NEW w, Sound(w)
    PROVE  IsRows(w.chain, w.next)
<1>1. w.chain \in Seq(Nodes)
  BY DEF Sound, ChainTells
<1>2. \A i \in DOMAIN w.chain : w.chain[i].subject > 0 /\ w.chain[i].subject < w.next
  BY RowIs, LiveIs
<1> QED BY <1>1, <1>2, OnePlace DEF IsRows

(* Rows with the same keys are the same rows.                              *)
LEMMA SameRows ==
    ASSUME NEW n \in Nat, NEW a, IsRows(a, n), NEW b, IsRows(b, n), KeysNow(a) = KeysNow(b)
    PROVE  ToSet(a) = ToSet(b)
<1>1. ASSUME NEW x, NEW y, IsRows(x, n), IsRows(y, n), KeysNow(x) = KeysNow(y), NEW i \in DOMAIN x
      PROVE  \E j \in DOMAIN y : y[j] = x[i]
  <2> PICK f : f = KeysNow(x)
    OBVIOUS
  <2>1. f[x[i].subject] = x[i].key /\ x[i] \in Nodes
    BY <1>1, KeysNowIs
  <2>2. x[i].subject \in Nat /\ x[i].key \in Keys
    BY <2>1 DEF Nodes
  <2> PICK j \in DOMAIN y : y[j].subject = x[i].subject /\ y[j].key = x[i].key
    BY <1>1, <2>1, <2>2, KeysNowIs, KeysAssumption
  <2>3. y[j] \in Nodes
    BY <1>1, KeysNowIs
  <2> QED BY <2>1, <2>3 DEF Nodes
<1> QED BY <1>1 DEF ToSet

(* What the tick has announced leads from the rows it found to the rows    *)
(* there are.                                                              *)
TickTells ==
    /\ Sound(store) /\ IsRows(found, store.next)
    /\ Trail(queue, KeysNow(found), Now(store.states))

LEMMA WriteKeeps ==
    ASSUME TickTells, ~Revisits, NEW list, Wrote(list)
    PROVE  TickTells' /\ store'.next >= store.next
<1> PICK w : w = store
  OBVIOUS
<1> PICK v : v = store'
  OBVIOUS
<1> PICK origin : origin = KeysNow(found)
  OBVIOUS
<1> PICK f : f = Now(w.states)
  OBVIOUS
<1> PICK g : g = Now(v.states)
  OBVIOUS
<1>1. Sound(w) /\ IsRows(found, w.next) /\ Trail(queue, origin, f)
  BY DEF TickTells
<1>2. Sound(v) /\ v.next >= w.next /\ Announces(list, w.next, f, g)
  BY DEF Wrote, Written
<1>3. w.next \in Nat /\ v.next \in Nat
  BY <1>1, <1>2 DEF Sound
<1>4. origin \in Maps /\ \A s \in Nat : s >= w.next => origin[s] = NoKey
  BY <1>1, <1>3, RowsFit DEF KeysFit
<1>5. f \in Maps /\ g \in Maps
  BY <1>1, <1>2, NowIs
<1>6. \A e \in ToSet(list) : InSequence(queue, e)
  BY DEF Wrote
<1>7. Trail(FoldLeft(EnqueuePending, queue, list), origin, g)
  BY <1>1, <1>2, <1>4, <1>5, <1>6, AnnouncedIs
<1>8. queue' = FoldLeft(EnqueuePending, queue, list) /\ found' = found
  BY DEF Wrote
<1>9. IsRows(found, v.next)
  BY <1>1, <1>2, <1>3, RowsLater
<1> QED BY <1>2, <1>7, <1>8, <1>9 DEF TickTells

-----------------------------------------------------------------------------
(* Turns                                                                   *)

(* Effects that a store can take in either direction.                      *)
Fits(list, n) ==
    /\ list \in Seq(Effects) /\ IsInjective(list) /\ EffectsFit(ToSet(list), n)
    /\ \A e, d \in ToSet(list) : e.before = d.before /\ e.before # NoKey => e = d

IsDelta(delta) == delta = NoDelta \/ (delta.before.length \in Nat /\ delta.after.length \in Nat)

TurnIs(t, n) ==
    /\ IsRows(t.before, n) /\ IsRows(t.after, n)
    /\ Nets(KeysNow(t.before), KeysNow(t.after), t.effects) /\ IsDelta(t.delta)

LEMMA NetFits ==
    ASSUME NEW n \in Nat, NEW f, KeysFit(f, n), NEW g, KeysFit(g, n), NEW net, Nets(f, g, net)
    PROVE  Fits(net, n)
<1>1. net \in Seq(Effects)
  BY DEF Nets
<1> PICK m \in Nat : m = Len(net) /\ DOMAIN net = 1 .. m
  BY <1>1, ListDomain
<1>2. \A i \in 1 .. m : net[i] \in Effects
  BY <1>1
<1>3. /\ \A i, j \in 1 .. m : net[i].subject = net[j].subject => i = j
      /\ \A i \in 1 .. m : /\ net[i].before = f[net[i].subject] /\ net[i].after = g[net[i].subject]
                           /\ f[net[i].subject] # g[net[i].subject]
  BY DEF Nets
<1>4. /\ f[0] = NoKey /\ \A s \in Nat : s >= n => f[s] = NoKey
      /\ \A s, t \in Nat : f[s] = f[t] /\ f[s] # NoKey => s = t
      /\ g[0] = NoKey /\ \A s \in Nat : s >= n => g[s] = NoKey
      /\ \A s, t \in Nat : g[s] = g[t] /\ g[s] # NoKey => s = t
  BY DEF KeysFit
<1> PICK E : E = ToSet(net)
  OBVIOUS
<1>5. \A e \in E : \E i \in 1 .. m : net[i] = e
  BY DEF ToSet
<1>6. ASSUME NEW e \in E
      PROVE  /\ e \in Effects /\ e.subject \in Nat /\ e.subject > 0 /\ e.subject < n
             /\ e.before = f[e.subject] /\ e.after = g[e.subject] /\ e.before # e.after
  <2> PICK i \in 1 .. m : net[i] = e
    BY <1>5
  <2>1. e \in Effects /\ e.before = f[e.subject] /\ e.after = g[e.subject] /\ f[e.subject] # g[e.subject]
    BY <1>2, <1>3
  <2>2. e.subject \in Nat
    BY <2>1 DEF Effects
  <2> QED BY <1>4, <2>1, <2>2
<1>7. ASSUME NEW e \in E, NEW d \in E, e.subject = d.subject PROVE e = d
  <2> PICK i \in 1 .. m : net[i] = e
    BY <1>5
  <2> PICK j \in 1 .. m : net[j] = d
    BY <1>5
  <2> QED BY <1>3, <1>7
<1>8. \A e, d \in E : e.after = d.after /\ e.after # NoKey => e = d
  BY <1>4, <1>6, <1>7
<1>9. \A e, d \in E : e.before = d.before /\ e.before # NoKey => e = d
  BY <1>4, <1>6, <1>7
<1>10. EffectsFit(E, n)
  BY <1>6, <1>7, <1>8 DEF EffectsFit
<1>11. IsInjective(net)
  BY <1>3 DEF IsInjective
<1> QED BY <1>1, <1>9, <1>10, <1>11 DEF Fits

LEMMA FitsWithin ==
    ASSUME NEW n, NEW list, Fits(list, n), NEW r \in Seq(Effects), IsInjective(r), ToSet(r) \subseteq ToSet(list)
    PROVE  Fits(r, n)
<1>1. EffectsFit(ToSet(r), n)
  BY FitSubset DEF Fits
<1>2. \A e, d \in ToSet(r) : e.before = d.before /\ e.before # NoKey => e = d
  BY DEF Fits
<1> QED BY <1>1, <1>2 DEF Fits

LEMMA ReversedIs ==
    ASSUME NEW e \in Effects
    PROVE  /\ Reversed(e) \in Effects /\ Reversed(e).subject = e.subject
           /\ Reversed(e).before = e.after /\ Reversed(e).after = e.before
           /\ Reversed(e).left = e.left /\ Reversed(e).right = e.right
BY DEF Reversed, Effects

LEMMA FitsReversed ==
    ASSUME NEW n, NEW list, Fits(list, n)
    PROVE  /\ Fits(ReversedEach(list), n)
           /\ ToSet(ReversedEach(list)) = {Reversed(e) : e \in ToSet(list)}
<1>0. /\ list \in Seq(Effects) /\ IsInjective(list) /\ EffectsFit(ToSet(list), n)
      /\ \A e, d \in ToSet(list) : e.before = d.before /\ e.before # NoKey => e = d
  BY DEF Fits
<1> PICK m \in Nat : m = Len(list) /\ DOMAIN list = 1 .. m
  BY <1>0, ListDomain
<1> PICK r : r = ReversedEach(list)
  OBVIOUS
<1>1. r = [i \in 1 .. m |-> Reversed(list[i])]
  BY DEF ReversedEach
<1>2. \A i \in 1 .. m : list[i] \in Effects /\ list[i] \in ToSet(list)
  BY <1>0, ListDomain DEF ToSet
<1>3. \A i \in 1 .. m : r[i] = Reversed(list[i]) /\ r[i] \in Effects
  BY <1>1, <1>2, ReversedIs
<1>4. r \in Seq(Effects) /\ DOMAIN r = 1 .. m
  BY <1>1, <1>3
<1>5. /\ \A e \in ToSet(list) : e.subject > 0 /\ e.subject < n /\ e.before # e.after
      /\ \A e, d \in ToSet(list) : e.subject = d.subject => e = d
      /\ \A e, d \in ToSet(list) : e.after = d.after /\ e.after # NoKey => e = d
  BY <1>0 DEF EffectsFit
<1>6. \A i, j \in 1 .. m : list[i] = list[j] => i = j
  BY <1>0 DEF IsInjective
<1>7. ASSUME NEW i \in 1 .. m, NEW j \in 1 .. m, r[i].subject = r[j].subject PROVE i = j
  <2>1. list[i].subject = list[j].subject
    BY <1>2, <1>3, <1>7, ReversedIs
  <2> QED BY <1>2, <1>5, <1>6, <2>1
<1>8. IsInjective(r)
  BY <1>4, <1>7 DEF IsInjective
<1>9. \A e \in ToSet(r) : \E i \in 1 .. m : e = r[i]
  BY <1>4 DEF ToSet
<1>10. ASSUME NEW e \in ToSet(r)
       PROVE  e \in Effects /\ e.subject > 0 /\ e.subject < n /\ e.before # e.after
  <2> PICK i \in 1 .. m : e = r[i]
    BY <1>9
  <2> QED BY <1>2, <1>3, <1>5, ReversedIs
<1>11. \A e, d \in ToSet(r) : e.subject = d.subject => e = d
  BY <1>7, <1>9
<1>12. ASSUME NEW e \in ToSet(r), NEW d \in ToSet(r)
       PROVE  /\ e.after = d.after /\ e.after # NoKey => e = d
              /\ e.before = d.before /\ e.before # NoKey => e = d
  <2> PICK i \in 1 .. m : e = r[i]
    BY <1>9
  <2> PICK j \in 1 .. m : d = r[j]
    BY <1>9
  <2>1. /\ e.after = list[i].before /\ e.before = list[i].after
        /\ d.after = list[j].before /\ d.before = list[j].after
    BY <1>2, <1>3, ReversedIs
  <2>2. e.after = d.after /\ e.after # NoKey => list[i] = list[j]
    BY <1>0, <1>2, <2>1
  <2>3. e.before = d.before /\ e.before # NoKey => list[i] = list[j]
    BY <1>2, <1>5, <2>1
  <2> QED BY <1>3, <2>2, <2>3
<1>13. EffectsFit(ToSet(r), n)
  BY <1>10, <1>11, <1>12 DEF EffectsFit
<1>14. Fits(r, n)
  BY <1>4, <1>8, <1>12, <1>13 DEF Fits
<1>15. ToSet(r) = {Reversed(e) : e \in ToSet(list)}
  <2>1. ASSUME NEW e \in ToSet(r) PROVE e \in {Reversed(d) : d \in ToSet(list)}
    <3> PICK i \in 1 .. m : e = r[i]
      BY <1>9
    <3> QED BY <1>2, <1>3
  <2>2. ASSUME NEW d \in ToSet(list) PROVE Reversed(d) \in ToSet(r)
    <3> PICK i \in 1 .. m : d = list[i]
      BY DEF ToSet
    <3>1. r[i] \in ToSet(r)
      BY <1>4 DEF ToSet
    <3> QED BY <1>3, <3>1
  <2> QED BY <2>1, <2>2
<1> QED BY <1>14, <1>15

LEMMA FitsReverse ==
    ASSUME NEW n, NEW list, Fits(list, n)
    PROVE  Fits(Reverse(list), n) /\ ToSet(Reverse(list)) = ToSet(list)
<1>1. list \in Seq(Effects) /\ IsInjective(list)
  BY DEF Fits
<1>2. Reverse(list) \in Seq(Effects) /\ ToSet(Reverse(list)) = ToSet(list) /\ IsInjective(Reverse(list))
  BY <1>1, ReverseIs
<1> QED BY <1>2, FitsWithin

(* What a realization says of the rows.                                    *)
LEMMA RealizedTells ==
    ASSUME NEW w, Sound(w), NEW v, NEW E, Realized(w, v, E), NEW f, KeysFit(f, w.next),
           \A e \in E : e.after = f[e.subject],
           \A s \in Nat : f[s] # Now(w.states)[s] => \E e \in E : e.subject = s
    PROVE  Now(v.states) = f
<1>1. /\ Sound(v) /\ v.next = w.next /\ DOMAIN v.states = DOMAIN w.states
      /\ \A e \in E : v.states[e.subject] = e.after
      /\ \A s \in DOMAIN w.states : (\A e \in E : e.subject # s) => v.states[s] = w.states[s]
  BY DEF Realized, Restates
<1>2. w.next \in Nat /\ DOMAIN w.states = 1 .. w.next - 1
  BY DEF Sound
<1>3. f \in Maps /\ f[0] = NoKey /\ \A s \in Nat : s >= w.next => f[s] = NoKey
  BY DEF KeysFit
<1>4. ASSUME NEW s \in Nat PROVE Now(v.states)[s] = f[s]
  <2>1. CASE s \notin DOMAIN w.states
    <3>1. f[s] = NoKey
      BY <1>2, <1>3, <2>1
    <3> QED BY <1>1, <2>1, <3>1 DEF Now
  <2>2. CASE s \in DOMAIN w.states /\ \E e \in E : e.subject = s
    <3> PICK e \in E : e.subject = s
      BY <2>2
    <3>1. v.states[s] = f[s]
      BY <1>1
    <3> QED BY <1>1, <2>2, <3>1 DEF Now
  <2>3. CASE s \in DOMAIN w.states /\ \A e \in E : e.subject # s
    <3>1. f[s] = Now(w.states)[s]
      BY <2>3
    <3>2. v.states[s] = w.states[s]
      BY <1>1, <2>3
    <3> QED BY <1>1, <2>3, <3>1, <3>2 DEF Now
  <2> QED BY <2>1, <2>2, <2>3
<1>5. Now(v.states) = [s \in Nat |-> Now(v.states)[s]] /\ f = [s \in Nat |-> f[s]]
  BY <1>3 DEF Now, Maps
<1> QED BY <1>4, <1>5

LEMMA TransitionIs ==
    ASSUME Sound(store), NEW effects, Fits(effects, store.next), NEW delta, IsDelta(delta),
           NEW from, NEW to \in {"before", "after"}, Transition(effects, delta, from, to).ok
    PROVE  LET v == Transition(effects, delta, from, to).store
           IN  /\ Realized(store, v, ToSet(effects))
               /\ delta = NoDelta => KeepsOrder(store, v, {e.subject : e \in ToSet(effects)})
<1> PICK T : T = {e.subject : e \in ToSet(effects)}
  OBVIOUS
<1> PICK result : result = Transition(effects, delta, from, to)
  OBVIOUS
<1>1. effects \in Seq(Effects) /\ IsInjective(effects) /\ EffectsFit(ToSet(effects), store.next)
  BY DEF Fits
<1> PICK end : end = EndOf(delta, to)
  OBVIOUS
<1>2. end = NoDelta \/ end.length \in Nat
  BY DEF EndOf, IsDelta
<1> PICK other : other = EndOf(delta, from)
  OBVIOUS
<1> PICK fresh : fresh = FreshFrontier
  OBVIOUS
<1>3. CASE result = DeclarativeTransition(store, effects, other, end, fresh)
  <2>1. DeclarativeTransition(store, effects, other, end, fresh).ok
    BY <1>3
  <2>2. /\ Realized(store, DeclarativeTransition(store, effects, other, end, fresh).store, ToSet(effects))
        /\ end = NoDelta => KeepsOrder(store, DeclarativeTransition(store, effects, other, end, fresh).store, T)
    BY <1>1, <1>2, <2>1, DeclarativeTransitionIs
  <2>3. delta = NoDelta => end = NoDelta
    BY DEF EndOf
  <2> QED BY <1>3, <2>2, <2>3
<1>4. CASE result = PhysicalTransition(store, effects, fresh)
  <2>1. PhysicalTransition(store, effects, fresh).ok
    BY <1>4
  <2>2. /\ Realized(store, PhysicalTransition(store, effects, fresh).store, ToSet(effects))
        /\ KeepsOrder(store, PhysicalTransition(store, effects, fresh).store, T)
    BY <1>1, <2>1, PhysicalTransitionIs
  <2> QED BY <1>4, <2>2
<1> QED BY <1>3, <1>4 DEF Transition

LEMMA TurnFits ==
    ASSUME NEW n \in Nat, NEW t, TurnIs(t, n)
    PROVE  /\ Fits(t.effects, n)
           /\ KeysFit(KeysNow(t.before), n) /\ KeysFit(KeysNow(t.after), n)
<1>1. IsRows(t.before, n) /\ IsRows(t.after, n) /\ Nets(KeysNow(t.before), KeysNow(t.after), t.effects)
  BY DEF TurnIs
<1>2. KeysFit(KeysNow(t.before), n) /\ KeysFit(KeysNow(t.after), n)
  BY <1>1, RowsFit
<1>3. Fits(t.effects, n)
  BY <1>1, <1>2, NetFits
<1> QED BY <1>2, <1>3

(* The effects of a turn, as a set.                                        *)
LEMMA NetTells ==
    ASSUME NEW f, NEW g, NEW net, Nets(f, g, net)
    PROVE  /\ \A e \in ToSet(net) : e \in Effects /\ e.before = f[e.subject] /\ e.after = g[e.subject]
           /\ \A s \in Nat : f[s] # g[s] => \E e \in ToSet(net) : e.subject = s
<1>1. net \in Seq(Effects)
  BY DEF Nets
<1> PICK m \in Nat : m = Len(net) /\ DOMAIN net = 1 .. m
  BY <1>1, ListDomain
<1>2. /\ \A i \in 1 .. m : net[i] \in Effects /\ net[i] \in ToSet(net)
      /\ \A e \in ToSet(net) : \E i \in 1 .. m : net[i] = e
  BY <1>1, ListDomain DEF ToSet
<1>3. /\ \A i \in 1 .. m : net[i].before = f[net[i].subject] /\ net[i].after = g[net[i].subject]
      /\ \A s \in Nat : f[s] # g[s] => \E i \in 1 .. m : net[i].subject = s
  BY DEF Nets
<1> QED BY <1>2, <1>3

Restored(result, chain) ==
    /\ Sound(result.store) /\ result.store.next = store.next
    /\ KeysNow(result.store.chain) = KeysNow(chain)

LEMMA UndoneIs ==
    ASSUME Sound(store), NEW t, TurnIs(t, store.next), Now(store.states) = KeysNow(t.after), Undone(t).ok
    PROVE  Restored(Undone(t), t.before)
<1> PICK f : f = KeysNow(t.before)
  OBVIOUS
<1> PICK g : g = KeysNow(t.after)
  OBVIOUS
<1>1. Nets(f, g, t.effects) /\ IsDelta(t.delta)
  BY DEF TurnIs
<1>2. Fits(t.effects, store.next) /\ KeysFit(f, store.next) /\ store.next \in Nat
  BY TurnFits DEF Sound
<1> PICK back : back = Reverse(t.effects)
  OBVIOUS
<1>3. Fits(back, store.next) /\ ToSet(back) = ToSet(t.effects)
  BY <1>2, FitsReverse
<1> PICK list : list = ReversedEach(back)
  OBVIOUS
<1>4. Fits(list, store.next)
  BY <1>3, FitsReversed
<1>5. ToSet(list) = {Reversed(e) : e \in ToSet(back)}
  BY <1>3, FitsReversed
<1> PICK u : u = Transition(list, t.delta, "after", "before")
  OBVIOUS
<1>6. Undone(t) = u
  BY DEF Undone
<1>7. Realized(store, u.store, ToSet(list))
  BY <1>1, <1>4, <1>6, TransitionIs
<1>8. /\ \A e \in ToSet(t.effects) : e \in Effects /\ e.before = f[e.subject] /\ e.after = g[e.subject]
      /\ \A s \in Nat : f[s] # g[s] => \E e \in ToSet(t.effects) : e.subject = s
  BY <1>1, NetTells
<1>9. \A e \in ToSet(t.effects) : Reversed(e) \in ToSet(list)
  BY <1>3, <1>5
<1>10. ASSUME NEW d \in ToSet(list) PROVE d.after = f[d.subject]
  <2> PICK e \in ToSet(t.effects) : d = Reversed(e)
    BY <1>3, <1>5
  <2> QED BY <1>8, ReversedIs
<1>11. ASSUME NEW s \in Nat, f[s] # Now(store.states)[s] PROVE \E d \in ToSet(list) : d.subject = s
  <2> PICK e \in ToSet(t.effects) : e.subject = s
    BY <1>8, <1>11
  <2>1. Reversed(e).subject = s
    BY <1>8, ReversedIs
  <2> QED BY <1>9, <2>1
<1>12. Now(u.store.states) = f
  BY <1>2, <1>7, <1>10, <1>11, RealizedTells
<1>13. Sound(u.store) /\ u.store.next = store.next
  BY <1>7 DEF Realized
<1>14. KeysNow(u.store.chain) = Now(u.store.states)
  BY <1>13, NowIs
<1> QED BY <1>6, <1>12, <1>13, <1>14 DEF Restored

LEMMA RedoneIs ==
    ASSUME Sound(store), NEW t, TurnIs(t, store.next), Now(store.states) = KeysNow(t.before), Redone(t).ok
    PROVE  Restored(Redone(t), t.after)
<1> PICK f : f = KeysNow(t.before)
  OBVIOUS
<1> PICK g : g = KeysNow(t.after)
  OBVIOUS
<1>1. Nets(f, g, t.effects) /\ IsDelta(t.delta)
  BY DEF TurnIs
<1>2. Fits(t.effects, store.next) /\ KeysFit(g, store.next) /\ store.next \in Nat
  BY TurnFits DEF Sound
<1> PICK u : u = Transition(t.effects, t.delta, "before", "after")
  OBVIOUS
<1>3. Redone(t) = u
  BY DEF Redone
<1>4. Realized(store, u.store, ToSet(t.effects))
  BY <1>1, <1>2, <1>3, TransitionIs
<1>5. /\ \A e \in ToSet(t.effects) : e \in Effects /\ e.before = f[e.subject] /\ e.after = g[e.subject]
      /\ \A s \in Nat : f[s] # g[s] => \E e \in ToSet(t.effects) : e.subject = s
  BY <1>1, NetTells
<1>6. \A s \in Nat : g[s] # Now(store.states)[s] => \E e \in ToSet(t.effects) : e.subject = s
  BY <1>5
<1>7. Now(u.store.states) = g
  BY <1>2, <1>4, <1>5, <1>6, RealizedTells
<1>8. Sound(u.store) /\ u.store.next = store.next
  BY <1>4 DEF Realized
<1>9. KeysNow(u.store.chain) = Now(u.store.states)
  BY <1>8, NowIs
<1> QED BY <1>3, <1>7, <1>8, <1>9 DEF Restored

LEMMA PendingRollbackIs ==
    ASSUME NEW n, NEW list, Fits(list, n)
    PROVE  /\ Fits(PendingRollbackEffects(list), n)
           /\ \A e \in ToSet(PendingRollbackEffects(list)) : e \in ToSet(list)
           /\ \A i \in DOMAIN list : i = 1 \/ ~IsRekey(list[i]) => list[i] \in ToSet(PendingRollbackEffects(list))
<1>0. list \in Seq(Effects) /\ IsInjective(list)
  BY DEF Fits
<1> PICK m \in Nat : m = Len(list) /\ DOMAIN list = 1 .. m
  BY <1>0, ListDomain
<1>1. PICK places : places = [i \in DOMAIN list |-> i]
  OBVIOUS
<1>2. places \in Seq(1 .. m) /\ IsInjective(places)
  BY <1>1 DEF IsInjective
<1>3. ToSet(places) = 1 .. m
  BY <1>1 DEF ToSet
<1>4. PICK S : S = {i \in DOMAIN list : i = 1 \/ ~IsRekey(list[i])}
  OBVIOUS
<1> PICK first : first = Within(places, S)
  OBVIOUS
<1>5. first \in Seq(1 .. m) /\ IsInjective(first) /\ ToSet(first) = ToSet(places) \cap S
  BY <1>2, WithinIs
<1>6. ToSet(first) = S
  BY <1>3, <1>4, <1>5
<1> PICK k \in Nat : k = Len(first) /\ DOMAIN first = 1 .. k
  BY <1>5, ListDomain
<1>7. \A j \in 1 .. k : first[j] \in 1 .. m
  BY <1>5
<1> PICK r : r = PendingRollbackEffects(list)
  OBVIOUS
<1>8. r = [j \in 1 .. k |-> list[first[j]]]
  BY <1>1, <1>4 DEF PendingRollbackEffects
<1>9. \A i \in 1 .. m : list[i] \in Effects /\ list[i] \in ToSet(list)
  BY <1>0, ListDomain DEF ToSet
<1>10. r \in Seq(Effects) /\ DOMAIN r = 1 .. k
  BY <1>7, <1>8, <1>9
<1>11. IsInjective(r)
  <2> SUFFICES ASSUME NEW i \in 1 .. k, NEW j \in 1 .. k, r[i] = r[j] PROVE i = j
    BY <1>10 DEF IsInjective
  <2>1. r[i] = list[first[i]] /\ r[j] = list[first[j]]
    BY <1>8
  <2>2. first[i] = first[j]
    BY <1>0, <1>7, <2>1 DEF IsInjective
  <2> QED BY <1>5, <2>2 DEF IsInjective
<1>12. \A e \in ToSet(r) : e \in ToSet(list)
  BY <1>7, <1>8, <1>9, <1>10 DEF ToSet
<1>13. ASSUME NEW i \in DOMAIN list, i = 1 \/ ~IsRekey(list[i]) PROVE list[i] \in ToSet(r)
  <2>1. i \in ToSet(first)
    BY <1>4, <1>6, <1>13
  <2> PICK j \in 1 .. k : first[j] = i
    BY <2>1 DEF ToSet
  <2>2. r[j] = list[i]
    BY <1>8
  <2> QED BY <1>10, <2>2 DEF ToSet
<1>14. ToSet(r) \subseteq ToSet(list)
  BY <1>12
<1>15. Fits(r, n)
  BY <1>10, <1>11, <1>14, FitsWithin
<1> QED BY <1>12, <1>13, <1>15

LEMMA CompensationIs ==
    ASSUME NEW n, NEW t, Fits(t.effects, n)
    PROVE  /\ Fits(Compensation(t), n)
           /\ ToSet(Compensation(t)) = {e \in ToSet(t.effects) : ~Erased(e)}
<1> PICK list : list = t.effects
  OBVIOUS
<1>0. list \in Seq(Effects) /\ IsInjective(list)
  BY DEF Fits
<1>1. PICK S : S = {e \in ToSet(list) : ~Erased(e)}
  OBVIOUS
<1> PICK r : r = Within(list, S)
  OBVIOUS
<1>2. r \in Seq(Effects) /\ IsInjective(r) /\ ToSet(r) = ToSet(list) \cap S
  BY <1>0, WithinIs
<1>3. ToSet(r) = S /\ ToSet(r) \subseteq ToSet(list)
  BY <1>1, <1>2
<1>4. Fits(r, n)
  BY <1>2, <1>3, FitsWithin
<1>5. r = Compensation(t)
  BY <1>1 DEF Compensation
<1> QED BY <1>1, <1>3, <1>4, <1>5

(* What an accepted rollback has put in place.                             *)
RollsBack(t, v, list) ==
    LET effects == ReversedEach(Compensation(t))
    IN  /\ list \in {effects, PendingRollbackEffects(effects)} /\ Realized(store, v, ToSet(list))
        /\ t.delta = NoDelta => KeepsOrder(store, v, {e.subject : e \in ToSet(list)})

LEMMA RolledBackIs ==
    ASSUME Sound(store), NEW t, TurnIs(t, store.next), RolledBack(t).ok
    PROVE  /\ \E list : RollsBack(t, RolledBack(t).store, list)
           /\ \A i \in DOMAIN t.effects : ~Conflicts(t.effects[i])
<1>0. store.next \in Nat
  BY DEF Sound
<1>1. Fits(t.effects, store.next) /\ IsDelta(t.delta)
  BY <1>0, TurnFits DEF TurnIs
<1>2. Fits(Compensation(t), store.next)
  BY <1>1, CompensationIs
<1> PICK effects : effects = ReversedEach(Compensation(t))
  OBVIOUS
<1>3. Fits(effects, store.next)
  BY <1>2, FitsReversed
<1> PICK few : few = PendingRollbackEffects(effects)
  OBVIOUS
<1>4. Fits(few, store.next)
  BY <1>3, PendingRollbackIs
<1>5. ~\E i \in DOMAIN t.effects : Conflicts(t.effects[i])
  BY DEF RolledBack, Refused
<1> PICK from : from = EndOf(t.delta, "after")
  OBVIOUS
<1> PICK to : to = EndOf(t.delta, "before")
  OBVIOUS
<1>6. to = NoDelta \/ to.length \in Nat
  BY <1>1 DEF EndOf, IsDelta
<1> PICK fresh : fresh = FreshFrontier
  OBVIOUS
<1>7. CASE RolledBack(t) = DeclarativeTransition(store, effects, from, to, fresh)
  <2>1. DeclarativeTransition(store, effects, from, to, fresh).ok
    BY <1>7
  <2>2. effects \in Seq(Effects) /\ IsInjective(effects) /\ EffectsFit(ToSet(effects), store.next)
    BY <1>3 DEF Fits
  <2> PICK v : v = DeclarativeTransition(store, effects, from, to, fresh).store
    OBVIOUS
  <2> PICK T : T = {e.subject : e \in ToSet(effects)}
    OBVIOUS
  <2>3. Realized(store, v, ToSet(effects)) /\ to = NoDelta => KeepsOrder(store, v, T)
    BY <1>6, <2>1, <2>2, DeclarativeTransitionIs
  <2>4. Realized(store, v, ToSet(effects))
    BY <1>6, <2>1, <2>2, DeclarativeTransitionIs
  <2>5. t.delta = NoDelta => KeepsOrder(store, v, T)
    BY <2>3, <2>4 DEF EndOf
  <2>6. RollsBack(t, v, effects)
    BY <2>4, <2>5 DEF RollsBack
  <2> QED BY <1>5, <1>7, <2>6
<1>8. CASE RolledBack(t) = PhysicalTransition(store, few, fresh)
  <2>1. PhysicalTransition(store, few, fresh).ok
    BY <1>8
  <2>2. few \in Seq(Effects) /\ IsInjective(few) /\ EffectsFit(ToSet(few), store.next)
    BY <1>4 DEF Fits
  <2> PICK v : v = PhysicalTransition(store, few, fresh).store
    OBVIOUS
  <2>3. Realized(store, v, ToSet(few)) /\ KeepsOrder(store, v, {e.subject : e \in ToSet(few)})
    BY <2>1, <2>2, PhysicalTransitionIs
  <2>4. RollsBack(t, v, few)
    BY <2>3 DEF RollsBack
  <2> QED BY <1>5, <1>8, <2>4
<1> QED BY <1>5, <1>7, <1>8 DEF RolledBack

-----------------------------------------------------------------------------
(* The recorded turns                                                      *)

(* The applied ones lead to the rows `chain`, the others on from there.    *)
HistoryTells(turns, a, chain, n) ==
    /\ turns \in Seq(ToSet(turns)) /\ a \in 0 .. Len(turns)
    /\ \A i \in 1 .. Len(turns) : TurnIs(turns[i], n)
    /\ \A i \in 1 .. Len(turns) - 1 : KeysNow(turns[i].after) = KeysNow(turns[i + 1].before)
    /\ a > 0 => KeysNow(turns[a].after) = KeysNow(chain)
    /\ a < Len(turns) => KeysNow(turns[a + 1].before) = KeysNow(chain)

LEMMA TurnLater ==
    ASSUME NEW n \in Nat, NEW m \in Nat, m >= n, NEW t, TurnIs(t, n)
    PROVE  TurnIs(t, m)
BY RowsLater DEF TurnIs

LEMMA HistoryLater ==
    ASSUME NEW n \in Nat, NEW m \in Nat, m >= n, NEW turns, NEW a, NEW chain, HistoryTells(turns, a, chain, n)
    PROVE  HistoryTells(turns, a, chain, m)
<1>1. \A i \in 1 .. Len(turns) : TurnIs(turns[i], m)
  BY TurnLater DEF HistoryTells
<1> QED BY <1>1 DEF HistoryTells

LEMMA HistoryNone ==
    ASSUME NEW chain, NEW n
    PROVE  HistoryTells(<<>>, 0, chain, n)
<1>1. PICK none : none = <<>>
  OBVIOUS
<1>2. none \in Seq(ToSet(none)) /\ Len(none) = 0
  BY <1>1
<1>3. HistoryTells(none, 0, chain, n)
  BY <1>2 DEF HistoryTells
<1> QED BY <1>1, <1>3

LEMMA HistorySame ==
    ASSUME NEW turns, NEW a, NEW chain, NEW n, HistoryTells(turns, a, chain, n),
           NEW other, KeysNow(other) = KeysNow(chain)
    PROVE  HistoryTells(turns, a, other, n)
BY DEF HistoryTells

LEMMA HistoryBack ==
    ASSUME NEW turns, NEW a, NEW chain, NEW n, HistoryTells(turns, a, chain, n), a > 0,
           NEW other, KeysNow(other) = KeysNow(turns[a].before)
    PROVE  HistoryTells(turns, a - 1, other, n)
<1>1. /\ turns \in Seq(ToSet(turns)) /\ a \in 0 .. Len(turns)
      /\ \A i \in 1 .. Len(turns) : TurnIs(turns[i], n)
      /\ \A i \in 1 .. Len(turns) - 1 : KeysNow(turns[i].after) = KeysNow(turns[i + 1].before)
  BY DEF HistoryTells
<1> PICK l \in Nat : l = Len(turns)
  BY <1>1, ListDomain
<1>2. a \in Int /\ a >= 1 /\ a <= l
  BY <1>1
<1> PICK b \in Nat : b + 1 = a
  BY <1>2
<1>3. b = a - 1 /\ b \in 0 .. l /\ b < l
  BY <1>2
<1>4. b > 0 => KeysNow(turns[b].after) = KeysNow(other)
  <2> HAVE b > 0
  <2>1. b \in 1 .. l - 1
    BY <1>3
  <2> QED BY <1>1, <2>1
<1>5. KeysNow(turns[b + 1].before) = KeysNow(other)
  OBVIOUS
<1>6. HistoryTells(turns, b, other, n)
  BY <1>1, <1>3, <1>4, <1>5 DEF HistoryTells
<1> QED BY <1>3, <1>6

LEMMA HistoryOn ==
    ASSUME NEW turns, NEW a, NEW chain, NEW n, HistoryTells(turns, a, chain, n), a < Len(turns),
           NEW other, KeysNow(other) = KeysNow(turns[a + 1].after)
    PROVE  HistoryTells(turns, a + 1, other, n)
<1>1. /\ turns \in Seq(ToSet(turns)) /\ a \in 0 .. Len(turns)
      /\ \A i \in 1 .. Len(turns) : TurnIs(turns[i], n)
      /\ \A i \in 1 .. Len(turns) - 1 : KeysNow(turns[i].after) = KeysNow(turns[i + 1].before)
  BY DEF HistoryTells
<1> PICK l \in Nat : l = Len(turns)
  BY <1>1, ListDomain
<1> PICK b \in Nat : b = a + 1
  BY <1>1
<1>2. b \in 0 .. l /\ b > 0
  BY <1>1
<1>3. b < l => KeysNow(turns[b + 1].before) = KeysNow(other)
  <2> HAVE b < l
  <2>1. b \in 1 .. l - 1
    BY <1>2
  <2> QED BY <1>1, <2>1
<1>4. KeysNow(turns[b].after) = KeysNow(other)
  OBVIOUS
<1>5. HistoryTells(turns, b, other, n)
  BY <1>1, <1>2, <1>3, <1>4 DEF HistoryTells
<1> QED BY <1>5

LEMMA RangeOf ==
    ASSUME NEW T, NEW list \in Seq(T)
    PROVE  list \in Seq(ToSet(list))
<1> PICK n \in Nat : n = Len(list) /\ DOMAIN list = 1 .. n
  BY ListDomain
<1> PICK M : M = ToSet(list)
  OBVIOUS
<1>1. \A i \in 1 .. n : list[i] \in M
  BY DEF ToSet
<1>2. list = [i \in 1 .. n |-> list[i]]
  OBVIOUS
<1> QED BY <1>1, <1>2

LEMMA HistoryGrows ==
    ASSUME NEW turns, NEW a, NEW chain, NEW n, HistoryTells(turns, a, chain, n),
           NEW t, TurnIs(t, n), KeysNow(t.before) = KeysNow(chain),
           NEW other, KeysNow(other) = KeysNow(t.after)
    PROVE  HistoryTells(Append(SubSeq(turns, 1, a), t), a + 1, other, n)
<1>1. /\ turns \in Seq(ToSet(turns)) /\ a \in 0 .. Len(turns)
      /\ \A i \in 1 .. Len(turns) : TurnIs(turns[i], n)
      /\ \A i \in 1 .. Len(turns) - 1 : KeysNow(turns[i].after) = KeysNow(turns[i + 1].before)
      /\ a > 0 => KeysNow(turns[a].after) = KeysNow(chain)
  BY DEF HistoryTells
<1> PICK l \in Nat : l = Len(turns)
  BY <1>1, ListDomain
<1>2. a \in Nat /\ a \in 0 .. l
  BY <1>1
<1> PICK past : past = SubSeq(turns, 1, a)
  OBVIOUS
<1>3. past \in Seq(ToSet(turns)) /\ Len(past) = a /\ \A i \in 1 .. a : past[i] = turns[i]
  BY <1>1, PrefixIs DEF FrontOf
<1> PICK T : T = ToSet(turns) \cup {t}
  OBVIOUS
<1> PICK new : new = Append(past, t)
  OBVIOUS
<1> PICK b \in Nat : b = a + 1
  BY <1>2
<1>4. past \in Seq(T)
  <2>1. \A i \in 1 .. a : past[i] \in T
    BY <1>3
  <2>2. past = [i \in 1 .. a |-> past[i]]
    BY <1>3
  <2> QED BY <1>2, <2>1, <2>2
<1>5. /\ new \in Seq(T) /\ Len(new) = b /\ new[b] = t
      /\ \A i \in 1 .. a : new[i] = turns[i]
  BY <1>2, <1>3, <1>4
<1>6. new \in Seq(ToSet(new))
  BY <1>5, RangeOf
<1>7. ASSUME NEW i \in 1 .. b PROVE TurnIs(new[i], n)
  <2>1. i = b \/ i \in 1 .. a
    BY <1>2
  <2>2. i \in 1 .. a => TurnIs(turns[i], n)
    BY <1>1, <1>2
  <2> QED BY <1>5, <2>1, <2>2
<1>8. ASSUME NEW i \in 1 .. b - 1 PROVE KeysNow(new[i].after) = KeysNow(new[i + 1].before)
  <2>1. i \in 1 .. a /\ (i = a \/ i + 1 \in 1 .. a)
    BY <1>2
  <2>2. CASE i = a
    <3>1. new[i] = turns[a] /\ new[i + 1] = t /\ a > 0
      BY <1>5, <2>1, <2>2
    <3> QED BY <1>1, <3>1
  <2>3. CASE i + 1 \in 1 .. a
    <3>1. new[i] = turns[i] /\ new[i + 1] = turns[i + 1] /\ i \in 1 .. l - 1
      BY <1>2, <1>5, <2>1, <2>3
    <3> QED BY <1>1, <3>1
  <2> QED BY <2>1, <2>2, <2>3
<1>9. HistoryTells(new, b, other, n)
  <2>1. b \in 0 .. Len(new) /\ ~(b < Len(new))
    BY <1>5
  <2> QED BY <1>5, <1>6, <1>7, <1>8, <2>1 DEF HistoryTells
<1> QED BY <1>9

-----------------------------------------------------------------------------
(* The inductive invariant                                                 *)

TransactionTells(t, n, who, running, turns, a) ==
    /\ t # NoTurn => TurnIs(t, n) /\ who = "transactions"
    /\ running => who = "transactions"
    /\ who = "transactions" => turns = <<>> /\ a = 0

CollectionInv ==
    /\ TickTells /\ IsOrder(order)
    /\ HistoryTells(history, applied, found, store.next)
    /\ TransactionTells(pending, store.next, enhancer, open, history, applied)

LEMMA TrailNone ==
    ASSUME NEW f \in Maps
    PROVE  Trail(<<>>, f, f)
<1>1. PICK q : q = <<>>
  OBVIOUS
<1>2. q \in Seq(Slots) /\ Len(q) = 0 /\ DOMAIN q = {}
  BY <1>1
<1> PICK F : F = [i \in 0 .. 0 |-> f]
  OBVIOUS
<1>3. Route(F, f, q, f)
  BY <1>2 DEF Route
<1>4. Trail(q, f, f)
  BY <1>2, <1>3 DEF Trail
<1> QED BY <1>1, <1>4

LEMMA TrailQuiet ==
    ASSUME NEW f, NEW g, Trail(<<>>, f, g)
    PROVE  f = g
<1>1. PICK q : q = <<>>
  OBVIOUS
<1>2. Len(q) = 0 /\ Trail(q, f, g)
  BY <1>1
<1>3. PICK F : Route(F, f, q, g)
  BY <1>2 DEF Trail
<1> QED BY <1>2, <1>3 DEF Route

LEMMA TickStarts ==
    ASSUME Sound(store'), found' = store'.chain, queue' = <<>>
    PROVE  TickTells'
<1> PICK w : w = store'
  OBVIOUS
<1>1. Sound(w) /\ KeysNow(w.chain) = Now(w.states) /\ Now(w.states) \in Maps
  BY NowIs
<1>2. IsRows(w.chain, w.next)
  BY <1>1, SoundRows
<1>3. Trail(<<>>, Now(w.states), Now(w.states))
  BY <1>1, TrailNone
<1> QED BY <1>1, <1>2, <1>3 DEF TickTells

LEMMA QuietTells ==
    ASSUME TickTells, Quiet
    PROVE  KeysNow(found) = Now(store.states) /\ KeysNow(found) = KeysNow(store.chain)
<1>1. Trail(<<>>, KeysNow(found), Now(store.states)) /\ Sound(store)
  BY DEF TickTells, Quiet
<1>2. KeysNow(found) = Now(store.states)
  BY <1>1, TrailQuiet
<1> QED BY <1>1, <1>2, NowIs

LEMMA TurnTells ==
    ASSUME TickTells, IsOrder(order)
    PROVE  /\ TurnIs(Turn, store.next) /\ Turn.before = found /\ Turn.after = store.chain
           /\ Captured = <<>> => KeysNow(found) = KeysNow(store.chain)
<1>1. Sound(store) /\ IsRows(found, store.next) /\ Trail(queue, KeysNow(found), Now(store.states))
  BY DEF TickTells
<1>2. store.next \in Nat
  BY <1>1 DEF Sound
<1> PICK f : f = KeysNow(found)
  OBVIOUS
<1> PICK g : g = Now(store.states)
  OBVIOUS
<1>3. f \in Maps /\ g = KeysNow(store.chain) /\ IsRows(store.chain, store.next)
  BY <1>1, <1>2, RowsFit, NowIs, SoundRows DEF KeysFit
<1>4. Nets(f, g, Captured)
  BY <1>1, <1>3, CapturedIs
<1>5. Turn.effects = Captured /\ Turn.delta = CapturedDelta /\ Turn.before = found /\ Turn.after = store.chain
  BY DEF Turn, Chain
<1>6. IsDelta(CapturedDelta)
  <2>1. order # NoDelta => Len(order.before) \in Nat /\ Len(order.after) \in Nat
    BY DEF IsOrder
  <2>2. CASE order = NoDelta
    BY <2>2 DEF CapturedDelta, IsDelta
  <2>3. CASE order # NoDelta
    BY <2>1, <2>3 DEF CapturedDelta, IsDelta, DeriveCollectionOrderDelta
  <2> QED BY <2>2, <2>3
<1>7. TurnIs(Turn, store.next)
  BY <1>1, <1>3, <1>4, <1>5, <1>6 DEF TurnIs
<1>8. ASSUME Captured = <<>> PROVE f = g
  <2>1. ~\E i \in DOMAIN Captured : TRUE
    BY <1>8
  <2>2. \A s \in Nat : f[s] = g[s]
    BY <1>4, <2>1 DEF Nets
  <2>3. f = [s \in Nat |-> f[s]] /\ g = [s \in Nat |-> g[s]]
    BY DEF KeysNow, Now
  <2> QED BY <2>2, <2>3
<1> QED BY <1>3, <1>5, <1>7, <1>8

LEMMA EmptyIsSound == Sound(EmptyStore)
<1>1. /\ EmptyStore.next = 1 /\ EmptyStore.states = [s \in {} |-> NoKey]
      /\ EmptyStore.ids = [k \in {} |-> 0] /\ EmptyStore.chain = <<>> /\ IsStore(EmptyStore)
  BY DEF EmptyStore, IsStore
<1> PICK w : w = EmptyStore
  OBVIOUS
<1>2. DOMAIN w.states = {} /\ DOMAIN w.ids = {} /\ 1 .. w.next - 1 = {}
  BY <1>1
<1>3. Live(w.states) = {} /\ RowsOf(w.states) = {}
  BY <1>2 DEF Live, RowsOf
<1>4. w.states \in [1 .. w.next - 1 -> Keys \cup {NoKey}]
  BY <1>1, <1>2
<1>5. KeysAreApart(w.states) /\ IdsTell(w.ids, w.states)
  BY <1>2, <1>3 DEF KeysAreApart, IdsTell
<1>6. ChainTells(w.chain, w.states)
  <2>1. w.chain \in Seq(Nodes) /\ DOMAIN w.chain = {}
    BY <1>1
  <2> QED BY <1>3, <2>1 DEF ChainTells, IsInjective, ToSet
<1>7. IsStore(w) /\ w.next \in Nat /\ w.next > 0
  BY <1>1
<1>8. Sound(w)
  BY <1>4, <1>5, <1>6, <1>7 DEF Sound
<1> QED BY <1>8

LEMMA CollectionInit ==
    ASSUME Init
    PROVE  CollectionInv
<1>1. /\ store = CreateEach(EmptyStore, InitialRows, 0) /\ queue = <<>> /\ order = NoDelta
      /\ found = store.chain /\ history = <<>> /\ applied = 0 /\ open = FALSE /\ pending = NoTurn
  BY DEF Init
<1> PICK w : w = store
  OBVIOUS
<1>2. Sound(w)
  <2>1. InitialRows \in Seq(Keys)
    BY RowsAssumption
  <2>2. Added(EmptyStore, CreateEach(EmptyStore, InitialRows, 0), ToSet(InitialRows))
    BY <2>1, EmptyIsSound, CreateEachIs
  <2> QED BY <1>1, <2>2 DEF Added
<1>3. KeysNow(w.chain) = Now(w.states) /\ Now(w.states) \in Maps /\ IsRows(w.chain, w.next)
  BY <1>2, NowIs, SoundRows
<1>4. Trail(<<>>, Now(w.states), Now(w.states))
  BY <1>3, TrailNone
<1>5. TickTells
  BY <1>1, <1>2, <1>3, <1>4 DEF TickTells
<1>6. HistoryTells(history, applied, found, store.next)
  BY <1>1, HistoryNone
<1>7. TransactionTells(pending, store.next, enhancer, open, history, applied)
  BY <1>1 DEF TransactionTells
<1>8. IsOrder(order)
  BY <1>1 DEF IsOrder
<1> QED BY <1>5, <1>6, <1>7, <1>8 DEF CollectionInv

LEMMA WroteKeepsAll ==
    ASSUME CollectionInv, ~Revisits, NEW list, Wrote(list), IsOrder(order')
    PROVE  CollectionInv'
<1>1. TickTells /\ HistoryTells(history, applied, found, store.next)
      /\ TransactionTells(pending, store.next, enhancer, open, history, applied)
  BY DEF CollectionInv
<1>2. TickTells' /\ store'.next >= store.next
  BY <1>1, WriteKeeps
<1>3. store.next \in Nat /\ store'.next \in Nat
  BY <1>1, <1>2 DEF TickTells, Sound
<1>4. UNCHANGED <<enhancer, found, history, applied, open, pending>>
  BY DEF Wrote
<1> PICK m \in Nat : m = store'.next
  BY <1>3
<1>5. HistoryTells(history, applied, found, m)
  BY <1>1, <1>2, <1>3, HistoryLater
<1>6. TransactionTells(pending, m, enhancer, open, history, applied)
  BY <1>1, <1>2, <1>3, TurnLater DEF TransactionTells
<1>7. HistoryTells(history, applied, found, store.next)'
  BY <1>4, <1>5
<1>8. TransactionTells(pending, store.next, enhancer, open, history, applied)'
  BY <1>4, <1>6
<1> QED BY <1>2, <1>7, <1>8 DEF CollectionInv

LEMMA FlushHistoryKeeps ==
    ASSUME CollectionInv, FlushHistory
    PROVE  CollectionInv'
<1>1. /\ TickTells /\ IsOrder(order) /\ HistoryTells(history, applied, found, store.next)
      /\ TransactionTells(pending, store.next, enhancer, open, history, applied)
  BY DEF CollectionInv
<1>2. /\ enhancer = "restoration" /\ queue' = <<>> /\ order' = NoDelta /\ found' = store.chain
      /\ store' = store /\ enhancer' = enhancer /\ open' = open /\ pending' = pending
  BY DEF FlushHistory, TickEnds, Chain
<1>3. Sound(store')
  BY <1>1, <1>2 DEF TickTells
<1>4. TickTells'
  BY <1>2, <1>3, TickStarts
<1>5. IsOrder(order')
  BY <1>2 DEF IsOrder
<1>6. TransactionTells(pending', store'.next, enhancer', open', history', applied')
  BY <1>1, <1>2 DEF TransactionTells
<1>7. CASE Captured = <<>> /\ UNCHANGED <<history, applied>>
  <2>1. KeysNow(found') = KeysNow(found)
    BY <1>1, <1>2, <1>7, TurnTells
  <2>2. HistoryTells(history, applied, found', store.next)
    BY <1>1, <2>1, HistorySame
  <2>3. HistoryTells(history', applied', found', store'.next)
    BY <1>2, <1>7, <2>2
  <2> QED BY <1>4, <1>5, <1>6, <2>3 DEF CollectionInv
<1>8. CASE history' = Append(SubSeq(history, 1, applied), Turn) /\ applied' = applied + 1
  <2>1. TurnIs(Turn, store.next) /\ Turn.before = found /\ Turn.after = store.chain
    BY <1>1, TurnTells
  <2>2. HistoryTells(Append(SubSeq(history, 1, applied), Turn), applied + 1, store.chain, store.next)
    BY <1>1, <2>1, HistoryGrows
  <2>3. HistoryTells(history', applied', found', store'.next)
    BY <1>2, <1>8, <2>2
  <2> QED BY <1>4, <1>5, <1>6, <2>3 DEF CollectionInv
<1> QED BY <1>7, <1>8 DEF FlushHistory

(* A tree with transactions keeps no history.                              *)
LEMMA NoHistory ==
    ASSUME TransactionTells(pending, store.next, enhancer, open, history, applied), enhancer = "transactions",
           NEW chain, NEW n
    PROVE  HistoryTells(history, applied, chain, n)
<1>1. history = <<>> /\ applied = 0
  BY DEF TransactionTells
<1> QED BY <1>1, HistoryNone

LEMMA FlushOrdinaryKeeps ==
    ASSUME CollectionInv, FlushOrdinary
    PROVE  CollectionInv'
<1>1. TickTells /\ TransactionTells(pending, store.next, enhancer, open, history, applied)
  BY DEF CollectionInv
<1>2. /\ enhancer = "transactions" /\ queue' = <<>> /\ order' = NoDelta /\ found' = store.chain
      /\ UNCHANGED <<store, enhancer, open, pending, history, applied>>
  BY DEF FlushOrdinary, TickEnds, Chain
<1>3. Sound(store')
  BY <1>1, <1>2 DEF TickTells
<1>4. TickTells'
  BY <1>2, <1>3, TickStarts
<1>5. IsOrder(order')
  BY <1>2 DEF IsOrder
<1>6. TransactionTells(pending, store.next, enhancer, open, history, applied)'
  BY <1>1, <1>2
<1>7. HistoryTells(history, applied, found', store'.next)
  BY <1>1, <1>2, NoHistory
<1>8. HistoryTells(history, applied, found, store.next)'
  BY <1>2, <1>7
<1> QED BY <1>4, <1>5, <1>6, <1>8 DEF CollectionInv

LEMMA StageKeeps ==
    ASSUME CollectionInv, Stage
    PROVE  CollectionInv'
<1>1. TickTells /\ TransactionTells(pending, store.next, enhancer, open, history, applied) /\ IsOrder(order)
  BY DEF CollectionInv
<1>2. /\ open /\ queue' = <<>> /\ order' = NoDelta /\ found' = store.chain /\ open' = FALSE /\ pending' = Turn
      /\ UNCHANGED <<store, enhancer, history, applied>>
  BY DEF Stage, TickEnds, Chain
<1>3. Sound(store')
  BY <1>1, <1>2 DEF TickTells
<1>4. TickTells'
  BY <1>2, <1>3, TickStarts
<1>5. IsOrder(order')
  BY <1>2 DEF IsOrder
<1>6. enhancer = "transactions"
  BY <1>1, <1>2 DEF TransactionTells
<1>7. TurnIs(Turn, store.next)
  BY <1>1, TurnTells
<1>8. TransactionTells(Turn, store.next, enhancer, FALSE, history, applied)
  BY <1>1, <1>6, <1>7 DEF TransactionTells
<1>9. TransactionTells(pending, store.next, enhancer, open, history, applied)'
  BY <1>2, <1>8
<1>10. HistoryTells(history, applied, found', store'.next)
  BY <1>1, <1>6, NoHistory
<1>11. HistoryTells(history, applied, found, store.next)'
  BY <1>2, <1>10
<1> QED BY <1>4, <1>5, <1>9, <1>11 DEF CollectionInv

LEMMA BeginKeeps ==
    ASSUME CollectionInv, Begin
    PROVE  CollectionInv'
<1>1. UNCHANGED <<enhancer, store, queue, order, found, history, applied, pending>> /\ enhancer = "transactions"
  BY DEF Begin
<1>2. /\ TickTells /\ IsOrder(order) /\ HistoryTells(history, applied, found, store.next)
      /\ TransactionTells(pending, store.next, enhancer, open, history, applied)
  BY DEF CollectionInv
<1>3. TickTells'
  BY <1>1, <1>2 DEF TickTells
<1>4. TransactionTells(pending, store.next, enhancer, open, history, applied)'
  BY <1>1, <1>2 DEF TransactionTells
<1>5. IsOrder(order') /\ HistoryTells(history, applied, found, store.next)'
  BY <1>1, <1>2
<1> QED BY <1>3, <1>4, <1>5 DEF CollectionInv

LEMMA ConfirmKeeps ==
    ASSUME CollectionInv, Confirm
    PROVE  CollectionInv'
<1>1. UNCHANGED <<enhancer, store, queue, order, found, history, applied, open>> /\ pending' = NoTurn
  BY DEF Confirm
<1>2. /\ TickTells /\ IsOrder(order) /\ HistoryTells(history, applied, found, store.next)
      /\ TransactionTells(pending, store.next, enhancer, open, history, applied)
  BY DEF CollectionInv
<1>3. TickTells'
  BY <1>1, <1>2 DEF TickTells
<1>4. TransactionTells(pending, store.next, enhancer, open, history, applied)'
  BY <1>1, <1>2 DEF TransactionTells
<1>5. IsOrder(order') /\ HistoryTells(history, applied, found, store.next)'
  BY <1>1, <1>2
<1> QED BY <1>3, <1>4, <1>5 DEF CollectionInv

(* A realized turn: the rows are those of `chain`, and the tick is new.    *)
LEMMA RealizedKeeps ==
    ASSUME NEW result, store' = result.store, found' = result.store.chain, UNCHANGED <<queue, order>>,
           Sound(result.store), Quiet, IsOrder(order)
    PROVE  TickTells' /\ IsOrder(order')
<1>1. Sound(store') /\ found' = store'.chain
  OBVIOUS
<1>2. queue' = <<>>
  BY DEF Quiet
<1> QED BY <1>1, <1>2, TickStarts

LEMMA UndoKeeps ==
    ASSUME CollectionInv, Undo
    PROVE  CollectionInv'
<1>1. /\ TickTells /\ IsOrder(order) /\ HistoryTells(history, applied, found, store.next)
      /\ TransactionTells(pending, store.next, enhancer, open, history, applied)
  BY DEF CollectionInv
<1> PICK t : t = history[applied]
  OBVIOUS
<1> PICK result : result = Undone(t)
  OBVIOUS
<1>2. /\ enhancer = "restoration" /\ applied > 0 /\ Quiet /\ result.ok
      /\ store' = result.store /\ applied' = applied - 1 /\ found' = result.store.chain
      /\ UNCHANGED <<enhancer, queue, order, history, open, pending>>
  BY DEF Undo, Navigate
<1>3. TurnIs(t, store.next) /\ KeysNow(t.after) = KeysNow(found)
  BY <1>1, <1>2 DEF HistoryTells
<1>4. Now(store.states) = KeysNow(t.after) /\ Sound(store)
  BY <1>1, <1>2, <1>3, QuietTells DEF TickTells
<1>5. Restored(result, t.before)
  BY <1>2, <1>3, <1>4, UndoneIs
<1>6. Sound(result.store) /\ result.store.next = store.next /\ KeysNow(result.store.chain) = KeysNow(t.before)
  BY <1>5 DEF Restored
<1>7. TickTells' /\ IsOrder(order')
  BY <1>1, <1>2, <1>6, RealizedKeeps
<1>8. HistoryTells(history, applied - 1, result.store.chain, store.next)
  BY <1>1, <1>2, <1>6, HistoryBack
<1>9. HistoryTells(history, applied, found, store.next)'
  BY <1>2, <1>6, <1>8
<1>10. TransactionTells(pending, store.next, enhancer, open, history, applied)'
  BY <1>1, <1>2, <1>6 DEF TransactionTells
<1> QED BY <1>7, <1>9, <1>10 DEF CollectionInv

LEMMA RedoKeeps ==
    ASSUME CollectionInv, Redo
    PROVE  CollectionInv'
<1>1. /\ TickTells /\ IsOrder(order) /\ HistoryTells(history, applied, found, store.next)
      /\ TransactionTells(pending, store.next, enhancer, open, history, applied)
  BY DEF CollectionInv
<1> PICK t : t = history[applied + 1]
  OBVIOUS
<1> PICK result : result = Redone(t)
  OBVIOUS
<1>2. /\ enhancer = "restoration" /\ applied < Len(history) /\ Quiet /\ result.ok
      /\ store' = result.store /\ applied' = applied + 1 /\ found' = result.store.chain
      /\ UNCHANGED <<enhancer, queue, order, history, open, pending>>
  BY DEF Redo, Navigate
<1>3. TurnIs(t, store.next) /\ KeysNow(t.before) = KeysNow(found)
  <2>1. /\ history \in Seq(ToSet(history)) /\ applied \in 0 .. Len(history)
        /\ \A i \in 1 .. Len(history) : TurnIs(history[i], store.next)
        /\ applied < Len(history) => KeysNow(history[applied + 1].before) = KeysNow(found)
    BY <1>1 DEF HistoryTells
  <2>2. Len(history) \in Nat
    BY <2>1, ListDomain
  <2>3. applied + 1 \in 1 .. Len(history)
    BY <1>2, <2>1, <2>2
  <2> QED BY <1>2, <2>1, <2>3
<1>4. Now(store.states) = KeysNow(t.before) /\ Sound(store)
  BY <1>1, <1>2, <1>3, QuietTells DEF TickTells
<1>5. Restored(result, t.after)
  BY <1>2, <1>3, <1>4, RedoneIs
<1>6. Sound(result.store) /\ result.store.next = store.next /\ KeysNow(result.store.chain) = KeysNow(t.after)
  BY <1>5 DEF Restored
<1>7. TickTells' /\ IsOrder(order')
  BY <1>1, <1>2, <1>6, RealizedKeeps
<1>8. HistoryTells(history, applied + 1, result.store.chain, store.next)
  BY <1>1, <1>2, <1>6, HistoryOn
<1>9. HistoryTells(history, applied, found, store.next)'
  BY <1>2, <1>6, <1>8
<1>10. TransactionTells(pending, store.next, enhancer, open, history, applied)'
  BY <1>1, <1>2, <1>6 DEF TransactionTells
<1> QED BY <1>7, <1>9, <1>10 DEF CollectionInv

LEMMA RollbackKeeps ==
    ASSUME CollectionInv, Rollback
    PROVE  CollectionInv'
<1>1. /\ TickTells /\ IsOrder(order) /\ HistoryTells(history, applied, found, store.next)
      /\ TransactionTells(pending, store.next, enhancer, open, history, applied)
  BY DEF CollectionInv
<1> PICK result : result = RolledBack(pending)
  OBVIOUS
<1>2. /\ pending # NoTurn /\ Quiet /\ result.ok
      /\ store' = result.store /\ found' = result.store.chain /\ pending' = NoTurn
      /\ UNCHANGED <<enhancer, queue, order, history, applied, open>>
  BY DEF Rollback, Staged
<1>3. TurnIs(pending, store.next) /\ enhancer = "transactions" /\ Sound(store)
  BY <1>1, <1>2 DEF TransactionTells, TickTells
<1>4. Sound(result.store) /\ result.store.next = store.next
  BY <1>2, <1>3, RolledBackIs DEF RollsBack, Realized
<1>5. TickTells' /\ IsOrder(order')
  BY <1>1, <1>2, <1>4, RealizedKeeps
<1>6. HistoryTells(history, applied, found', store'.next)
  BY <1>1, <1>3, NoHistory
<1>7. HistoryTells(history, applied, found, store.next)'
  BY <1>2, <1>6
<1>8. TransactionTells(pending, store.next, enhancer, open, history, applied)'
  BY <1>1, <1>2, <1>3 DEF TransactionTells
<1> QED BY <1>5, <1>7, <1>8 DEF CollectionInv

LEMMA CollectionNext ==
    ASSUME CollectionInv, ~Revisits, Modes \subseteq {"strict"}, [Next]_vars
    PROVE  CollectionInv'
<1>1. CASE Author
  <2>1. Sound(store) /\ IsOrder(order)
    BY DEF CollectionInv, TickTells
  <2>2. (\E list : Wrote(list)) /\ IsOrder(order')
    BY <1>1, <2>1, AuthorWrites
  <2> QED BY <2>2, WroteKeepsAll
<1>2. CASE UNCHANGED vars
  <2>1. UNCHANGED <<enhancer, store, queue, order, found, history, applied, open, pending>>
    BY <1>2 DEF vars
  <2>2. /\ TickTells /\ IsOrder(order) /\ HistoryTells(history, applied, found, store.next)
        /\ TransactionTells(pending, store.next, enhancer, open, history, applied)
    BY DEF CollectionInv
  <2>3. TickTells'
    BY <2>1, <2>2 DEF TickTells
  <2>4. /\ IsOrder(order') /\ HistoryTells(history, applied, found, store.next)'
        /\ TransactionTells(pending, store.next, enhancer, open, history, applied)'
    BY <2>1, <2>2
  <2> QED BY <2>3, <2>4 DEF CollectionInv
<1> QED BY <1>1, <1>2, FlushHistoryKeeps, FlushOrdinaryKeeps, UndoKeeps, RedoKeeps, BeginKeeps, StageKeeps,
        ConfirmKeeps, RollbackKeeps DEF Next

-----------------------------------------------------------------------------
(* Theorems                                                                *)

(* A collection whose rows are announced where their slots say, and whose  *)
(* bulk additions refuse a key that is there, keeps the rows, the         *)
(* announcements and the recorded turns telling the same story: what the   *)
(* tick has announced leads from the rows it found to the rows there are,  *)
(* every turn nets what happened between its two ends, and neighbouring    *)
(* turns of the history meet (entity-signal.ts, path-notifier.ts and       *)
(* restoration.ts).                                                        *)
THEOREM CollectionInvariant ==
    ASSUME ~Revisits, Modes \subseteq {"strict"}
    PROVE  Spec => []CollectionInv
<1>1. Init => CollectionInv
  BY CollectionInit
<1>2. CollectionInv /\ [Next]_vars => CollectionInv'
  BY CollectionNext
<1> QED BY <1>1, <1>2, PTL DEF Spec

(* The chain, the key index and the subjects' states of the structural     *)
(* store agree after every write, undo, redo and rollback                  *)
(* (structural-store.ts).                                                  *)
THEOREM StoreStaysConsistent ==
    ASSUME ~Revisits, Modes \subseteq {"strict"}
    PROVE  Spec => []StoreIsConsistent
<1>1. CollectionInv => StoreIsConsistent
  BY SoundAgrees DEF CollectionInv, TickTells, StoreIsConsistent
<1> QED BY <1>1, CollectionInvariant, PTL

NamesOf(t, f, g) ==
    Names(t) = {<<s, f[s], g[s]>> : s \in {r \in RowsIn(t.before) \cup RowsIn(t.after) : f[r] # g[r]}}

LEMMA RowsInIs ==
    ASSUME NEW n \in Nat, NEW chain, IsRows(chain, n)
    PROVE  /\ \A s \in RowsIn(chain) : s \in Nat
           /\ \A s \in Nat : KeysNow(chain)[s] # NoKey => s \in RowsIn(chain)
<1>1. chain \in Seq(Nodes) /\ \A i \in DOMAIN chain : chain[i] \in Nodes
  BY KeysNowIs DEF IsRows
<1> PICK rows : rows = SubjectsOf(chain)
  OBVIOUS
<1>2. DOMAIN rows = DOMAIN chain /\ \A i \in DOMAIN chain : rows[i] = chain[i].subject
  BY DEF SubjectsOf
<1>3. RowsIn(chain) = {rows[i] : i \in DOMAIN chain}
  BY <1>2 DEF RowsIn, ToSet
<1>4. \A s \in RowsIn(chain) : s \in Nat
  BY <1>1, <1>2, <1>3 DEF Nodes
<1>5. ASSUME NEW s \in Nat, KeysNow(chain)[s] # NoKey PROVE s \in RowsIn(chain)
  <2> PICK i \in DOMAIN chain : chain[i].subject = s
    BY <1>5, KeysNowIs
  <2> QED BY <1>2, <1>3
<1> QED BY <1>4, <1>5

LEMMA NetNames ==
    ASSUME NEW n \in Nat, NEW t, TurnIs(t, n)
    PROVE  NamesOf(t, KeysNow(t.before), KeysNow(t.after))
<1> PICK f : f = KeysNow(t.before)
  OBVIOUS
<1> PICK g : g = KeysNow(t.after)
  OBVIOUS
<1> PICK E : E = ToSet(t.effects)
  OBVIOUS
<1>1. /\ \A e \in E : e \in Effects /\ e.before = f[e.subject] /\ e.after = g[e.subject]
      /\ \A s \in Nat : f[s] # g[s] => \E e \in E : e.subject = s
  BY NetTells DEF TurnIs
<1>2. \A e \in E : e.subject \in Nat /\ e.before # e.after
  BY TurnFits, <1>1 DEF Fits, EffectsFit, Effects
<1> PICK R : R = RowsIn(t.before) \cup RowsIn(t.after)
  OBVIOUS
<1>3. /\ \A s \in R : s \in Nat
      /\ \A s \in Nat : f[s] # NoKey \/ g[s] # NoKey => s \in R
  BY RowsInIs DEF TurnIs
<1> PICK S : S = {r \in R : f[r] # g[r]}
  OBVIOUS
<1>4. \A e \in E : e.subject \in S /\ <<e.subject, e.before, e.after>> = <<e.subject, f[e.subject], g[e.subject]>>
  BY <1>1, <1>2, <1>3
<1>5. \A s \in S : \E e \in E : <<s, f[s], g[s]>> = <<e.subject, e.before, e.after>>
  BY <1>1, <1>3
<1>6. {<<e.subject, e.before, e.after>> : e \in E} = {<<s, f[s], g[s]>> : s \in S}
  BY <1>4, <1>5
<1> QED BY <1>6 DEF NamesOf, Names

LEMMA OneNameEach ==
    ASSUME NEW n \in Nat, NEW t, TurnIs(t, n)
    PROVE  Cardinality(Names(t)) = Len(t.effects)
<1> PICK list : list = t.effects
  OBVIOUS
<1>1. list \in Seq(Effects) /\ \A i, j \in DOMAIN list : list[i].subject = list[j].subject => i = j
  BY DEF TurnIs, Nets
<1> PICK m \in Nat : m = Len(list) /\ DOMAIN list = 1 .. m
  BY <1>1, ListDomain
<1>2. PICK F : F = [i \in 1 .. m |-> <<list[i].subject, list[i].before, list[i].after>>]
  OBVIOUS
<1> PICK N : N = Names(t)
  OBVIOUS
<1>3. \A i \in 1 .. m : F[i] \in N
  BY <1>2 DEF Names, ToSet
<1>4. \A x \in N : \E i \in 1 .. m : F[i] = x
  BY <1>2 DEF Names, ToSet
<1>5. \A i, j \in 1 .. m : F[i] = F[j] => i = j
  <2>1. \A i \in 1 .. m : F[i][1] = list[i].subject
    BY <1>2
  <2> QED BY <1>1, <2>1
<1>6. F \in [1 .. m -> N]
  BY <1>2, <1>3
<1>7. F \in Bijection(1 .. m, N)
  BY <1>4, <1>5, <1>6 DEF Bijection, Injection, Surjection, IsInjective
<1> QED BY <1>7, FS_CountingElements DEF ExistsBijection

LEMMA TurnsTell ==
    ASSUME CollectionInv, NEW t \in Turns
    PROVE  TurnIs(t, store.next) /\ store.next \in Nat
<1>1. /\ HistoryTells(history, applied, found, store.next) /\ Sound(store)
      /\ TransactionTells(pending, store.next, enhancer, open, history, applied)
  BY DEF CollectionInv, TickTells
<1>2. t \in ToSet(history) \/ (t = pending /\ pending # NoTurn)
  BY DEF Turns
<1>3. history \in Seq(ToSet(history)) /\ \A i \in 1 .. Len(history) : TurnIs(history[i], store.next)
  BY <1>1 DEF HistoryTells
<1>4. \A i \in DOMAIN history : TurnIs(history[i], store.next)
  BY <1>3, ListDomain
<1>5. \A x \in ToSet(history) : TurnIs(x, store.next)
  BY <1>4 DEF ToSet
<1> QED BY <1>1, <1>2, <1>5 DEF TransactionTells, Sound

(* Netting the announcements of a tick or a transaction, grouped by path   *)
(* as the notifier delivers them, gives a turn that names exactly the rows *)
(* whose key it changed, each once, with the key before and the key after  *)
(* (path-notifier.ts flushSync, restoration.ts enqueueStructuralEffect).   *)
THEOREM TurnsNameWhatChanged ==
    ASSUME ~Revisits, Modes \subseteq {"strict"}
    PROVE  Spec => []EvidenceIsNet
<1>1. ASSUME CollectionInv PROVE EvidenceIsNet
  <2> SUFFICES ASSUME NEW t \in Turns
               PROVE  /\ Names(t) = {<<s, KeyIn(t.before, s), KeyIn(t.after, s)>> :
                                       s \in {r \in RowsIn(t.before) \cup RowsIn(t.after) :
                                                KeyIn(t.before, r) # KeyIn(t.after, r)}}
                      /\ Cardinality(Names(t)) = Len(t.effects)
    BY DEF EvidenceIsNet
  <2>1. TurnIs(t, store.next) /\ store.next \in Nat
    BY <1>1, TurnsTell
  <2> PICK f : f = KeysNow(t.before)
    OBVIOUS
  <2> PICK g : g = KeysNow(t.after)
    OBVIOUS
  <2> PICK R : R = RowsIn(t.before) \cup RowsIn(t.after)
    OBVIOUS
  <2>2. \A s \in R : s \in Nat
    BY <2>1, RowsInIs DEF TurnIs
  <2>3. \A s \in R : f[s] = KeyIn(t.before, s) /\ g[s] = KeyIn(t.after, s)
    BY <2>2 DEF KeysNow
  <2>4. Names(t) = {<<s, f[s], g[s]>> : s \in {r \in R : f[r] # g[r]}}
    BY <2>1, NetNames DEF NamesOf
  <2>5. {<<s, f[s], g[s]>> : s \in {r \in R : f[r] # g[r]}}
          = {<<s, KeyIn(t.before, s), KeyIn(t.after, s)>> : s \in {r \in R : KeyIn(t.before, r) # KeyIn(t.after, r)}}
    BY <2>3
  <2> QED BY <2>1, <2>4, <2>5, OneNameEach
<1>2. CollectionInv => EvidenceIsNet
  BY <1>1
<1> QED BY <1>2, CollectionInvariant, PTL

(* Wherever undo and redo have gone, the rows and their keys are those the *)
(* turns on either side of the position recorded there (restoration.ts     *)
(* undo, redo).                                                            *)
THEOREM PositionKeepsTheRows ==
    ASSUME ~Revisits, Modes \subseteq {"strict"}
    PROVE  Spec => []PositionTellsTheRows
<1>1. ASSUME CollectionInv, Quiet
      PROVE  /\ applied > 0 => ToSet(Chain) = ToSet(history[applied].after)
             /\ applied < Len(history) => ToSet(Chain) = ToSet(history[applied + 1].before)
  <2>1. TickTells /\ HistoryTells(history, applied, found, store.next)
    BY <1>1 DEF CollectionInv
  <2>2. Sound(store) /\ store.next \in Nat
    BY <2>1 DEF TickTells, Sound
  <2>3. IsRows(store.chain, store.next) /\ KeysNow(found) = KeysNow(store.chain)
    BY <1>1, <2>1, <2>2, QuietTells, SoundRows
  <2>4. /\ history \in Seq(ToSet(history)) /\ applied \in 0 .. Len(history)
        /\ \A i \in 1 .. Len(history) : TurnIs(history[i], store.next)
        /\ applied > 0 => KeysNow(history[applied].after) = KeysNow(found)
        /\ applied < Len(history) => KeysNow(history[applied + 1].before) = KeysNow(found)
    BY <2>1 DEF HistoryTells
  <2>5. Len(history) \in Nat
    BY <2>4, ListDomain
  <2>6. ASSUME applied > 0 PROVE ToSet(store.chain) = ToSet(history[applied].after)
    <3>1. IsRows(history[applied].after, store.next)
      BY <2>4, <2>5, <2>6 DEF TurnIs
    <3> QED BY <2>2, <2>3, <2>4, <2>6, <3>1, SameRows
  <2>7. ASSUME applied < Len(history) PROVE ToSet(store.chain) = ToSet(history[applied + 1].before)
    <3>1. IsRows(history[applied + 1].before, store.next)
      BY <2>4, <2>5, <2>7 DEF TurnIs
    <3> QED BY <2>2, <2>3, <2>4, <2>7, <3>1, SameRows
  <2> QED BY <2>6, <2>7 DEF Chain
<1>2. CollectionInv => PositionTellsTheRows
  BY <1>1 DEF PositionTellsTheRows
<1> QED BY <1>2, CollectionInvariant, PTL

-----------------------------------------------------------------------------
(* What later truth made of a row                                          *)

(* The last effect of the list on a row says the key it has in f.          *)
IsLast(list, i)  == \A j \in DOMAIN list : j > i => list[j].subject # list[i].subject
LastTells(list, f) ==
    /\ list \in Seq(Effects)
    /\ \A i \in DOMAIN list : IsLast(list, i) => list[i].after = f[list[i].subject]

LaterInv == pending # NoTurn => LastTells(later, KeysNow(found))

LEMMA LastNone ==
    ASSUME NEW f
    PROVE  LastTells(<<>>, f)
<1>1. PICK q : q = <<>>
  OBVIOUS
<1>2. q \in Seq(Effects) /\ DOMAIN q = {}
  BY <1>1
<1>3. LastTells(q, f)
  BY <1>2 DEF LastTells
<1> QED BY <1>1, <1>3

LEMMA LastGrows ==
    ASSUME NEW list, NEW f, LastTells(list, f), NEW net, NEW g, Nets(f, g, net)
    PROVE  LastTells(list \o net, g)
<1>1. list \in Seq(Effects) /\ net \in Seq(Effects)
  BY DEF LastTells, Nets
<1> PICK l \in Nat : l = Len(list) /\ DOMAIN list = 1 .. l
  BY <1>1, ListDomain
<1> PICK m \in Nat : m = Len(net) /\ DOMAIN net = 1 .. m
  BY <1>1, ListDomain
<1> PICK r : r = list \o net
  OBVIOUS
<1>2. /\ r \in Seq(Effects) /\ DOMAIN r = 1 .. l + m
      /\ \A i \in 1 .. l : r[i] = list[i]
      /\ \A i \in 1 .. m : r[l + i] = net[i]
  BY <1>1
<1>3. /\ \A i \in 1 .. m : net[i].after = g[net[i].subject]
      /\ \A s \in Nat : f[s] # g[s] => \E i \in 1 .. m : net[i].subject = s
  BY DEF Nets
<1>4. \A i \in 1 .. l : list[i].subject \in Nat
  <2>1. \A i \in 1 .. l : list[i] \in Effects
    BY <1>1
  <2> QED BY <2>1 DEF Effects
<1>5. ASSUME NEW i \in 1 .. l + m, IsLast(r, i) PROVE r[i].after = g[r[i].subject]
  <2>1. \A j \in 1 .. l + m : j > i => r[j].subject # r[i].subject
    BY <1>2, <1>5 DEF IsLast
  <2>2. CASE i > l
    <3> PICK k \in 1 .. m : i = l + k
      <4>1. i - l \in 1 .. m /\ i = l + (i - l)
        BY <2>2
      <4> QED BY <4>1
    <3> QED BY <1>2, <1>3
  <2>3. CASE i \in 1 .. l
    <3> PICK s : s = list[i].subject
      OBVIOUS
    <3>1. s \in Nat /\ r[i] = list[i]
      BY <1>2, <1>4, <2>3
    <3>2. \A k \in 1 .. m : net[k].subject # s
      <4> TAKE k \in 1 .. m
      <4>1. l + k \in 1 .. l + m /\ l + k > i /\ r[l + k] = net[k]
        BY <1>2, <2>3
      <4> QED BY <2>1, <3>1, <4>1
    <3>3. f[s] = g[s]
      BY <1>3, <3>1, <3>2
    <3>4. \A j \in 1 .. l : j > i => list[j].subject # s
      BY <1>2, <2>1, <3>1
    <3>5. list[i].after = f[s]
      BY <2>3, <3>4 DEF LastTells, IsLast
    <3> QED BY <3>1, <3>3, <3>5
  <2> QED BY <2>2, <2>3
<1>6. LastTells(r, g)
  BY <1>2, <1>5 DEF LastTells
<1> QED BY <1>6

LEMMA LaterNext ==
    ASSUME CollectionInv, LaterInv, ~Revisits, Modes \subseteq {"strict"}, [Next]_vars
    PROVE  LaterInv'
<1>1. /\ TickTells /\ IsOrder(order) /\ Sound(store)
      /\ TransactionTells(pending, store.next, enhancer, open, history, applied)
  BY DEF CollectionInv, TickTells
<1>2. pending # NoTurn => enhancer # "restoration"
  BY <1>1 DEF TransactionTells
<1>3. CASE Author
  <2>1. PICK list : Wrote(list)
    BY <1>1, <1>3, AuthorWrites
  <2>2. UNCHANGED <<found, pending, later>>
    BY <2>1 DEF Wrote
  <2> QED BY <2>2 DEF LaterInv
<1>4. CASE FlushHistory \/ Undo \/ Redo
  <2>1. enhancer = "restoration" /\ pending' = pending
    BY <1>4 DEF FlushHistory, Undo, Redo, Navigate
  <2> QED BY <1>2, <2>1 DEF LaterInv
<1>5. CASE FlushOrdinary
  <2>1. /\ pending' = pending /\ found' = store.chain
        /\ later' = IF pending = NoTurn THEN <<>> ELSE later \o Captured
    BY <1>5 DEF FlushOrdinary, TickEnds, Chain
  <2>2. CASE pending = NoTurn
    BY <2>1, <2>2 DEF LaterInv
  <2>3. CASE pending # NoTurn
    <3>1. Nets(KeysNow(found), KeysNow(store.chain), Captured)
      <4>1. TurnIs(Turn, store.next) /\ Turn.before = found /\ Turn.after = store.chain
        BY <1>1, TurnTells
      <4>2. Turn.effects = Captured
        BY DEF Turn
      <4> QED BY <4>1, <4>2 DEF TurnIs
    <3>2. LastTells(later \o Captured, KeysNow(store.chain))
      BY <2>3, <3>1, LastGrows DEF LaterInv
    <3>3. LastTells(later', KeysNow(found'))
      BY <2>1, <2>3, <3>2
    <3>4. LastTells(later, KeysNow(found))'
      BY <3>3
    <3> QED BY <3>4 DEF LaterInv
  <2> QED BY <2>2, <2>3
<1>6. CASE Stage
  <2>1. later' = <<>>
    BY <1>6 DEF Stage
  <2>2. LastTells(later', KeysNow(found'))
    BY <2>1, LastNone
  <2>3. LastTells(later, KeysNow(found))'
    BY <2>2
  <2> QED BY <2>3 DEF LaterInv
<1>7. CASE Begin \/ Confirm \/ Rollback
  <2>1. pending' = NoTurn
    BY <1>7 DEF Begin, Confirm, Rollback
  <2> QED BY <2>1 DEF LaterInv
<1>8. CASE UNCHANGED vars
  <2>1. UNCHANGED <<found, pending, later>>
    BY <1>8 DEF vars
  <2> QED BY <2>1 DEF LaterInv
<1> QED BY <1>3, <1>4, <1>5, <1>6, <1>7, <1>8 DEF Next

(* An erased row is gone when the store is quiet.                          *)
LEMMA ErasedIsGone ==
    ASSUME CollectionInv, LaterInv, Quiet, pending # NoTurn, NEW e, e.subject \in Nat, Erased(e)
    PROVE  Now(store.states)[e.subject] = NoKey
<1> PICK s \in Nat : s = e.subject
  OBVIOUS
<1>1. later \in Seq(Effects) /\ \A i \in DOMAIN later : IsLast(later, i) => later[i].after = KeysNow(found)[later[i].subject]
  BY DEF LaterInv, LastTells
<1>2. PICK S : S = {d \in ToSet(later) : d.subject = s}
  OBVIOUS
<1> PICK r : r = Within(later, S)
  OBVIOUS
<1>3. r = LaterOf(s)
  BY <1>2 DEF LaterOf
<1>4. r # <<>> /\ IsRemove(r[Len(r)])
  BY <1>3 DEF Erased
<1>5. PICK i \in DOMAIN later : r[Len(r)] = later[i] /\ \A j \in DOMAIN later : j > i => later[j] \notin S
  BY <1>1, <1>4, WithinIs
<1>6. r \in Seq(Effects) /\ ToSet(r) = ToSet(later) \cap S
  BY <1>1, WithinIs
<1>7. later[i] \in S
  <2>1. Len(r) \in DOMAIN r
    BY <1>4, <1>6
  <2>2. r[Len(r)] \in ToSet(r)
    BY <2>1 DEF ToSet
  <2> QED BY <1>5, <1>6, <2>2
<1>8. later[i].subject = s
  BY <1>2, <1>7
<1>9. IsLast(later, i)
  <2> SUFFICES ASSUME NEW j \in DOMAIN later, j > i PROVE later[j].subject # later[i].subject
    BY DEF IsLast
  <2>1. later[j] \in ToSet(later) /\ later[j] \notin S
    BY <1>5 DEF ToSet
  <2> QED BY <1>2, <1>8, <2>1
<1>10. later[i].after = KeysNow(found)[s]
  BY <1>1, <1>8, <1>9
<1>11. later[i].after = NoKey
  BY <1>4, <1>5 DEF IsRemove
<1>12. KeysNow(found) = Now(store.states)
  BY QuietTells DEF CollectionInv
<1> QED BY <1>10, <1>11, <1>12

(* What the rollback puts in place for a row that is not erased.           *)
LEMMA CompensatedRow ==
    ASSUME NEW n, NEW t, Fits(t.effects, n), RenamesComeFirst(t), NEW v, NEW list, RollsBack(t, v, list),
           NEW e \in ToSet(t.effects), ~Erased(e)
    PROVE  Reversed(e) \in ToSet(list)
<1>0. t.effects \in Seq(Effects)
  BY DEF Fits
<1> PICK kept : kept = Compensation(t)
  OBVIOUS
<1>1. Fits(kept, n) /\ ToSet(kept) = {d \in ToSet(t.effects) : ~Erased(d)}
  BY CompensationIs
<1> PICK effects : effects = ReversedEach(kept)
  OBVIOUS
<1>2. Fits(effects, n) /\ ToSet(effects) = {Reversed(d) : d \in ToSet(kept)}
  BY <1>1, FitsReversed
<1>3. e \in Effects /\ e \in ToSet(kept) /\ Reversed(e) \in ToSet(effects)
  <2>1. e \in Effects
    BY <1>0, ListDomain DEF ToSet
  <2> QED BY <1>1, <1>2, <2>1
<1>4. CASE list = effects
  BY <1>3, <1>4
<1>5. CASE list = PendingRollbackEffects(effects)
  <2>1. \A i \in DOMAIN effects : i = 1 \/ ~IsRekey(effects[i]) => effects[i] \in ToSet(list)
    BY <1>2, <1>5, PendingRollbackIs
  <2>2. PICK i \in DOMAIN effects : effects[i] = Reversed(e)
    BY <1>3 DEF ToSet
  <2>3. CASE ~IsRekey(Reversed(e))
    BY <2>1, <2>2, <2>3
  <2>4. CASE IsRekey(Reversed(e))
    <3>1. IsRekey(e)
      BY <1>3, <2>4, ReversedIs DEF IsRekey
    <3>2. PICK j \in DOMAIN t.effects : t.effects[j] = e
      BY DEF ToSet
    <3>3. t.effects # <<>> /\ t.effects[1] = e
      <4>1. j = 1
        BY <3>1, <3>2 DEF RenamesComeFirst
      <4> QED BY <3>2, <4>1
    <3>4. PICK S : S = {d \in ToSet(t.effects) : ~Erased(d)}
      OBVIOUS
    <3>5. kept = Within(t.effects, S)
      BY <3>4 DEF Compensation
    <3>6. e \in S
      BY <3>4
    <3>7. kept # <<>> /\ kept[1] = e
      <4> PICK whole : whole = t.effects
        OBVIOUS
      <4>1. whole \in Seq(Effects) /\ whole # <<>> /\ whole[1] \in S
        BY <1>0, <3>3, <3>6
      <4> PICK r : r = Within(whole, S)
        OBVIOUS
      <4>2. r # <<>> /\ r[1] = whole[1]
        BY <4>1, WithinIs
      <4> QED BY <3>3, <3>5, <4>2
    <3>8. effects = [k \in DOMAIN kept |-> Reversed(kept[k])] /\ 1 \in DOMAIN kept
      <4>1. kept \in Seq(Effects)
        BY <1>1 DEF Fits
      <4> QED BY <3>7, <4>1 DEF ReversedEach
    <3>9. effects[1] = Reversed(e) /\ 1 \in DOMAIN effects
      BY <3>7, <3>8
    <3> QED BY <2>1, <3>9
  <2> QED BY <2>3, <2>4
<1> QED BY <1>4, <1>5 DEF RollsBack

LEMMA ErasedIsLeft ==
    ASSUME NEW n, NEW t, Fits(t.effects, n), NEW v, NEW list, RollsBack(t, v, list),
           NEW e \in ToSet(t.effects), Erased(e)
    PROVE  \A d \in ToSet(list) : d.subject # e.subject
<1> PICK kept : kept = Compensation(t)
  OBVIOUS
<1>1. Fits(kept, n) /\ ToSet(kept) = {d \in ToSet(t.effects) : ~Erased(d)}
  BY CompensationIs
<1> PICK effects : effects = ReversedEach(kept)
  OBVIOUS
<1>2. Fits(effects, n) /\ ToSet(effects) = {Reversed(d) : d \in ToSet(kept)}
  BY <1>1, FitsReversed
<1>3. \A d \in ToSet(list) : d \in ToSet(effects)
  BY <1>2, PendingRollbackIs DEF RollsBack
<1>4. /\ \A d \in ToSet(t.effects) : d \in Effects
      /\ \A c, d \in ToSet(t.effects) : c.subject = d.subject => c = d
  BY DEF Fits, EffectsFit
<1> SUFFICES ASSUME NEW d \in ToSet(list) PROVE d.subject # e.subject
  OBVIOUS
<1>5. PICK c \in ToSet(kept) : d = Reversed(c)
  BY <1>2, <1>3
<1>6. c \in ToSet(t.effects) /\ ~Erased(c)
  BY <1>1
<1>7. d.subject = c.subject
  BY <1>4, <1>5, <1>6, ReversedIs
<1> QED BY <1>4, <1>6, <1>7

(* A rollback that is accepted leaves every row the transaction touched as *)
(* the transaction found it, except a row that later truth has erased,     *)
(* which stays gone: what was observed since the transaction was staged    *)
(* tells, row by row, how the row stands (pending-rollback.ts).            *)
THEOREM RollbackTakesEveryRowBack ==
    ASSUME ~Revisits, Modes \subseteq {"strict"}
    PROVE  Spec => RollbackIsComplete
<1>1. ASSUME CollectionInv, LaterInv, Rollback, RenamesComeFirst(pending), NEW e \in ToSet(pending.effects)
      PROVE  KeyIn(store'.chain, e.subject) = IF Erased(e) THEN NoKey ELSE e.before
  <2> PICK result : result = RolledBack(pending)
    OBVIOUS
  <2> PICK v : v = result.store
    OBVIOUS
  <2>1. pending # NoTurn /\ Quiet /\ result.ok /\ store' = v
    BY <1>1 DEF Rollback, Staged
  <2>2. TurnIs(pending, store.next) /\ Sound(store) /\ store.next \in Nat
    BY <1>1, <2>1 DEF CollectionInv, TransactionTells, TickTells, Sound
  <2>3. Fits(pending.effects, store.next)
    BY <2>2, TurnFits
  <2>4. PICK list : RollsBack(pending, v, list)
    BY <2>1, <2>2, RolledBackIs
  <2>5. Realized(store, v, ToSet(list))
    BY <2>4 DEF RollsBack
  <2>6. /\ Sound(v) /\ \A d \in ToSet(list) : v.states[d.subject] = d.after
        /\ DOMAIN v.states = DOMAIN store.states
        /\ \A s \in DOMAIN store.states : (\A d \in ToSet(list) : d.subject # s) => v.states[s] = store.states[s]
    BY <2>5 DEF Realized, Restates
  <2>7. /\ e \in Effects /\ e.subject > 0 /\ e.subject < store.next /\ e.subject \in Nat
    <3>1. e \in Effects
      BY <2>3, ListDomain DEF Fits, ToSet
    <3> QED BY <2>3, <3>1 DEF Fits, EffectsFit, Effects
  <2>8. e.subject \in DOMAIN store.states
    BY <2>2, <2>7 DEF Sound
  <2>9. KeyIn(v.chain, e.subject) = v.states[e.subject]
    BY <2>6, <2>8, KeyInIs
  <2>10. CASE Erased(e)
    <3>1. Now(store.states)[e.subject] = NoKey
      BY <1>1, <2>1, <2>7, <2>10, ErasedIsGone
    <3>2. store.states[e.subject] = NoKey
      BY <2>7, <2>8, <3>1 DEF Now
    <3>3. \A d \in ToSet(list) : d.subject # e.subject
      BY <2>3, <2>4, <2>10, ErasedIsLeft
    <3> QED BY <2>1, <2>6, <2>8, <2>9, <2>10, <3>2, <3>3
  <2>11. CASE ~Erased(e)
    <3>1. Reversed(e) \in ToSet(list)
      BY <1>1, <2>3, <2>4, <2>11, CompensatedRow
    <3>2. Reversed(e).subject = e.subject /\ Reversed(e).after = e.before
      BY <2>7, ReversedIs
    <3>3. v.states[e.subject] = e.before
      BY <2>6, <3>1, <3>2
    <3> QED BY <2>1, <2>9, <2>11, <3>3
  <2> QED BY <2>10, <2>11
<1>2. Init => CollectionInv /\ LaterInv
  BY CollectionInit DEF Init, LaterInv
<1>3. CollectionInv /\ LaterInv /\ [Next]_vars => (CollectionInv /\ LaterInv)'
  BY CollectionNext, LaterNext
<1>4. CollectionInv /\ LaterInv /\ [Next]_vars =>
        [Rollback /\ RenamesComeFirst(pending) =>
          \A e \in ToSet(pending.effects) :
             KeyIn(store'.chain, e.subject) = IF Erased(e) THEN NoKey ELSE e.before]_vars
  BY <1>1
<1> QED BY <1>2, <1>3, <1>4, PTL DEF Spec, RollbackIsComplete
-----------------------------------------------------------------------------
(* What a realization is not about                                         *)

(* The store becomes v, and of its rows only those that t touched change.  *)
OnlyAbout(t, v) ==
    \E E : /\ Realized(store, v, E) /\ \A e \in E : e.subject \in Touched(t)
           /\ KeepsOrder(store, v, Touched(t))

LEMMA OthersAre ==
    ASSUME NEW w, Sound(w), NEW t
    PROVE  /\ Others(w.chain, t) \in Seq(Nodes) /\ IsInjective(Others(w.chain, t))
           /\ ToSet(Others(w.chain, t)) = {Node(s, w.states[s]) : s \in Live(w.states) \ Touched(t)}
<1>1. w.chain \in Seq(Nodes) /\ IsInjective(w.chain) /\ ToSet(w.chain) = RowsOf(w.states)
  BY DEF Sound, ChainTells
<1> PICK S : S = {node \in ToSet(w.chain) : node.subject \notin Touched(t)}
  OBVIOUS
<1>2. Others(w.chain, t) = Within(w.chain, S)
  BY DEF Others
<1>3. /\ Within(w.chain, S) \in Seq(Nodes) /\ IsInjective(Within(w.chain, S))
      /\ ToSet(Within(w.chain, S)) = ToSet(w.chain) \cap S
  BY <1>1, WithinIs
<1>4. ToSet(w.chain) \cap S = {Node(s, w.states[s]) : s \in Live(w.states) \ Touched(t)}
  BY <1>1 DEF RowsOf, Node
<1> QED BY <1>2, <1>3, <1>4

LEMMA OthersStay ==
    ASSUME Sound(store), NEW t, NEW v, OnlyAbout(t, v)
    PROVE  Others(v.chain, t) = Others(store.chain, t)
<1> PICK E : Realized(store, v, E) /\ (\A e \in E : e.subject \in Touched(t)) /\ KeepsOrder(store, v, Touched(t))
  BY DEF OnlyAbout
<1>1. Sound(v) /\ v.next = store.next /\ Restates(store.states, v.states, E)
  BY DEF Realized
<1> PICK a : a = Others(store.chain, t)
  OBVIOUS
<1> PICK b : b = Others(v.chain, t)
  OBVIOUS
<1>2. /\ a \in Seq(Nodes) /\ IsInjective(a)
      /\ ToSet(a) = {Node(s, store.states[s]) : s \in Live(store.states) \ Touched(t)}
  BY OthersAre
<1>3. /\ b \in Seq(Nodes) /\ IsInjective(b)
      /\ ToSet(b) = {Node(s, v.states[s]) : s \in Live(v.states) \ Touched(t)}
  BY <1>1, OthersAre
<1>4. ToSet(a) = ToSet(b)
  <2>1. /\ DOMAIN v.states = DOMAIN store.states
        /\ \A s \in DOMAIN store.states : s \notin Touched(t) => v.states[s] = store.states[s]
    BY <1>1 DEF Restates
  <2>2. /\ Live(v.states) \ Touched(t) = Live(store.states) \ Touched(t)
        /\ \A s \in Live(v.states) \ Touched(t) : v.states[s] = store.states[s]
    BY <2>1 DEF Live
  <2> QED BY <1>2, <1>3, <2>2
<1>5. ASSUME NEW x, NEW y, InOrder(a, x, y) PROVE InOrder(b, x, y)
  <2>1. x \in ToSet(a) /\ y \in ToSet(a) /\ x.subject \notin Touched(t) /\ y.subject \notin Touched(t)
    <3>1. x \in ToSet(a) /\ y \in ToSet(a)
      BY <1>5 DEF InOrder, ToSet
    <3> QED BY <1>2, <3>1 DEF Node
  <2> PICK S : S = {node \in ToSet(store.chain) : node.subject \notin Touched(t)}
    OBVIOUS
  <2> PICK V : V = {node \in ToSet(v.chain) : node.subject \notin Touched(t)}
    OBVIOUS
  <2>2. a = Within(store.chain, S) /\ b = Within(v.chain, V)
    BY DEF Others
  <2>3. InOrder(store.chain, x, y)
    <3>1. store.chain \in Seq(Nodes) /\ IsInjective(store.chain)
      BY DEF Sound, ChainTells
    <3> QED BY <1>5, <2>2, <3>1, WithinKeeps DEF OrderKept
  <2>4. InOrder(SubjectsOf(store.chain), x.subject, y.subject)
    BY <2>3 DEF InOrder, SubjectsOf
  <2>5. InOrder(SubjectsOf(v.chain), x.subject, y.subject)
    BY <2>1, <2>4 DEF KeepsOrder, LineKept
  <2>6. PICK i, j \in DOMAIN v.chain : i < j /\ v.chain[i].subject = x.subject /\ v.chain[j].subject = y.subject
    BY <2>5 DEF InOrder, SubjectsOf
  <2>7. ASSUME NEW z \in ToSet(b) PROVE z \in V /\ \E h \in DOMAIN v.chain : v.chain[h] = z
    <3>1. v.chain \in Seq(Nodes)
      BY <1>1 DEF Sound, ChainTells
    <3>2. ToSet(b) = ToSet(v.chain) \cap V
      BY <2>2, <3>1, WithinIs
    <3> QED BY <3>2 DEF ToSet
  <2>8. x \in V /\ y \in V /\ v.chain[i] = x /\ v.chain[j] = y
    <3>1. PICK h \in DOMAIN v.chain : v.chain[h] = x
      BY <1>4, <2>1, <2>7
    <3>2. PICK k \in DOMAIN v.chain : v.chain[k] = y
      BY <1>4, <2>1, <2>7
    <3>3. h = i /\ k = j
      BY <1>1, <2>6, <3>1, <3>2, OnePlace
    <3> QED BY <1>4, <2>1, <2>7, <3>1, <3>2, <3>3
  <2>9. InOrder(v.chain, x, y)
    BY <2>6, <2>8 DEF InOrder
  <2>10. v.chain \in Seq(Nodes) /\ IsInjective(v.chain)
    BY <1>1 DEF Sound, ChainTells
  <2> QED BY <2>2, <2>8, <2>9, <2>10, WithinKeeps
<1>6. OrderKept(a, b)
  BY <1>5 DEF OrderKept
<1> QED BY <1>2, <1>3, <1>4, <1>6, SameLine

LEMMA UndoneOnly ==
    ASSUME Sound(store), NEW t, TurnIs(t, store.next), t.delta = NoDelta, Undone(t).ok
    PROVE  OnlyAbout(t, Undone(t).store)
<1>1. Fits(t.effects, store.next) /\ IsDelta(t.delta)
  BY TurnFits DEF Sound, TurnIs
<1> PICK back : back = Reverse(t.effects)
  OBVIOUS
<1>2. Fits(back, store.next) /\ ToSet(back) = ToSet(t.effects)
  BY <1>1, FitsReverse
<1> PICK list : list = ReversedEach(back)
  OBVIOUS
<1>3. Fits(list, store.next)
  BY <1>2, FitsReversed
<1>4. ToSet(list) = {Reversed(e) : e \in ToSet(back)}
  BY <1>2, FitsReversed
<1> PICK v : v = Undone(t).store
  OBVIOUS
<1> PICK u : u = Transition(list, t.delta, "after", "before")
  OBVIOUS
<1>5. u = Undone(t)
  BY DEF Undone
<1>6. Realized(store, v, ToSet(list)) /\ KeepsOrder(store, v, {e.subject : e \in ToSet(list)})
  BY <1>1, <1>3, <1>5, TransitionIs
<1>7. \A e \in ToSet(back) : e \in Effects
  BY <1>2 DEF Fits, EffectsFit
<1>8. ASSUME NEW d \in ToSet(list) PROVE d.subject \in Touched(t)
  <2> PICK e \in ToSet(back) : d = Reversed(e)
    BY <1>4
  <2> QED BY <1>2, <1>7, ReversedIs DEF Touched
<1>9. {e.subject : e \in ToSet(list)} \subseteq Touched(t)
  BY <1>8
<1>10. KeepsOrder(store, v, Touched(t))
  BY <1>6, <1>9, LineWider DEF KeepsOrder
<1> QED BY <1>6, <1>8, <1>10 DEF OnlyAbout

LEMMA RedoneOnly ==
    ASSUME Sound(store), NEW t, TurnIs(t, store.next), t.delta = NoDelta, Redone(t).ok
    PROVE  OnlyAbout(t, Redone(t).store)
<1>1. Fits(t.effects, store.next) /\ IsDelta(t.delta)
  BY TurnFits DEF Sound, TurnIs
<1> PICK v : v = Redone(t).store
  OBVIOUS
<1> PICK u : u = Transition(t.effects, t.delta, "before", "after")
  OBVIOUS
<1>2. u = Redone(t)
  BY DEF Redone
<1>3. Realized(store, v, ToSet(t.effects)) /\ KeepsOrder(store, v, {e.subject : e \in ToSet(t.effects)})
  BY <1>1, <1>2, TransitionIs
<1>4. Touched(t) = {e.subject : e \in ToSet(t.effects)}
  BY DEF Touched
<1> QED BY <1>3, <1>4 DEF OnlyAbout

LEMMA RolledBackOnly ==
    ASSUME Sound(store), NEW t, TurnIs(t, store.next), t.delta = NoDelta, RolledBack(t).ok
    PROVE  OnlyAbout(t, RolledBack(t).store)
<1>1. Fits(t.effects, store.next)
  BY TurnFits DEF Sound
<1> PICK v : v = RolledBack(t).store
  OBVIOUS
<1> PICK list : RollsBack(t, v, list)
  BY RolledBackIs
<1>2. Realized(store, v, ToSet(list)) /\ KeepsOrder(store, v, {e.subject : e \in ToSet(list)})
  BY DEF RollsBack
<1> PICK kept : kept = Compensation(t)
  OBVIOUS
<1>3. Fits(kept, store.next) /\ ToSet(kept) \subseteq ToSet(t.effects)
  BY <1>1, CompensationIs
<1> PICK effects : effects = ReversedEach(kept)
  OBVIOUS
<1>4. Fits(effects, store.next) /\ ToSet(effects) = {Reversed(d) : d \in ToSet(kept)}
  BY <1>3, FitsReversed
<1>5. \A d \in ToSet(list) : d \in ToSet(effects)
  BY <1>4, PendingRollbackIs DEF RollsBack
<1>6. \A e \in ToSet(kept) : e \in Effects
  BY <1>3 DEF Fits, EffectsFit
<1>7. ASSUME NEW d \in ToSet(list) PROVE d.subject \in Touched(t)
  <2> PICK e \in ToSet(kept) : d = Reversed(e)
    BY <1>4, <1>5
  <2> QED BY <1>3, <1>6, ReversedIs DEF Touched
<1>8. {e.subject : e \in ToSet(list)} \subseteq Touched(t)
  BY <1>7
<1>9. KeepsOrder(store, v, Touched(t))
  BY <1>2, <1>8, LineWider DEF KeepsOrder
<1> QED BY <1>2, <1>7, <1>9 DEF OnlyAbout

(* What realizes a turn is an undo, a redo or a rollback of it.            *)
LEMMA RealizesOnly ==
    ASSUME CollectionInv, Modes \subseteq {"strict"}, Next, NEW t, Realizes(t), t.delta = NoDelta
    PROVE  OnlyAbout(t, store')
<1>1. /\ TickTells /\ HistoryTells(history, applied, found, store.next) /\ IsOrder(order)
      /\ TransactionTells(pending, store.next, enhancer, open, history, applied)
  BY DEF CollectionInv
<1>2. /\ Sound(store) /\ history \in Seq(ToSet(history)) /\ applied \in 0 .. Len(history)
      /\ \A i \in 1 .. Len(history) : TurnIs(history[i], store.next)
  BY <1>1 DEF TickTells, HistoryTells
<1> PICK n \in Nat : n = Len(history)
  BY <1>2, ListDomain
<1>3. applied \in Nat /\ applied <= n
  BY <1>2
<1>4. CASE Undo
  <2>1. /\ applied > 0 /\ Undone(history[applied]).ok /\ store' = Undone(history[applied]).store
        /\ applied' = applied - 1 /\ pending' = pending
    BY <1>4 DEF Undo, Navigate
  <2>2. t = history[applied]
    BY <1>3, <2>1 DEF Realizes, Staged
  <2>3. TurnIs(t, store.next)
    BY <1>2, <1>3, <2>1, <2>2
  <2> QED BY <1>2, <2>1, <2>2, <2>3, UndoneOnly
<1>5. CASE Redo
  <2>1. /\ applied < n /\ Redone(history[applied + 1]).ok /\ store' = Redone(history[applied + 1]).store
        /\ applied' = applied + 1 /\ history' = history /\ pending' = pending
    BY <1>5 DEF Redo, Navigate
  <2>2. t = history[applied + 1]
    BY <1>3, <2>1 DEF Realizes, Staged
  <2>3. TurnIs(t, store.next)
    BY <1>2, <1>3, <2>1, <2>2
  <2> QED BY <1>2, <2>1, <2>2, <2>3, RedoneOnly
<1>6. CASE Rollback
  <2>1. /\ pending # NoTurn /\ RolledBack(pending).ok /\ store' = RolledBack(pending).store /\ applied' = applied
    BY <1>6 DEF Rollback, Staged
  <2>2. t = pending
    BY <1>3, <2>1 DEF Realizes
  <2>3. TurnIs(t, store.next)
    BY <1>1, <2>1, <2>2 DEF TransactionTells
  <2> QED BY <1>2, <2>1, <2>2, <2>3, RolledBackOnly
<1>7. CASE Author
  <2>1. applied' = applied /\ pending' = pending
    <3>1. PICK list : Wrote(list)
      BY <1>1, <1>2, <1>7, AuthorWrites
    <3> QED BY <3>1 DEF Wrote
  <2> QED BY <1>3, <2>1 DEF Realizes, Staged
<1>8. CASE FlushHistory
  <2>1. ~Quiet /\ pending' = pending /\ (applied' = applied \/ applied' = applied + 1)
    BY <1>8 DEF FlushHistory
  <2> QED BY <1>3, <2>1 DEF Realizes, Staged
<1>9. CASE FlushOrdinary
  <2>1. applied' = applied /\ pending' = pending
    BY <1>9 DEF FlushOrdinary
  <2> QED BY <1>3, <2>1 DEF Realizes, Staged
<1>10. CASE Begin
  <2>1. applied' = applied /\ pending' = pending
    BY <1>10 DEF Begin
  <2> QED BY <1>3, <2>1 DEF Realizes, Staged
<1>11. CASE Stage \/ Confirm
  <2>1. applied' = applied /\ store' = store
    BY <1>11 DEF Stage, Confirm
  <2> QED BY <1>3, <2>1 DEF Realizes
<1> QED BY <1>4, <1>5, <1>6, <1>7, <1>8, <1>9, <1>10, <1>11 DEF Next

(* Taking a turn back, putting it on again and rolling a transaction back  *)
(* are about the turn's own rows: every other row keeps its key, and they  *)
(* keep their order among themselves, whatever later writes made of the    *)
(* collection and whichever of the two ways realizes it                    *)
(* (tree-realization-adapter.ts, structural-target.ts).                    *)
THEOREM OthersAlwaysKeepTheirPlace ==
    ASSUME ~Revisits, Modes \subseteq {"strict"}
    PROVE  Spec => OthersKeepTheirPlace
<1>1. ASSUME CollectionInv, Next, NEW t \in Turns, Realizes(t), t.delta = NoDelta
      PROVE  Others(store'.chain, t) = Others(Chain, t)
  <2>1. Sound(store)
    BY <1>1 DEF CollectionInv, TickTells
  <2>2. OnlyAbout(t, store')
    BY <1>1, RealizesOnly
  <2> QED BY <2>1, <2>2, OthersStay DEF Chain
<1>2. CollectionInv /\ [Next]_vars =>
        [\A t \in Turns : Realizes(t) /\ t.delta = NoDelta =>
            Others(store'.chain, t) = Others(Chain, t)]_vars
  BY <1>1
<1> QED BY <1>2, CollectionInvariant, PTL DEF Spec, OthersKeepTheirPlace
=============================================================================
