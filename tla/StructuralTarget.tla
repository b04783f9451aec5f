-------------------------- MODULE StructuralTarget ---------------------------
(***************************************************************************)
(* How a recorded turn of one collection is put on or taken back.          *)
(*                                                                         *)
(* A structural effect names a subject, its key before and after (NoKey:   *)
(* the row is not there) and the two neighbours it was recorded with (0:   *)
(* none).  A turn keeps the NET effect per subject (restoration.ts and     *)
(* transactions.ts, enqueueEffect) and at most one order delta             *)
(* (target-transition.ts).  It is realized in one of two ways: as a        *)
(* physical frame, row by row (tree-realization-adapter.ts), or as a       *)
(* declarative target, computed whole and installed at once                *)
(* (target-transition.ts).                                                 *)
(*                                                                         *)
(* Both ways answer [ok, store]; a refusal, or an error raised before      *)
(* anything is installed, leaves the store alone.                          *)
(***************************************************************************)
EXTENDS StructuralStore

CONSTANT NoDelta

Effect(subject, before, after, left, right) ==
    [subject |-> subject, before |-> before, after |-> after, left |-> left, right |-> right]

IsAdd(e)    == e.before = NoKey
IsRemove(e) == e.after = NoKey
IsRekey(e)  == NoKey \notin {e.before, e.after} /\ e.before # e.after
IsUpdate(e) == NoKey \notin {e.before, e.after} /\ e.before = e.after

Reversed(e) == [e EXCEPT !.before = e.after, !.after = e.before]
ReversedEach(effects) == [i \in DOMAIN effects |-> Reversed(effects[i])]

Ok(store)      == [ok |-> TRUE, store |-> store]
Refused(store) == [ok |-> FALSE, store |-> store]

-----------------------------------------------------------------------------
(* The net of a tick.                                                      *)

(* A row added or renamed and then renamed or removed: one effect, from    *)
(* the first key to the last, with the neighbours of a removal.            *)
Composed(old, e) ==
    [old EXCEPT !.after = e.after,
                !.left  = IF IsRemove(e) THEN e.left ELSE @,
                !.right = IF IsRemove(e) THEN e.right ELSE @]

(* Mutant: a row that is back where it was leaves its effect behind.       *)
EnqueueWithoutCancelling(net, e) ==
    LET i == SelectInSeq(net, LAMBDA old : old.subject = e.subject)
    IN  CASE IsUpdate(e) -> net
          [] ~IsUpdate(e) /\ i = 0 -> Append(net, e)
          [] OTHER -> [net EXCEPT ![i] = Composed(@, e)]

EnqueueEffect(net, e) ==
    LET i == SelectInSeq(net, LAMBDA old : old.subject = e.subject)
    IN  CASE IsUpdate(e) -> net
          [] ~IsUpdate(e) /\ i = 0 -> Append(net, e)
          [] ~IsUpdate(e) /\ i # 0 /\ (IsRemove(net[i]) \/ IsAdd(e)) -> net
          [] OTHER -> LET c == Composed(net[i], e)
                      IN  IF c.before = c.after THEN RemoveAt(net, i) ELSE [net EXCEPT ![i] = c]

EnqueueEach(net, effects) == FoldLeft(EnqueueEffect, net, effects)

-----------------------------------------------------------------------------
(* Order deltas.                                                           *)

InOrder(seq, s, t) ==
    \E i, j \in DOMAIN seq : i < j /\ seq[i] = s /\ seq[j] = t

LexicographicallyFirst(seqs) ==
    CHOOSE a \in seqs : \A b \in seqs :
        a = b \/ \E i \in DOMAIN a \cap DOMAIN b :
                    a[i] < b[i] /\ SubSeq(a, 1, i - 1) = SubSeq(b, 1, i - 1)

(* The subjects that stay put: the first of the longest sequences that     *)
(* both orders hold.                                                       *)
Backbone(before, after) ==
    LET common == {B \in SUBSET (ToSet(before) \cap ToSet(after)) :
                      SelectSeq(before, LAMBDA s : s \in B) = SelectSeq(after, LAMBDA s : s \in B)}
        longest == {B \in common : \A C \in common : Cardinality(C) <= Cardinality(B)}
    IN  ToSet(LexicographicallyFirst({SelectSeq(before, LAMBDA s : s \in B) : B \in longest}))

RankIn(seq, s) == SelectInSeq(seq, LAMBDA t : t = s)

DeriveCollectionOrderDelta(before, after, beforeFrontier, afterFrontier) ==
    LET moved == (ToSet(before) \cup ToSet(after)) \ Backbone(before, after)
    IN  IF moved = {} THEN NoDelta ELSE
        [before |-> [length |-> Len(before), frontier |-> beforeFrontier,
                     rank |-> [s \in moved |-> RankIn(before, s)]],
         after |-> [length |-> Len(after), frontier |-> afterFrontier,
                    rank |-> [s \in moved |-> RankIn(after, s)]]]

(* The order at one end of a delta, from the order at the other end; a     *)
(* collection that is not at that end is a frontier mismatch.              *)
DeltaFits(order, frontier, from) ==
    /\ Len(order) = from.length /\ frontier = from.frontier
    /\ \A s \in DOMAIN from.rank : RankIn(order, s) = from.rank[s]

ApplyCollectionOrderDelta(order, to) ==
    LET stay == Within(order, ToSet(order) \ DOMAIN to.rank)
        free == Within([i \in 1..to.length |-> i],
                       {i \in 1..to.length : \A s \in DOMAIN to.rank : to.rank[s] # i})
    IN  [i \in 1..to.length |->
            IF i \in ToSet(free) THEN stay[RankIn(free, i)]
            ELSE CHOOSE s \in DOMAIN to.rank : to.rank[s] = i]

-----------------------------------------------------------------------------
(* The declarative target.  The code also checks its writes one by one     *)
(* (planRestore, planRekey) before it installs the target; every store     *)
(* that passes CanInstall passes those, because a key that changes hands   *)
(* is declarative already.                                                 *)

(* A key one row leaves and another one takes, a lone row whose recorded   *)
(* neighbours are all gone, several rows one of which stood next to a row  *)
(* outside of the turn.                                                    *)
RequiresDeclarativeStructuralTarget(store, effects) ==
    LET additions == SelectSeq(effects, IsAdd)
        added     == {additions[i].subject : i \in DOMAIN additions}
        anchors(e) == {e.left, e.right} \ {0}
    IN  \/ \E i, j \in DOMAIN effects :
              i # j /\ effects[i].before # NoKey /\ effects[i].before = effects[j].after
        \/ /\ Len(additions) = 1 /\ anchors(additions[1]) # {}
           /\ \A s \in anchors(additions[1]) : ~IsLive(store, s)
        \/ Len(additions) > 1 /\ \E i \in DOMAIN additions : ~(anchors(additions[i]) \subseteq added)

(* The rows of the target and their keys, effect by effect.                *)
ApplyStructuralEffect(t, e) ==
    LET here == e.subject \in DOMAIN t.keys
    IN  [ok |-> t.ok /\ (IF IsAdd(e) THEN ~here ELSE here /\ t.keys[e.subject] = e.before),
         keys |-> IF IsRemove(e) THEN [s \in DOMAIN t.keys \ {e.subject} |-> t.keys[s]]
                  ELSE SetKey(t.keys, e.subject, e.after)]

(* One row finds its place: the first one with a live neighbour, with no   *)
(* neighbour recorded at all, or whose neighbours will never be live.      *)
Ready(order, pending, i) ==
    LET e == pending[i]
        others == {pending[j].subject : j \in DOMAIN pending}
    IN  \/ {e.left, e.right} = {0}
        \/ {e.left, e.right} \cap ToSet(order) # {}
        \/ {e.left, e.right} \cap others = {}

PlaceOne(t, i) ==
    LET e == t.pending[i]
        l == RankIn(t.order, e.left)
        r == RankIn(t.order, e.right)
        at == CASE r # 0 -> r
                [] r = 0 /\ l # 0 -> l + 1
                [] OTHER -> Len(t.order) + 1
    IN  [ok |-> t.ok /\ (l # 0 /\ r # 0 => l < r) /\ (l = 0 /\ r = 0 => {e.left, e.right} = {0}),
         order |-> InsertAt(t.order, at, e.subject),
         pending |-> RemoveAt(t.pending, i)]

(* Rows that only name each other, in an empty collection: the first       *)
(* pending row that none of the others has to precede.                     *)
Precedes(e, f) == e.right = f.subject \/ f.left = e.subject
Unpreceded(pending, i) == \A j \in DOMAIN pending : j # i => ~Precedes(pending[j], pending[i])

AnchorNext(t) ==
    LET i == SelectInSeq([j \in DOMAIN t.pending |-> j], LAMBDA j : Unpreceded(t.pending, j))
    IN  IF i = 0 THEN [t EXCEPT !.ok = FALSE]
        ELSE [t EXCEPT !.order = Append(@, t.pending[i].subject), !.pending = RemoveAt(@, i)]

Times(f(_), n, from) == FoldLeft(LAMBDA t, i : f(t), from, [i \in 1..n |-> i])

PlaceNext(t) ==
    LET i == SelectInSeq([j \in DOMAIN t.pending |-> j], LAMBDA j : Ready(t.order, t.pending, j))
    IN  CASE ~t.ok \/ t.pending = <<>> -> t
          [] t.ok /\ t.pending # <<>> /\ i # 0 -> PlaceOne(t, i)
          [] t.ok /\ t.pending # <<>> /\ i = 0 /\ t.order = <<>> ->
                Times(AnchorNext, Len(t.pending), t)
          [] OTHER -> [t EXCEPT !.ok = FALSE]

(* Mutant: the rows that stay are taken in the order of their creation.    *)
TargetOrderByAge(order, keys, effects) ==
    LET additions == SelectSeq(effects, IsAdd)
    IN  Times(PlaceNext, Len(additions),
              [ok |-> TRUE, pending |-> additions,
               order |-> SetToSortSeq(ToSet(order) \cap DOMAIN keys, LAMBDA s, t : s < t)])

DeriveStructuralTargetOrder(order, keys, effects) ==
    LET additions == Within(effects, {e \in ToSet(effects) : IsAdd(e)})
    IN  Times(PlaceNext, Len(additions),
              [ok |-> TRUE, pending |-> additions, order |-> Within(order, DOMAIN keys)])

LiveKeys(store) ==
    [s \in ToSet(SubjectsOf(store.chain)) |-> ActiveKeyForSubject(store, s)]

(* `from` and `to` are the ends of the turn's order delta, or NoDelta.     *)
DeclarativeTransition(store, effects, from, to, fresh) ==
    LET source == SubjectsOf(store.chain)
        rows == FoldLeft(ApplyStructuralEffect, [ok |-> TRUE, keys |-> LiveKeys(store)], effects)
        placed == IF to = NoDelta THEN DeriveStructuralTargetOrder(source, rows.keys, effects)
                  ELSE IF DeltaFits(source, store.frontier, from)
                       THEN [ok |-> TRUE, order |-> ApplyCollectionOrderDelta(source, to)]
                       ELSE [ok |-> FALSE, order |-> <<>>]
        frontier == IF to # NoDelta THEN to.frontier
                    ELSE IF DOMAIN rows.keys = ToSet(source) THEN store.frontier ELSE fresh
    IN  IF rows.ok /\ placed.ok /\ CanInstall(store, rows.keys, placed.order)
        THEN Ok(InstallTarget(store, rows.keys, placed.order, frontier))
        ELSE Refused(store)

-----------------------------------------------------------------------------
(* The physical frame.                                                     *)

(* Each effect is checked against the store as the effects before it leave *)
(* it: `at` is the key of a row the frame has added or removed, `held`     *)
(* whether it occupies a key.                                              *)
CanApplyEffect(store, c, e) ==
    LET key == IF e.subject \in DOMAIN c.at THEN c.at[e.subject]
               ELSE ActiveKeyForSubject(store, e.subject)
        occupied == IF e.after \in DOMAIN c.held THEN c.held[e.after]
                    ELSE e.after \in DOMAIN store.ids
        fits == CASE IsRemove(e) -> key # NoKey
                  [] IsAdd(e) -> key = NoKey /\ ~occupied
                  [] OTHER -> key = e.before /\ ~occupied
    IN  IF IsRekey(e) /\ e.subject \notin DOMAIN c.at THEN [c EXCEPT !.ok = @ /\ fits]
        ELSE [ok |-> c.ok /\ fits,
              at |-> SetKey(c.at, e.subject, e.after),
              held |-> SetKey(SetKey(c.held, key, FALSE), e.after, TRUE)]

ValidateEffects(store, effects) ==
    FoldLeft(LAMBDA c, e : CanApplyEffect(store, c, e),
             [ok |-> TRUE, at |-> [s \in {} |-> NoKey], held |-> [k \in {} |-> FALSE]],
             effects).ok

(* The frame commits the removals, then the restores, then the renames.    *)
CommitRemoves(store, effects, fresh) ==
    LET removals == Within(effects, {e \in ToSet(effects) : IsRemove(e)})
        nodeOf(s) == Node(s, ActiveKeyForSubject(store, s))
    IN  TombstoneEach(store, [i \in DOMAIN removals |-> nodeOf(removals[i].subject)], fresh)

CommitRestores(store, effects, fresh) ==
    FoldLeft(LAMBDA w, e : RestoreSubject(w, e.subject, e.after, e.left, e.right, fresh),
             store, Within(effects, {e \in ToSet(effects) : IsAdd(e)}))

CommitRekeys(store, effects) ==
    FoldLeft(LAMBDA w, e : TransferSubject(w, e.subject, e.before, e.after),
             store, Within(effects, {e \in ToSet(effects) : IsRekey(e)}))

CommitFrame(store, effects, fresh) ==
    CommitRekeys(CommitRestores(CommitRemoves(store, effects, fresh), effects, fresh), effects)

PhysicalTransition(store, effects, fresh) ==
    IF ValidateEffects(store, effects) THEN Ok(CommitFrame(store, effects, fresh))
    ELSE Refused(store)
=============================================================================
