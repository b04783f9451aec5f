------------------------------ MODULE Collection -----------------------------
(***************************************************************************)
(* One entity collection of a tree that has either the restoration or the  *)
(* transactions enhancer: the writes of entity-signal.ts with the          *)
(* structural effects they announce, the path notifier that holds the      *)
(* announcements until the tick ends, the capture that nets them into a    *)
(* turn, and what undo, redo and rollback make of the recorded turns.      *)
(*                                                                         *)
(* Rows carry no value: a replacement that keeps a row announces an update *)
(* that changes nothing.  Every write is authored and designated.  The     *)
(* announcements of a realization itself are delivered before the next     *)
(* write; undo, redo, staging and settlement find an empty queue.          *)
(***************************************************************************)
EXTENDS StructuralTarget

CONSTANTS Keys,          \* business keys
          Enhancers,     \* which enhancer the tree may have: "restoration", "transactions"
          InitialRows,   \* the keys of the rows the collection starts with, in order
          MaxSubjects,   \* rows ever created
          MaxWrites,     \* authored writes
          Writes,        \* the kinds of writes the application makes
          Revisits,      \* may a row be announced at a path an older slot already has
          Modes,         \* what addMany does with a row that is there
          NoTurn         \* no transaction is staged

ASSUME KeysAssumption == NoKey \notin Keys /\ IsFiniteSet(Keys)
ASSUME RowsAssumption == InitialRows \in Seq(Keys) /\ IsInjective(InitialRows)

VARIABLES enhancer,      \* the one this tree has
          store,         \* the structural store
          queue,         \* the notifier's slots, in order: [path, entries]
          order,         \* the order capture of the tick, or NoDelta
          found,         \* the chain as this tick, or this transaction, found it
          history,       \* restoration: the turns
          applied,       \* restoration: how many of them are applied
          open,          \* transactions: a transaction is running
          pending,       \* transactions: the staged turn, or NoTurn
          later,         \* transactions: effects observed since it was staged
          wrote          \* writes so far

vars == <<enhancer, store, queue, order, found, history, applied, open, pending, later, wrote>>

Turns == ToSet(history) \cup ({pending} \ {NoTurn})

Ends(delta) == IF delta = NoDelta THEN {} ELSE {delta.before, delta.after}

(* A frontier nothing holds.                                               *)
Held == {store.frontier} \cup (IF order = NoDelta THEN {} ELSE {order.beforeFrontier, order.afterFrontier})
           \cup {end.frontier : end \in UNION {Ends(t.delta) : t \in Turns}}
FreshFrontier == CHOOSE f \in 0..Cardinality(Held) : f \notin Held

-----------------------------------------------------------------------------
(* The notifier.                                                           *)

PathOf(e) == IF e.after # NoKey THEN e.after ELSE e.before

SameKind(e, f) ==
    /\ IsAdd(e) <=> IsAdd(f)
    /\ IsRemove(e) <=> IsRemove(f)
    /\ IsUpdate(e) <=> IsUpdate(f)

(* A slot's last entry takes in one of the same kind about the same row.   *)
Coalesce(entries, e) ==
    LET tail == entries[Len(entries)]
    IN  IF tail.subject = e.subject /\ SameKind(tail, e)
        THEN [entries EXCEPT ![Len(entries)] = e] ELSE Append(entries, e)

EnqueuePending(slots, e) ==
    LET i == SelectInSeq(slots, LAMBDA slot : slot.path = PathOf(e))
    IN  IF i = 0 THEN Append(slots, [path |-> PathOf(e), entries |-> <<e>>])
        ELSE [slots EXCEPT ![i].entries = Coalesce(@, e)]

(* Nothing about the row waits behind the slot its next entry goes to.     *)
InSequence(slots, e) ==
    LET i == SelectInSeq(slots, LAMBDA slot : slot.path = PathOf(e))
    IN  i # 0 => \A j \in i + 1..Len(slots) :
                    \A entry \in ToSet(slots[j].entries) : entry.subject # e.subject

-----------------------------------------------------------------------------
(* The writes.                                                             *)

Chain == store.chain
KeysOf(chain) == [i \in DOMAIN chain |-> chain[i].key]
ActiveKeys == DOMAIN store.ids

KeyLists == {<<>>} \cup UNION {{ks \in [1..n -> Keys] : IsInjective(ks)} : n \in 1..Cardinality(Keys)}

(* A write of the application: the new store and what is announced.        *)
Write(written, announced) ==
    /\ wrote < MaxWrites /\ wrote' = wrote + 1
    /\ Revisits \/ \A e \in ToSet(announced) : InSequence(queue, e)
    /\ store' = written
    /\ queue' = FoldLeft(EnqueuePending, queue, announced)
    /\ UNCHANGED <<enhancer, found, history, applied, open, pending, later>>

AddOne(k) ==
    /\ k \notin ActiveKeys /\ store.next <= MaxSubjects
    /\ Write(CreateSubject(store, store.next, k, FreshFrontier),
             <<Effect(store.next, NoKey, k, SubjectAt(Chain, Len(Chain)), 0)>>)
    /\ UNCHANGED order

PrependOne(k) ==
    /\ k \notin ActiveKeys /\ store.next <= MaxSubjects
    /\ Write(MoveKeysToFront(CreateSubject(store, store.next, k, FreshFrontier), <<k>>, FreshFrontier),
             <<Effect(store.next, NoKey, k, 0, SubjectAt(Chain, 1))>>)
    /\ UNCHANGED order

(* previousKeys.at(i + previousKeys.length - addedEntities.length), which  *)
(* counts from the end when it is negative.                                *)
AddManyAnchor(i, n) ==
    LET at == i - 1 + Len(Chain) - n
    IN  SubjectAt(Chain, IF at >= 0 THEN at + 1 ELSE at + 1 + Len(Chain))

AddManyEffects(keys, created) ==
    [i \in DOMAIN keys |-> Effect(created.ids[keys[i]], NoKey, keys[i], AddManyAnchor(i, Len(keys)), 0)]

CanAddMany(keys, mode) ==
    /\ keys # <<>>
    /\ mode = "strict" => ToSet(keys) \cap ActiveKeys = {}
    /\ store.next + Cardinality(ToSet(keys) \ ActiveKeys) - 1 <= MaxSubjects

AddMany(keys, mode) ==
    /\ CanAddMany(keys, mode)
    /\ LET created == CreateEach(store, keys, FreshFrontier)
       IN  Write(created, AddManyEffects(keys, created))
    /\ UNCHANGED order

PrependMany(keys, mode) ==
    /\ CanAddMany(keys, mode)
    /\ LET created == CreateEach(store, keys, FreshFrontier)
       IN  Write(MoveKeysToFront(created, keys, FreshFrontier), AddManyEffects(keys, created))
    /\ UNCHANGED order

ChangeId(from, to) ==
    /\ from \in ActiveKeys /\ to \notin ActiveKeys
    /\ Write(TransferSubject(store, store.ids[from], from, to),
             <<Effect(store.ids[from], from, to, 0, 0)>>)
    /\ UNCHANGED order

(* removeOne, removeMany and clear: the neighbours are read before any row *)
(* goes.                                                                   *)
RemoveRows(keys) ==
    /\ keys # <<>> /\ ToSet(keys) \subseteq ActiveKeys
    /\ Write(TombstoneEach(store, NodesOf(Chain, keys), FreshFrontier),
             [i \in DOMAIN keys |->
                LET near == NeighborSubjectsForKey(store, keys[i])
                IN  Effect(store.ids[keys[i]], keys[i], NoKey, near.left, near.right)])
    /\ UNCHANGED order

(* The nearest row that stays, on the left and on the right of i.          *)
StayingLeft(i, keys) ==
    LET near == {j \in 1..i - 1 : Chain[j].key \in ToSet(keys)}
    IN  IF near = {} THEN 0 ELSE Chain[CHOOSE j \in near : \A m \in near : m <= j].subject
StayingRight(i, keys) ==
    LET near == {j \in i + 1..Len(Chain) : Chain[j].key \in ToSet(keys)}
    IN  IF near = {} THEN 0 ELSE Chain[CHOOSE j \in near : \A m \in near : j <= m].subject

SetAll(keys) ==
    LET gone == Within([i \in DOMAIN Chain |-> i], {i \in DOMAIN Chain : Chain[i].key \notin ToSet(keys)})
        kept == Within(keys, ActiveKeys)
        new == Within(keys, ToSet(keys) \ ActiveKeys)
        created == CreateEach(store, keys, FreshFrontier)
        left == TombstoneEach(created, [j \in DOMAIN gone |-> Chain[gone[j]]], FreshFrontier)
        final == ReorderActiveKeys(left, keys, FreshFrontier)
        before == SubjectsOf(Chain)
        after == SubjectsOf(final.chain)
        removals == [j \in DOMAIN gone |->
                       LET i == gone[j]
                       IN  Effect(Chain[i].subject, Chain[i].key, NoKey,
                                  StayingLeft(i, keys), StayingRight(i, keys))]
        updates == [j \in DOMAIN kept |-> Effect(store.ids[kept[j]], kept[j], kept[j], 0, 0)]
        additions == [j \in DOMAIN new |->
                        LET i == RankIn(keys, new[j])
                        IN  Effect(final.ids[new[j]], NoKey, new[j],
                                   SubjectAt(final.chain, i - 1), SubjectAt(final.chain, i + 1))]
    IN  /\ store.next + Len(new) - 1 <= MaxSubjects
        /\ Write(final, removals \o updates \o additions)
        /\ order' = IF ToSet(before) # ToSet(after) \/ before = after THEN order
                    ELSE IF order = NoDelta
                    THEN [before |-> before, after |-> after,
                          beforeFrontier |-> store.frontier, afterFrontier |-> final.frontier]
                    ELSE [order EXCEPT !.after = after, !.afterFrontier = final.frontier]

Author ==
    \/ \E k \in Keys : "add" \in Writes /\ (AddOne(k) \/ PrependOne(k))
    \/ \E keys \in KeyLists, mode \in Modes :
          "bulk" \in Writes /\ (AddMany(keys, mode) \/ PrependMany(keys, mode))
    \/ \E from, to \in Keys : "rekey" \in Writes /\ ChangeId(from, to)
    \/ \E keys \in KeyLists : "remove" \in Writes /\ RemoveRows(keys)
    \/ \E keys \in KeyLists : "setall" \in Writes /\ SetAll(keys)

-----------------------------------------------------------------------------
(* The end of a tick.                                                      *)

(* The slots are delivered in their order, each with all of its entries.   *)
Captured == FoldLeft(LAMBDA net, slot : EnqueueEach(net, slot.entries), <<>>, queue)
CapturedDelta ==
    IF order = NoDelta THEN NoDelta
    ELSE DeriveCollectionOrderDelta(order.before, order.after, order.beforeFrontier, order.afterFrontier)

Turn == [effects |-> Captured, delta |-> CapturedDelta, before |-> found, after |-> Chain]

Quiet == queue = <<>>

TickEnds == queue' = <<>> /\ order' = NoDelta /\ found' = Chain

(* A turn with nothing in it is not recorded; one that is replaces the     *)
(* turns that were undone.                                                 *)
(* Mutant: the turns that were undone stay behind the new one.             *)
FlushWithoutTruncation ==
    /\ enhancer = "restoration" /\ ~Quiet /\ TickEnds
    /\ IF Captured = <<>> /\ CapturedDelta = NoDelta THEN UNCHANGED <<history, applied>>
       ELSE /\ history' = Append(history, Turn)
            /\ applied' = applied + 1
    /\ UNCHANGED <<enhancer, store, open, pending, later, wrote>>

FlushHistory ==
    /\ enhancer = "restoration" /\ ~Quiet /\ TickEnds
    /\ IF Captured = <<>> /\ CapturedDelta = NoDelta THEN UNCHANGED <<history, applied>>
       ELSE /\ history' = Append(SubSeq(history, 1, applied), Turn)
            /\ applied' = applied + 1
    /\ UNCHANGED <<enhancer, store, open, pending, later, wrote>>

FlushOrdinary ==
    /\ enhancer = "transactions" /\ ~open /\ ~Quiet /\ TickEnds
    /\ later' = IF pending = NoTurn THEN <<>> ELSE later \o Captured
    /\ UNCHANGED <<enhancer, store, history, applied, open, pending, wrote>>

-----------------------------------------------------------------------------
(* Undo and redo.                                                          *)

EndOf(delta, end) == IF delta = NoDelta THEN NoDelta ELSE delta[end]

Transition(effects, delta, from, to) ==
    IF delta # NoDelta \/ RequiresDeclarativeStructuralTarget(store, effects)
    THEN DeclarativeTransition(store, effects, EndOf(delta, from), EndOf(delta, to), FreshFrontier)
    ELSE PhysicalTransition(store, effects, FreshFrontier)

Undone(turn) == Transition(ReversedEach(Reverse(turn.effects)), turn.delta, "after", "before")
Redone(turn) == Transition(turn.effects, turn.delta, "before", "after")

Navigate(result, position) ==
    /\ Quiet /\ result.ok
    /\ store' = result.store /\ applied' = position /\ found' = result.store.chain
    /\ UNCHANGED <<enhancer, queue, order, history, open, pending, later, wrote>>

Undo == enhancer = "restoration" /\ applied > 0 /\ Navigate(Undone(history[applied]), applied - 1)
Redo == /\ enhancer = "restoration" /\ applied < Len(history)
        /\ Navigate(Redone(history[applied + 1]), applied + 1)

-----------------------------------------------------------------------------
(* A transaction.                                                          *)

Begin ==
    /\ enhancer = "transactions" /\ ~open /\ pending = NoTurn /\ Quiet
    /\ open' = TRUE
    /\ UNCHANGED <<enhancer, store, queue, order, found, history, applied, pending, later, wrote>>

Stage ==
    /\ open /\ ~Quiet /\ TickEnds
    /\ open' = FALSE /\ pending' = Turn /\ later' = <<>>
    /\ UNCHANGED <<enhancer, store, history, applied, wrote>>

Staged == pending # NoTurn

Confirm ==
    /\ Staged /\ Quiet
    /\ pending' = NoTurn /\ later' = <<>>
    /\ UNCHANGED <<enhancer, store, queue, order, found, history, applied, open, wrote>>

(* What later truth did to a row: the last effect on it, and the row that  *)
(* ends up at the key a rename left.                                       *)
LaterOf(s) == Within(later, {e \in ToSet(later) : e.subject = s})

Erased(e) ==
    /\ ~IsRemove(e) /\ LaterOf(e.subject) # <<>>
    /\ IsRemove(LaterOf(e.subject)[Len(LaterOf(e.subject))])

OccupiedBy(e) ==
    FoldLeft(LAMBDA who, l :
                 CASE l.after = e.before /\ l.subject # e.subject -> l.subject
                   [] l.after = e.before /\ IsAdd(l) /\ l.subject = e.subject -> 0
                   [] l.before = e.before -> 0
                   [] OTHER -> who,
             0, later)

(* Mutant: any later change of the collection is a conflict.               *)
ConflictsWithTheOwner(e) == ~Erased(e) /\ later # <<>>

Conflicts(e) ==
    /\ ~Erased(e)
    /\ \/ IsRekey(e) /\ OccupiedBy(e) # 0
       \/ LaterOf(e.subject) # <<>>

Compensation(turn) == Within(turn.effects, {e \in ToSet(turn.effects) : ~Erased(e)})

(* The physical way compensates additions and removals, and of everything  *)
(* else the first effect on the collection (pending-rollback.ts).          *)
(* Mutant: one effect per collection for additions and removals too.       *)
OneRollbackEffect(effects) == SubSeq(effects, 1, 1)

PendingRollbackEffects(effects) ==
    LET first == Within([i \in DOMAIN effects |-> i], {i \in DOMAIN effects : i = 1 \/ ~IsRekey(effects[i])})
    IN  [j \in DOMAIN first |-> effects[first[j]]]

RolledBack(turn) ==
    LET effects == ReversedEach(Compensation(turn))
    IN  IF \E i \in DOMAIN turn.effects : Conflicts(turn.effects[i]) THEN Refused(store)
        ELSE IF turn.delta # NoDelta \/ RequiresDeclarativeStructuralTarget(store, effects)
        THEN DeclarativeTransition(store, effects, EndOf(turn.delta, "after"),
                                   EndOf(turn.delta, "before"), FreshFrontier)
        ELSE PhysicalTransition(store, PendingRollbackEffects(effects), FreshFrontier)

Rollback ==
    /\ Staged /\ Quiet /\ RolledBack(pending).ok
    /\ store' = RolledBack(pending).store
    /\ found' = RolledBack(pending).store.chain
    /\ pending' = NoTurn /\ later' = <<>>
    /\ UNCHANGED <<enhancer, queue, order, history, applied, open, wrote>>

-----------------------------------------------------------------------------
Init ==
    /\ enhancer \in Enhancers
    /\ store = CreateEach(EmptyStore, InitialRows, 0)
    /\ queue = <<>> /\ order = NoDelta /\ found = store.chain
    /\ history = <<>> /\ applied = 0
    /\ open = FALSE /\ pending = NoTurn /\ later = <<>> /\ wrote = 0

Next == Author \/ FlushHistory \/ FlushOrdinary \/ Undo \/ Redo \/ Begin \/ Stage \/ Confirm \/ Rollback

Spec == Init /\ [][Next]_vars

-----------------------------------------------------------------------------
(* What the properties say of a turn.                                      *)

KeyIn(chain, s) == LET i == IndexOfSubject(chain, s) IN IF i = 0 THEN NoKey ELSE chain[i].key
RowsIn(chain)   == ToSet(SubjectsOf(chain))
Touched(t)      == {e.subject : e \in ToSet(t.effects)}
Others(chain, t) == Within(chain, {node \in ToSet(chain) : node.subject \notin Touched(t)})
Names(t)        == {<<e.subject, e.before, e.after>> : e \in ToSet(t.effects)}

(* The recorded neighbours of a row are the rows it stood between.         *)
StandsBetween(chain, e) ==
    LET i == IndexOfSubject(chain, e.subject)
    IN  /\ e.left # 0 => SubjectAt(chain, i - 1) = e.left
        /\ e.right # 0 => SubjectAt(chain, i + 1) = e.right

(* Every removed row has a neighbour to come back to, every added one a    *)
(* neighbour to be added to.                                               *)
RemovalsAreAnchored(t) ==
    \A e \in ToSet(t.effects) : IsRemove(e) =>
        /\ StandsBetween(t.before, e)
        /\ {e.left, e.right} \cap RowsIn(t.after) # {} \/ Len(t.before) = 1
AdditionsAreAnchored(t) ==
    \A e \in ToSet(t.effects) : IsAdd(e) =>
        /\ StandsBetween(t.after, e)
        /\ {e.left, e.right} # {0} \/ Len(t.after) = 1

(* What the turn holds of the order is what it did to it: nothing, when it *)
(* has no delta, to the rows that were there all along; and its delta      *)
(* spans the turn, and no row came or went, when it has one.               *)
Staying(chain, other) == SelectSeq(SubjectsOf(chain), LAMBDA s : s \in RowsIn(other))
OrderIsTold(t) ==
    IF t.delta = NoDelta THEN Staying(t.before, t.after) = Staying(t.after, t.before)
    ELSE /\ \A e \in ToSet(t.effects) : IsRekey(e)
         /\ \A end \in {"before", "after"} :
               DeltaFits(SubjectsOf(t[end]), t.delta[end].frontier, t.delta[end])

AtFrontier(t, end) == t.delta # NoDelta => store.frontier = t.delta[end].frontier

(* The one rename a rollback row by row takes back is the first effect.    *)
RenamesComeFirst(t) == \A i \in DOMAIN t.effects : IsRekey(t.effects[i]) => i = 1

Returns(result, chain) == result.ok /\ result.store.chain = chain

-----------------------------------------------------------------------------
(* Properties.                                                             *)

(* Whatever is written, undone, redone and rolled back, and whichever of   *)
(* the two ways realizes it, the chain, the key index and the subjects'    *)
(* states of the store tell the same story.                                *)
StoreIsConsistent == IndexesAgree(store)

(* A turn names exactly the rows whose key it changed, each once, with the *)
(* key before and the key after the whole turn: composing announcements    *)
(* that the notifier has grouped by path neither loses nor invents any.    *)
EvidenceIsNet ==
    \A t \in Turns :
        /\ Names(t) = {<<s, KeyIn(t.before, s), KeyIn(t.after, s)>> :
                         s \in {r \in RowsIn(t.before) \cup RowsIn(t.after) :
                                  KeyIn(t.before, r) # KeyIn(t.after, r)}}
        /\ Cardinality(Names(t)) = Len(t.effects)

(* Wherever undo and redo have gone, the rows and their keys are those     *)
(* that the turns on either side of the position recorded there.           *)
PositionTellsTheRows ==
    Quiet => /\ applied > 0 => ToSet(Chain) = ToSet(history[applied].after)
             /\ applied < Len(history) => ToSet(Chain) = ToSet(history[applied + 1].before)

(* Undoing a turn where it ended, redoing it where it began and rolling a  *)
(* staged transaction back with nothing after it are never refused and     *)
(* give exactly the rows, keys and order of the other end, when each row   *)
(* that comes has a recorded neighbour to come to and the order is told.   *)
UndoReturns(t) ==
    Chain = t.after /\ OrderIsTold(t) /\ AtFrontier(t, "after") /\ RemovalsAreAnchored(t)
        => Returns(Undone(t), t.before)
RedoReturns(t) ==
    Chain = t.before /\ OrderIsTold(t) /\ AtFrontier(t, "before") /\ AdditionsAreAnchored(t)
        => Returns(Redone(t), t.after)
RollbackReturns(t) ==
    (/\ Chain = t.after /\ later = <<>> /\ OrderIsTold(t) /\ AtFrontier(t, "after")
     /\ RemovalsAreAnchored(t) /\ RenamesComeFirst(t))
        => Returns(RolledBack(t), t.before)
ReversalReturns ==
    Quiet => /\ applied > 0 => UndoReturns(history[applied])
             /\ applied < Len(history) => RedoReturns(history[applied + 1])
             /\ Staged => RollbackReturns(pending)

Realizes(t) ==
    \/ applied' = applied - 1 /\ history' = history /\ t = history[applied]
    \/ Quiet /\ applied' = applied + 1 /\ t = history'[applied']
    \/ Staged /\ pending' = NoTurn /\ store' # store /\ t = pending

(* Taking a turn back, or putting it on again, is about its own rows: every *)
(* other row keeps its key, and they keep their order among themselves,    *)
(* whatever later writes made of the collection.                           *)
OthersKeepTheirPlace ==
    [][\A t \in Turns : Realizes(t) /\ t.delta = NoDelta =>
          Others(store'.chain, t) = Others(Chain, t)]_vars

(* A rollback that is accepted leaves every row the transaction touched as *)
(* the transaction found it, except a row that later truth has erased.     *)
RollbackIsComplete ==
    [][Rollback /\ RenamesComeFirst(pending) =>
          \A e \in ToSet(pending.effects) :
             KeyIn(store'.chain, e.subject) = IF Erased(e) THEN NoKey ELSE e.before]_vars

(* A rollback is refused only if later truth has touched a row of the      *)
(* transaction, a neighbour it recorded, or a key it needs.                *)
NamedBy(effects) == (UNION {{e.subject, e.left, e.right} : e \in ToSet(effects)}) \ {0}
KeysOfEffects(effects) == (UNION {{e.before, e.after} : e \in ToSet(effects)}) \ {NoKey}
RefusalHasACause ==
    (Staged /\ Quiet /\ OrderIsTold(pending) /\ RemovalsAreAnchored(pending) /\ ~RolledBack(pending).ok) =>
        \/ NamedBy(pending.effects) \cap {e.subject : e \in ToSet(later)} # {}
        \/ KeysOfEffects(pending.effects) \cap KeysOfEffects(later) # {}
        \/ ~AtFrontier(pending, "after")

(* NOT what the code does: a rollback takes back every rename of the       *)
(* transaction.  The row-by-row way keeps of the renames only one that is  *)
(* the first effect of all.                                                *)
RollbackTakesBackEveryName ==
    [][Rollback =>
          \A e \in ToSet(pending.effects) :
             IsRekey(e) /\ ~Erased(e) => KeyIn(store'.chain, e.subject) = e.before]_vars
=============================================================================
