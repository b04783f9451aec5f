---------------------------- MODULE Transactions ----------------------------
(***************************************************************************)
(* The transaction runtime over scalar locations: writes to the tree, the  *)
(* notifier's queue they wait in, the turns that delivery makes of them,   *)
(* and the settlement of handles.  JavaScript runs every handler to its    *)
(* end, so one action is one synchronous piece of the program; inside a    *)
(* transaction callback the pieces are its single writes.                  *)
(*                                                                         *)
(* The ledger is the module TransactionAuthority, called method by method. *)
(*                                                                         *)
(* A write is captured when the queue delivers it, not when it is made.    *)
(* Two histories that the program does not keep say what should have come  *)
(* of it: the standing writes of every cell, and the cells others wrote    *)
(* while a transaction was open.                                           *)
(***************************************************************************)
EXTENDS Naturals, Sequences, SequencesExt

CONSTANTS
    Cell,             \* the scalar locations of the tree
    Value, Initially, \* what a cell holds, and holds at first
    ReturningIn,      \* where a write may give a cell back a value it has left
                      \* since its last delivery: "outside" callbacks, "callback"
    Realizes,         \* whether external truth is written too (realizations)
    SettlesInCallback,\* whether a callback settles handles of earlier turns
    Microtasks,       \* whether the script ever yields, so that a flush runs
    MaxTransactions,  \* bound: transactions opened
    MaxWrites         \* bound: writes made

ASSUME InitiallyAssumption == Initially \in Value
ASSUME ReturningAssumption == ReturningIn \subseteq {"outside", "callback"}
ASSUME SwitchesAssumption ==
    Realizes \in BOOLEAN /\ SettlesInCallback \in BOOLEAN /\ Microtasks \in BOOLEAN
ASSUME BoundsAssumption == MaxTransactions \in Nat /\ MaxWrites \in Nat

VARIABLES
    tree,       \* cell -> value
    queue,      \* the notifier's undelivered entries, in delivery order
    authority,  \* the TransactionAuthority
    handles,    \* transaction id -> [turn, lifecycle]
    destroyed,  \* the runtime's cleanup has run
    layers,     \* history: cell -> standing writes, oldest first
    touched,    \* history: transaction id -> cells others wrote since it began
    writes      \* number of writes made, for the bound

program == <<tree, queue, authority, handles, destroyed>>
history == <<layers, touched, writes>>
vars == <<program, history>>

Intent == {"replace", "derive"}     \* set(value) and update(function)
Effect == [cell : Cell, before : Value, after : Value, intent : Intent]
Entry == [cell : Cell, before : Value, after : Value,
          intent : Intent \cup {"none"},
          source : {"authored", "realized", "compensation"}]

CellOf(e) == e.cell

Ledger == INSTANCE TransactionAuthority WITH
    Subject <- {}, EffectLists <- {}, QueuedLists <- {}, EvidenceKey <- CellOf,
    MaxTurns <- 0, MaxSeq <- 0, MaxRetain <- 0

NoTurn == 0
Running == handles # <<>> /\ Last(handles).lifecycle = "running"
Current == Len(handles)
PendingTurns == Ledger!Pending(authority)

-----------------------------------------------------------------------------
(* The queue                                                               *)

OfCell(q, c) == {i \in DOMAIN q : q[i].cell = c}
Youngest(S) == CHOOSE i \in S : \A j \in S : j <= i

SameIdentity(left, right) ==
    left.source = right.source /\ left.intent = right.intent

(* An entry joins the youngest entry of its path if the two mean the same, *)
(* and otherwise queues behind it: delivery is by path, not by time.       *)
Enqueue(q, entry) ==
    IF OfCell(q, entry.cell) = {} THEN Append(q, entry)
    ELSE LET i == Youngest(OfCell(q, entry.cell)) IN
         IF SameIdentity(q[i], entry)
         THEN [q EXCEPT ![i].after = entry.after]
         ELSE InsertAt(q, i + 1, entry)

AsEffect(entry) ==
    [cell |-> entry.cell, before |-> entry.before, after |-> entry.after,
     intent |-> entry.intent]
AsDerived(effect) == [effect EXCEPT !.intent = "derive"]

From(q, sources) ==
    FlattenSeq([i \in DOMAIN q |-> IF q[i].source \in sources THEN <<q[i]>> ELSE <<>>])

(* flush: net-equal entries are dropped, the rest reach the subscriber.    *)
Delivered(q) ==
    FlattenSeq([i \in DOMAIN q |-> IF q[i].before = q[i].after THEN <<>> ELSE <<q[i]>>])
DeliveredFrom(q, sources) ==
    FlattenSeq([i \in DOMAIN q |->
        IF q[i].before # q[i].after /\ q[i].source \in sources THEN <<q[i]>> ELSE <<>>])
Effects(q) == [i \in DOMAIN q |-> AsEffect(q[i])]

(* Mutant: a transaction's own undelivered writes count against it.       *)
QueuedEffectsOfAll(q) ==
    LET entries == From(q, {"realized", "authored"})
    IN  [i \in DOMAIN entries |-> AsDerived(AsEffect(entries[i]))]

(* Mutant: an entry that came back to its old value is no evidence.        *)
QueuedChanges(q) ==
    LET changes == DeliveredFrom(q, IF Running THEN {"realized"} ELSE {"realized", "authored"})
    IN  [i \in DOMAIN changes |-> AsDerived(AsEffect(changes[i]))]

(* What the queue tells against a rollback: every entry that is neither a  *)
(* compensation nor the running transaction's own, as a derivation, even   *)
(* when its value is back to what it was.                                  *)
QueuedLaterEffects(q) ==
    LET foreign == From(q, IF Running THEN {"realized"} ELSE {"realized", "authored"})
    IN  [i \in DOMAIN foreign |-> AsDerived(AsEffect(foreign[i]))]

-----------------------------------------------------------------------------
(* Capture                                                                 *)

CombineIntent(left, right) ==
    IF "replace" \in {left, right} THEN "replace" ELSE "derive"

(* One location has one effect in a bucket, from its first `before' to its *)
(* last `after'; a location that is back where it began has none.          *)
EnqueueEffect(bucket, effect) ==
    IF OfCell(bucket, effect.cell) = {} THEN Append(bucket, effect)
    ELSE LET i == Youngest(OfCell(bucket, effect.cell)) IN
         IF bucket[i].before = effect.after THEN RemoveAt(bucket, i)
         ELSE [bucket EXCEPT ![i].after = effect.after,
                             ![i].intent = CombineIntent(@, effect.intent)]

Authored(q) == DeliveredFrom(q, {"authored"})
Realized(q) == Effects(DeliveredFrom(q, {"realized"}))

(* What the subscriber captures of each entry delivered to it.             *)
CaptureEffects(bucket, entry) ==
    IF entry.before # entry.after /\ entry.source = "authored"
    THEN EnqueueEffect(bucket, AsEffect(entry)) ELSE bucket
Captured(q) == FoldLeft(CaptureEffects, <<>>, q)

NewTurn(effects) == [subjects |-> {}, effects |-> effects]

(* Each realized entry is one call of observeLaterEffects.                 *)
ObserveRealized(a, q) ==
    FoldLeft(LAMBDA b, effect : Ledger!ObserveLaterEffects(b, <<effect>>), a, Realized(q))

(* A flush outside a callback records what was authored as one turn.       *)
FlushOrdinary(a, q) ==
    IF Authored(q) = <<>> THEN ObserveRealized(a, q)
    ELSE Ledger!RecordConfirmed(ObserveRealized(a, q), NewTurn(Captured(q)))

(* observeQueuedEffects for every pending turn.                            *)
LatchQueued(a, effects) ==
    FoldLeft(LAMBDA b, id : Ledger!ObserveQueuedEffects(b, id, effects),
             a, SetToSeq(Ledger!Pending(a)))

-----------------------------------------------------------------------------
(* The rollback plan                                                       *)

On(effects, c) == {i \in DOMAIN effects : effects[i].cell = c}

Later(a, id) == Ledger!LaterEffects(a, id) \o Ledger!Retained(a, id)

LaterPendingOverlap(a, id, effect) ==
    \E later \in Ledger!Pending(a) :
        later > id /\ On(a.pendingTurns[later].effects, effect.cell) # {}

(* Mutant: a derivation from the proposal is not in the way either.        *)
NeverDerived(later, effect) == FALSE

DerivedFrom(later, effect) ==
    \E i \in On(later, effect.cell) : later[i].intent # "replace"

Superseded(later, effect) == On(later, effect.cell) # {}

Conflict(a, id) ==
    \E i \in DOMAIN a.pendingTurns[id].effects :
        LET effect == a.pendingTurns[id].effects[i] IN
        LaterPendingOverlap(a, id, effect) \/ DerivedFrom(Later(a, id), effect)

(* The effects to take back, when there is no conflict.                    *)
Compensation(a, id) ==
    LET effects == a.pendingTurns[id].effects
    IN  FlattenSeq([i \in DOMAIN effects |->
            IF Superseded(Later(a, id), effects[i]) THEN <<>> ELSE <<effects[i]>>])

Compensated(t, effects) ==
    [c \in Cell |-> IF On(effects, c) = {} THEN t[c]
                    ELSE effects[Youngest(On(effects, c))].before]

CompensationEntry(effect) ==
    [cell |-> effect.cell, before |-> effect.after, after |-> effect.before,
     intent |-> "none", source |-> "compensation"]
EnqueueCompensation(q, effects) ==
    FoldLeft(LAMBDA r, effect : Enqueue(r, CompensationEntry(effect)), q, effects)

-----------------------------------------------------------------------------
(* History                                                                 *)

Standing == INSTANCE Proposals WITH
    shown <- tree, status <- [n \in DOMAIN handles |-> handles[n].lifecycle]

Stand(c, v, intent, by) ==
    layers' = [layers EXCEPT ![c] = Append(@, [by |-> by, value |-> v, intent |-> intent])]

Touch(c, by) ==
    touched' = [n \in DOMAIN touched |->
        IF n # by /\ handles[n].lifecycle \in {"running", "pending"}
        THEN touched[n] \cup {c} ELSE touched[n]]

-----------------------------------------------------------------------------
(* Writes                                                                  *)

(* v is a value that c has left since its last delivery.                   *)
Returns(c, v) ==
    \E i \in OfCell(queue, c) : queue[i].before = v /\ queue[i].source # "compensation"

MayReturn == (IF Running THEN "callback" ELSE "outside") \in ReturningIn

Write(c, v, intent, source, by) ==
    /\ ~destroyed
    /\ writes < MaxWrites
    /\ v # tree[c]
    /\ MayReturn \/ ~Returns(c, v)
    /\ tree' = [tree EXCEPT ![c] = v]
    /\ queue' = Enqueue(queue, [cell |-> c, before |-> tree[c], after |-> v,
                                intent |-> intent, source |-> source])
    /\ Stand(c, v, intent, by)
    /\ Touch(c, by)
    /\ writes' = writes + 1
    /\ UNCHANGED <<authority, handles, destroyed>>

(* An ordinary write, or, inside a callback, a write of its transaction.   *)
AuthoredWrite ==
    \E c \in Cell, v \in Value, intent \in Intent :
        Write(c, v, intent, "authored", IF Running THEN Current ELSE Standing!Settled)

RealizedWrite ==
    /\ Realizes
    /\ \E c \in Cell, v \in Value, intent \in Intent :
           Write(c, v, intent, "realized", Standing!Settled)

(* The microtask that delivers the queue.  None runs inside a callback,    *)
(* and none at all while the script stays synchronous.                     *)
Flush ==
    /\ Microtasks /\ ~destroyed /\ ~Running /\ queue # <<>>
    /\ authority' = FlushOrdinary(authority, queue)
    /\ queue' = <<>>
    /\ UNCHANGED <<tree, handles, destroyed, history>>

-----------------------------------------------------------------------------
(* Transactions                                                            *)

(* Mutant: the flush that opens a transaction is not announced to the      *)
(* older pending turns.                                                    *)
OpenedWithoutLatch(a, q) == FlushOrdinary(a, q)

(* The queue is flushed so that nothing older counts as the transaction's, *)
(* but not before every pending turn has kept it as evidence.              *)
Opened(a, q) ==
    FlushOrdinary(LatchQueued(a, QueuedLaterEffects(q)), q)

Open ==
    /\ ~destroyed /\ ~Running
    /\ Len(handles) < MaxTransactions
    /\ authority' = Opened(authority, queue)
    /\ queue' = <<>>
    /\ handles' = Append(handles, [turn |-> NoTurn, lifecycle |-> "running"])
    /\ touched' = Append(touched, {})
    /\ UNCHANGED <<tree, destroyed, layers, writes>>

(* The callback has returned: what others wrote meanwhile is evidence for  *)
(* the older pending turns and for the new one; what it wrote is a turn,   *)
(* unless nothing of it was delivered.                                     *)
Materialized(a, q) ==
    LET queued   == QueuedLaterEffects(q)
        observed == ObserveRealized(LatchQueued(a, queued), q)
        realized == Realized(q)
        external == queued \o [i \in DOMAIN realized |-> AsDerived(realized[i])]
        id       == observed.nextTurnId
    IN  IF Authored(q) = <<>>
        THEN [authority |-> observed, turn |-> NoTurn]
        ELSE [authority |-> Ledger!ObserveQueuedEffects(
                                Ledger!CreatePending(observed, NewTurn(Captured(q))),
                                id, external),
              turn |-> id]

CallbackReturns ==
    /\ Running
    /\ LET staged == Materialized(authority, queue) IN
       /\ authority' = staged.authority
       /\ handles' = [handles EXCEPT ![Current] =
                        [turn |-> staged.turn, lifecycle |-> "pending"]]
    /\ queue' = <<>>
    /\ UNCHANGED <<tree, destroyed, history>>

-----------------------------------------------------------------------------
(* Settlement                                                              *)

Forgotten(n) == layers' = [c \in Cell |-> Standing!Without(layers[c], n)]

(* Mutant: the lifecycle moves before the compensation is known to stand.  *)
RefusedAsRejected(n, id, read, q) ==
    /\ handles' = [handles EXCEPT ![n] = [turn |-> id, lifecycle |-> "rejected"]]
    /\ authority' = read /\ queue' = q /\ UNCHANGED <<tree, layers>>

(* The plan found a conflict: it throws, and nothing but the evidence it   *)
(* has read has changed.                                                   *)
Refused(n, id, read, q) ==
    /\ handles' = [handles EXCEPT ![n] = [turn |-> id, lifecycle |-> "pending"]]
    /\ authority' = read /\ queue' = q /\ UNCHANGED <<tree, layers>>

Installed(n, id, read, q, effects) ==
    /\ handles' = [handles EXCEPT ![n] = [turn |-> id, lifecycle |-> "rejected"]]
    /\ authority' = Ledger!DiscardPending(read, id)
    /\ queue' = EnqueueCompensation(q, effects)
    /\ tree' = Compensated(tree, effects)
    /\ Forgotten(n)

(* handle.rollback() of transaction n with turn id, in the ledger a, on    *)
(* the queue q.  Without a turn there is nothing to plan.                  *)
Rollback(n, id, a, q) ==
    LET read == Ledger!ObserveQueuedEffects(a, id, QueuedLaterEffects(q)) IN
    \/ id = NoTurn /\ Installed(n, id, a, q, <<>>)
    \/ id # NoTurn /\ Conflict(read, id) /\ Refused(n, id, read, q)
    \/ id # NoTurn /\ ~Conflict(read, id) /\ Installed(n, id, read, q, Compensation(read, id))

(* A callback that throws is rolled back at once; when that is refused the *)
(* error carries a handle, and the turn stays pending.                     *)
CallbackThrows ==
    /\ Running
    /\ LET staged == Materialized(authority, queue)
       IN  Rollback(Current, staged.turn, staged.authority, <<>>)
    /\ UNCHANGED <<destroyed, touched, writes>>

Settleable(n) ==
    /\ ~destroyed
    /\ handles[n].lifecycle = "pending"
    /\ Running => SettlesInCallback

HandleRollback(n) ==
    /\ Settleable(n)
    /\ Rollback(n, handles[n].turn, authority, queue)
    /\ UNCHANGED <<destroyed, touched, writes>>

HandleConfirm(n) ==
    /\ Settleable(n)
    /\ handles' = [handles EXCEPT ![n].lifecycle = "confirmed"]
    /\ authority' = Ledger!ConfirmPending(authority, handles[n].turn)
    /\ layers' = [c \in Cell |-> Standing!Relabel(layers[c], n)]
    /\ UNCHANGED <<tree, queue, destroyed, touched, writes>>

(* Cleanup: proposals are discarded where they stand, nothing is undone.   *)
Destroy ==
    /\ ~destroyed /\ ~Running
    /\ authority' = Ledger!ReleaseOnDestroy(authority)
    /\ destroyed' = TRUE
    /\ UNCHANGED <<tree, queue, handles, history>>

-----------------------------------------------------------------------------

Init ==
    /\ tree = [c \in Cell |-> Initially]
    /\ queue = <<>>
    /\ authority = Ledger!InitialAuthority
    /\ handles = <<>>
    /\ destroyed = FALSE
    /\ layers = [c \in Cell |-> <<>>]
    /\ touched = <<>>
    /\ writes = 0

Next ==
    \/ AuthoredWrite \/ RealizedWrite \/ Flush
    \/ Open \/ CallbackReturns \/ CallbackThrows
    \/ \E n \in DOMAIN handles : HandleRollback(n) \/ HandleConfirm(n)
    \/ Destroy

Spec == Init /\ [][Next]_vars

-----------------------------------------------------------------------------
(* Correctness                                                             *)

(* The type invariant of the module.                                       *)
TypeOK ==
    /\ tree \in [Cell -> Value]
    /\ queue \in Seq(Entry)
    /\ Ledger!TypeOK
    /\ handles \in Seq([turn : Nat, lifecycle : {"running", "pending", "confirmed", "rejected"}])

(* A turn is pending in the ledger exactly when one handle can settle it,  *)
(* until the tree is destroyed: no proposal is stranded without a handle   *)
(* (RECOVERY-HANDLE-0) and no handle offers authority that is gone.        *)
HandlesOwnTurns ==
    /\ \A n \in DOMAIN handles :
           handles[n].lifecycle = "running" => n = Current /\ ~destroyed
    /\ ~destroyed =>
           \A id \in 1 .. authority.nextTurnId - 1 :
               id \in PendingTurns
                 <=> \E n \in DOMAIN handles :
                        handles[n] = [turn |-> id, lifecycle |-> "pending"]
    /\ \A m, n \in DOMAIN handles :
           handles[m].turn = handles[n].turn /\ handles[m].turn # NoTurn => m = n

(* Called method by method, by this caller, the ledger keeps its one clock *)
(* and its distinct stamps.                                                *)
LedgerStaysSound == Ledger!ChronologyIsShared /\ Ledger!StampsAreDistinct

(* What a reader sees is what the standing writes say: rejecting a turn    *)
(* takes back exactly its own writes, never a write of another, and what   *)
(* it had displaced is back.                                               *)
RejectionIsExact ==
    ~destroyed => \A c \in Cell : tree[c] = Standing!Top(layers[c])

(* The runtime implements the promise of Proposals: besides the above, no  *)
(* rejection goes through under a write of another that rests on it.       *)
ImplementsProposals == Standing!Spec

(* L5, rejected truth cannot resurrect: a cell shows its first value or    *)
(* one that a standing write gave it.                                      *)
RejectedTruthStaysGone ==
    \A c \in Cell :
        tree[c] \in {Initially} \cup {layers[c][i].value : i \in DOMAIN layers[c]}

Wrote(n) == {c \in Cell : \E i \in DOMAIN layers[c] : layers[c][i].by = n}

(* A rollback would be refused now only if another writer has written one  *)
(* of the transaction's cells since it began.                              *)
RefusalIsJustified ==
    \A n \in DOMAIN handles :
        LET id   == handles[n].turn
            read == Ledger!ObserveQueuedEffects(authority, id, QueuedLaterEffects(queue))
        IN  id \in PendingTurns /\ Conflict(read, id) => Wrote(n) \cap touched[n] # {}

(* While another writer's entry for a cell waits in the queue, no rollback *)
(* changes that cell, even if the entry is back to its old value and will  *)
(* never be delivered (equality cannot grant rollback rights).             *)
QueuedWriterIsRespected ==
    [][ \A n \in DOMAIN handles \cap DOMAIN handles' :
          handles[n].lifecycle = "pending" /\ handles'[n].lifecycle = "rejected"
            => \A i \in DOMAIN queue :
                  queue[i].source = "realized" \/ (queue[i].source = "authored" /\ ~Running)
                    => tree'[queue[i].cell] = tree[queue[i].cell] ]_vars
=============================================================================
