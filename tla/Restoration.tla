---------------------------- MODULE Restoration ----------------------------
(***************************************************************************)
(* The restoration() enhancer: undo, redo and jump over a retained history *)
(* of canonical turns.  One tree, its cells, the notifier queue the writes *)
(* wait in until a flush makes a turn of them, the RestorationManager that *)
(* keeps the turns and the frontier of every position, the claims that     *)
(* keep retired rows restorable, and the speculative transactions whose    *)
(* turns are staged outside the history until they confirm.                *)
(*                                                                         *)
(* A cell is one scalar leaf or one row of a collection.  The history array *)
(* is sorted by turn id (insertConfirmedTurn), so it is a function from id *)
(* to turn, a history index is a rank in its domain, and a position's      *)
(* frontier -- a length of its list of turn ids -- is the set of turns     *)
(* below it.                                                               *)
(***************************************************************************)
EXTENDS Integers, FiniteSets, SequencesExt

CONSTANTS
    Positions,    \* positions of the registry that own cells
    Cells,        \* leaves and rows
    Rows,         \* the cells that are rows of a collection
    Owner,        \* the position that owns a cell
    Scopes,       \* for each authority position, the positions it contains
    Values,       \* values of a leaf
    InitialValue, \* the value every leaf starts with
    WriteKinds,   \* the kinds of write the instance makes
    MaxHistory,   \* maxHistorySize
    MaxTurnId,    \* bound: turn ids minted between two resets
    MaxQueued,    \* bound: writes waiting for one flush
    MaxOpened,    \* bound: transactions opened
    Lets          \* what the instance lets happen, see Unless

ASSUME OwnerAssumption == Rows \subseteq Cells /\ Owner \in [Cells -> Positions]
ASSUME ScopesAssumption == Scopes \subseteq SUBSET Positions
ASSUME KindsAssumption == WriteKinds \subseteq {"designated", "plain", "realized"}
ASSUME BoundsAssumption ==
    {MaxHistory, MaxTurnId, MaxQueued, MaxOpened} \subseteq Nat

VARIABLES
    visible,      \* the value a reader of each cell sees
    queue,        \* per cell, the notifier entries a flush will deliver
    manager,      \* the private fields of the RestorationManager
    external,     \* externalTruthByPath
    transactions, \* the open transactions, see Staged
    superseded,   \* external truth each transaction's writes displaced
    opened,       \* how many transactions have been opened
    loose,        \* cells whose settled value no retained turn accounts for
    overtaken,    \* <<turn, cell>>: written over before the turn was confirmed
    server        \* cells last written by a realization that still stands

vars == <<visible, queue, manager, external, transactions, superseded, opened,
          loose, overtaken, server>>

-----------------------------------------------------------------------------
(* Maps and values                                                         *)

EmptyMap == [x \in {} |-> {}]
SetKey(f, x, v) == [y \in DOMAIN f \cup {x} |-> IF y = x THEN v ELSE f[y]]
Without(f, S) == [y \in DOMAIN f \ S |-> f[y]]

(* A row is live or not; a leaf has its value.                             *)
LiveRow(v) == v = "live"
Agrees(c, v, w) == IF c \in Rows THEN LiveRow(v) = LiveRow(w) ELSE v = w

(* What a cell holds once an effect's endpoint is installed.               *)
Installed(c, v) == IF c \in Rows /\ ~LiveRow(v) THEN "gone" ELSE v

-----------------------------------------------------------------------------
(* The RestorationManager                                                  *)

Ids(m) == DOMAIN m.history
At(m, p) == {t \in DOMAIN m.indexed : p \in m.indexed[t].positions}
HistoryIndex(ids, t) == Cardinality({u \in ids : u < t})

InitialManager == [
    history      |-> EmptyMap,  \* id -> Turn, the history array
    indexed      |-> EmptyMap,  \* id -> Turn, the index of the last rebuild
    pendingTurns |-> EmptyMap,  \* id -> Turn
    below        |-> [p \in Positions |-> {}],
    claims       |-> EmptyMap,  \* restoration:<id> -> subjects kept restorable
    forgotten    |-> {},        \* subjects the reclamation sink let go
    nextTurnId   |-> 1,
    currentIndex |-> -1,
    temporal     |-> FALSE ]

HasScopedRedoFuture(m) == \E p \in Positions : m.below[p] # At(m, p)

TurnApplied(m, t) == \E p \in m.indexed[t].positions : t \in m.below[p]

(* The new frontier of a position is its longest prefix of turns that were *)
(* applied at some position, or were not indexed at all.                   *)
RebuildTurnIndexes(m) ==
    LET applied == UNION {m.below[p] : p \in Positions}
        keeps(t) == t \in applied \/ t \notin DOMAIN m.indexed
        turnsAt(p) == {t \in Ids(m) : p \in m.history[t].positions}
    IN  [m EXCEPT !.indexed = m.history,
                  !.below = [p \in Positions |->
                      {t \in turnsAt(p) :
                          \A u \in turnsAt(p) : u <= t => keeps(u)}]]

(* release() per entry, then offerUnclaimed: a retired subject with no     *)
(* claim left is forgotten.  `retired' are the rows that are gone and that *)
(* no transaction claims.                                                  *)
ReleaseRetained(m, ids, retired) ==
    LET claims == Without(m.claims, ids)
        held == UNION {claims[t] : t \in DOMAIN claims}
        named == UNION {m.claims[t] : t \in ids \cap DOMAIN m.claims}
    IN  [m EXCEPT !.claims = claims,
                  !.forgotten = @ \cup ((named \ held) \cap retired)]

(* Mutant: the discarded turns keep their claims.                          *)
TruncateWithoutRelease(m, retired) ==
    LET discarded == {t \in Ids(m) : m.history[t].positions # {}
                            /\ \A p \in Positions : t \notin m.below[p]}
        left == [m EXCEPT !.history = Without(@, discarded)]
    IN  RebuildTurnIndexes([left EXCEPT
            !.currentIndex = Cardinality(Ids(left)) - 1])

TruncateScopedRedoFuture(m, retired) ==
    LET discarded == {t \in Ids(m) : m.history[t].positions # {}
                            /\ \A p \in Positions : t \notin m.below[p]}
        left == ReleaseRetained([m EXCEPT !.history = Without(@, discarded)],
                                discarded, retired)
    IN  RebuildTurnIndexes([left EXCEPT
            !.currentIndex = Cardinality(Ids(left)) - 1])

PrepareConfirmedInsertion(m, retired) ==
    LET truncated == IF HasScopedRedoFuture(m)
                     THEN TruncateScopedRedoFuture(m, retired) ELSE m
        undone == {t \in Ids(truncated) :
                    HistoryIndex(Ids(truncated), t) > truncated.currentIndex}
    IN  IF truncated.temporal
        THEN ReleaseRetained([truncated EXCEPT !.history = Without(@, undone)],
                             undone, retired)
        ELSE truncated

(* Mutant: the oldest turn is released before the new one has its claim.   *)
InsertAfterEviction(m, id, turn, retired) ==
    LET full == Cardinality(Ids(m)) = MaxHistory
        evicted == IF full THEN {Min(Ids(m))} ELSE {}
        bounded == ReleaseRetained([m EXCEPT !.history = Without(@, evicted)],
                                   evicted, retired)
        inserted == [bounded EXCEPT !.history = SetKey(@, id, turn),
                                    !.claims = SetKey(@, id, turn.subjects),
                                    !.temporal = FALSE]
    IN  RebuildTurnIndexes([inserted EXCEPT
            !.currentIndex = Cardinality(Ids(inserted)) - 1])

(* Retain before evict: the oldest turn may be the last one naming a row   *)
(* that the inserted turn names too.                                       *)
InsertConfirmedTurn(m, id, turn, retired) ==
    LET inserted == [m EXCEPT !.history = SetKey(@, id, turn),
                              !.claims = SetKey(@, id, turn.subjects),
                              !.temporal = FALSE]
        evicted == IF Cardinality(Ids(inserted)) > MaxHistory
                   THEN {Min(Ids(inserted))} ELSE {}
        bounded == ReleaseRetained([inserted EXCEPT !.history = Without(@, evicted)],
                                   evicted, retired)
    IN  RebuildTurnIndexes([bounded EXCEPT
            !.currentIndex = Cardinality(Ids(bounded)) - 1])

AddEntry(m, turn, retired) ==
    LET prepared == PrepareConfirmedInsertion(m, retired) IN
    InsertConfirmedTurn([prepared EXCEPT !.nextTurnId = @ + 1],
                        prepared.nextTurnId, turn, retired)

(* Mutant: staging already replaces the redo future.                       *)
CreatePendingTruncating(m, turn) ==
    LET prepared == PrepareConfirmedInsertion(m, {}) IN
    [prepared EXCEPT !.nextTurnId = @ + 1,
                     !.pendingTurns = SetKey(@, m.nextTurnId, turn)]

CreatePendingEntry(m, turn) ==
    [m EXCEPT !.nextTurnId = @ + 1,
              !.pendingTurns = SetKey(@, m.nextTurnId, turn)]

(* Mutant: confirmation does not replace the redo future.                  *)
ConfirmWithoutPreparing(m, id, retired) ==
    [InsertConfirmedTurn(m, id, m.pendingTurns[id], retired)
        EXCEPT !.pendingTurns = Without(@, {id})]

ConfirmPendingTurn(m, id, retired) ==
    LET prepared == PrepareConfirmedInsertion(m, retired)
        confirmed == InsertConfirmedTurn(prepared, id, m.pendingTurns[id], retired)
    IN  [confirmed EXCEPT !.pendingTurns = Without(@, {id})]

DiscardPendingTurn(m, id) == [m EXCEPT !.pendingTurns = Without(@, {id})]

ResetRestorationHistory(m, retired) ==
    [InitialManager EXCEPT
        !.forgotten = ReleaseRetained(m, Ids(m), retired).forgotten]

-----------------------------------------------------------------------------
(* Closures                                                                *)

UndoClosed(m, C) ==
    \A t \in C : \A p \in m.indexed[t].positions :
        t \in m.below[p] => {u \in m.below[p] : u >= t} \subseteq C

RedoClosed(m, C) ==
    \A t \in C : \A p \in m.indexed[t].positions :
        t \notin m.below[p] => {u \in At(m, p) \ m.below[p] : u <= t} \subseteq C

(* The least set the loop of resolveUndoClosure reaches: with a turn, every *)
(* applied turn above it at each position it touched.                      *)
UndoClosure(m, seed) ==
    {u \in DOMAIN m.indexed :
        \A C \in SUBSET DOMAIN m.indexed : seed \in C /\ UndoClosed(m, C) => u \in C}

RedoClosure(m, seed) ==
    {u \in DOMAIN m.indexed :
        \A C \in SUBSET DOMAIN m.indexed : seed \in C /\ RedoClosed(m, C) => u \in C}

AppliedTops(m, S) == {Max(m.below[p]) : p \in {q \in S : m.below[q] # {}}}
UnappliedHeads(m, S) ==
    {Min(At(m, p) \ m.below[p]) : p \in {q \in S : m.below[q] # At(m, q)}}

(* Mutant: the turns may leave the scope.                                  *)
AnywhereContained(m, C, scope) == TRUE

Contained(m, C, scope) == \A t \in C : m.indexed[t].positions \subseteq scope

(* Global undo has no scope to stay in; a scoped one that would leave its  *)
(* scope is refused by resolving to nothing.                               *)
ResolvedUndo(m, scope) ==
    LET tops == AppliedTops(m, scope) IN
    IF tops = {} THEN {}
    ELSE LET C == UndoClosure(m, Max(tops)) IN
         IF scope = Positions \/ Contained(m, C, scope) THEN C ELSE {}

ResolvedRedo(m, scope) ==
    LET heads == UnappliedHeads(m, scope) IN
    IF heads = {} THEN {}
    ELSE LET C == RedoClosure(m, Min(heads)) IN
         IF scope = Positions \/ Contained(m, C, scope) THEN C ELSE {}

(* Mutant: only one of the positions of an undone turn is lowered.         *)
LowerOneFrontier(m, C) ==
    LET first(t) == CHOOSE p \in m.indexed[t].positions : TRUE IN
    [m EXCEPT !.below = [p \in Positions |->
        {t \in m.below[p] : \A c \in C : p = first(c) => t < c}]]

LowerFrontiers(m, C) ==
    [m EXCEPT !.below = [p \in Positions |->
        {t \in m.below[p] : \A c \in C : p \in m.indexed[c].positions => t < c}]]

RaiseFrontiers(m, C) ==
    [m EXCEPT !.below = [p \in Positions |->
        {t \in At(m, p) : \/ t \in m.below[p]
                          \/ \E c \in C : p \in m.indexed[c].positions /\ t <= c}]]

-----------------------------------------------------------------------------
(* The notifier queue and what a flush makes of it                         *)

(* An entry is [class, designated, promised, old, new, by]: who wrote      *)
(* (authored, realized, or the compensation of transaction `by'), whether  *)
(* undoable() was running, and the endpoints.  Writes of one class to a    *)
(* leaf coalesce at the tail, and the metadata of the later one stays:     *)
(* `promised' remembers, for the properties, that one of them was          *)
(* designated.                                                             *)
Coalesced(tail, entry) ==
    [entry EXCEPT !.old = tail.old, !.promised = tail.promised \/ @]

Enqueue(waiting, c, entry) ==
    IF waiting # <<>> /\ c \notin Rows /\ Last(waiting).class = entry.class
    THEN Append(SubSeq(waiting, 1, Len(waiting) - 1),
                Coalesced(Last(waiting), entry))
    ELSE Append(waiting, entry)

InQueue(class) == {c \in Cells : \E i \in DOMAIN queue[c] : queue[c][i].class = class}

(* flush() skips an entry whose value came back to where it started.       *)
Delivered(waiting) == {i \in DOMAIN waiting : waiting[i].old # waiting[i].new}

(* enqueueEffect: one effect per cell, from the oldest before to the newest *)
(* after, and none when they meet.                                         *)
NetEffect(c) ==
    LET D == Delivered(queue[c]) IN
    {e \in {[before |-> queue[c][Min(D)].old, after |-> queue[c][Max(D)].new] :
                d \in D} : ~Agrees(c, e.before, e.after)}

FlushedEffects ==
    [c \in {d \in Cells : NetEffect(d) # {}} |-> CHOOSE e \in NetEffect(c) : TRUE]

(* Cells that an ordinary write of this tick names.                        *)
AuthoredCells ==
    {c \in Cells : \E i \in Delivered(queue[c]) : queue[c][i].class = "authored"}

TickDesignated ==
    \E c \in AuthoredCells : \E i \in Delivered(queue[c]) : queue[c][i].designated

(* A turn has the positions and subjects that authored writes named, and   *)
(* those of its effects when none named any.  `over' remembers, for the    *)
(* properties, which of its cells it found loose.                          *)
CapturedTurn ==
    LET rows == IF AuthoredCells \cap Rows # {} THEN AuthoredCells
                                                 ELSE DOMAIN FlushedEffects
    IN  [effects   |-> FlushedEffects,
         positions |-> {Owner[c] : c \in AuthoredCells},
         subjects  |-> rows \cap Rows,
         over      |-> loose \cap DOMAIN FlushedEffects]

(* What external truth a leaf holds once an entry on it has been read: a   *)
(* rollback's write hands back what its transaction displaced, a           *)
(* realization sets it, and otherwise history owns the leaf.               *)
Provenance(c, entry) ==
    CASE entry.class = "realized" -> {entry.new}
      [] entry.class = "compensation" ->
            IF entry.by \in DOMAIN superseded /\ c \in DOMAIN superseded[entry.by]
            THEN {superseded[entry.by][c]} ELSE {}
      [] OTHER -> {}

(* `read' gives, per leaf, the indices of the entries that are read: the   *)
(* last one decides, and a leaf none is read for keeps what it has.        *)
Reattributed(known, read) ==
    LET held(c) == IF read[c] # {} THEN Provenance(c, queue[c][Max(read[c])])
                   ELSE IF c \in DOMAIN known THEN {known[c]} ELSE {}
    IN  [c \in {d \in Cells \ Rows : held(d) # {}} |-> CHOOSE v \in held(c) : TRUE]

DeliveredAuthority ==
    Reattributed(external, [c \in Cells \ Rows |-> Delivered(queue[c])])

(* Mutant: a realization is external truth only once it is delivered.      *)
DeliveredAuthorityOnly(known) == known

(* readQueuedExternalAuthority reads the queue without draining it, and    *)
(* skips what rollbacks wrote.                                             *)
QueuedAuthority(known) ==
    Reattributed(known, [c \in Cells \ Rows |->
        {i \in DOMAIN queue[c] : queue[c][i].class # "compensation"}])

(* Rows that are gone and that no transaction claims.                      *)
Retired ==
    {r \in Rows : visible[r] = "gone"
        /\ \A id \in DOMAIN transactions : r \notin DOMAIN transactions[id].effects}

(* What the delivery of the queue and the onFlush listener leave.  Only a  *)
(* designated tick with a net effect becomes a turn.                       *)
Flushed ==
    LET recorded == TickDesignated /\ FlushedEffects # EmptyMap /\ MaxHistory > 0
        written == {c \in Cells : \E i \in Delivered(queue[c]) :
                        queue[c][i].class # "compensation"}
    IN  [manager  |-> IF recorded THEN AddEntry(manager, CapturedTurn, Retired)
                                  ELSE manager,
         external |-> DeliveredAuthority,
         loose    |-> IF recorded THEN loose \ DOMAIN FlushedEffects
                                  ELSE loose \cup written]

EmptyQueue == [c \in Cells |-> <<>>]

-----------------------------------------------------------------------------
(* Applying turns: applyTurnEffectsThroughRealizationPort                  *)

Touching(m, S, c) == {t \in S : c \in DOMAIN m.indexed[t].effects}
Touched(m, S) == {c \in Cells : Touching(m, S, c) # {}}

(* The endpoints the effects of U undone and of R redone install.          *)
Endpoints(m, U, R, c) ==
    {m.indexed[t].effects[c].before : t \in Touching(m, U, c)} \cup
    {m.indexed[t].effects[c].after : t \in Touching(m, R, c)}

(* Undo runs downwards and before redo runs upwards: the last one stands.  *)
FinalValue(m, U, R, c) ==
    IF Touching(m, R, c) # {}
    THEN m.indexed[Max(Touching(m, R, c))].effects[c].after
    ELSE m.indexed[Min(Touching(m, U, c))].effects[c].before

OverlapsPending(cells) ==
    \E id \in DOMAIN transactions :
        transactions[id].watched /\ cells \cap DOMAIN transactions[id].effects # {}

ExternalConflict(m, known, seen, U, R) ==
    \E c \in Touched(m, U \cup R) \cap DOMAIN known :
        seen[c] = known[c] /\ \E v \in Endpoints(m, U, R, c) : v # seen[c]

(* A row is restored only where it is not live and removed only where it   *)
(* is; the first effect on it meets the tree.  A subject that was let go   *)
(* is restored too, from the value its effect carries: what is lost is     *)
(* what its holders held.                                                  *)
StructuralDrift(m, seen, U, R) ==
    \E r \in Touched(m, U \cup R) \cap Rows :
        LET met == IF Touching(m, U, r) # {}
                   THEN m.indexed[Max(Touching(m, U, r))].effects[r].after
                   ELSE m.indexed[Min(Touching(m, R, r))].effects[r].before
        IN  LiveRow(seen[r]) # LiveRow(met)

(* s is [visible, manager, external, loose, touched, threw].  A frame that *)
(* both undoes and redoes is installed as a target, and keeps the          *)
(* provenance.                                                             *)
Apply(s, U, R) ==
    LET m == s.manager
        cells == Touched(m, U \cup R)
        known == QueuedAuthority(s.external)
    IN  IF U \cup R = {} THEN s
        ELSE IF \/ OverlapsPending(cells)
                \/ ExternalConflict(m, known, s.visible, U, R)
                \/ StructuralDrift(m, s.visible, U, R)
        THEN [s EXCEPT !.external = known, !.threw = TRUE]
        ELSE [s EXCEPT
                !.visible = [c \in Cells |-> IF c \in cells
                                THEN Installed(c, FinalValue(m, U, R, c)) ELSE @[c]],
                !.external = IF U # {} /\ R # {} THEN known
                             ELSE Without(known, cells \ Rows),
                !.touched = @ \cup cells,
                !.loose = (@ \ cells) \cup
                    {c \in cells : Touching(m, R, c) = {}
                        /\ c \in m.indexed[Min(Touching(m, U, c))].over}]

(* The turns a temporal view shows: those up to the index it jumped to.    *)
Shown(m, t) ==
    IF m.temporal THEN HistoryIndex(Ids(m), t) <= m.currentIndex
                  ELSE TurnApplied(m, t)

(* Mutant: undo starts from what the temporal view shows.                  *)
StayInTemporalView(s) == [s EXCEPT !.manager.temporal = FALSE]

RestoreVisibleStateToConfirmed(s) ==
    LET m == s.manager
        U == {t \in Ids(m) : Shown(m, t) /\ ~TurnApplied(m, t)}
        R == {t \in Ids(m) : ~Shown(m, t) /\ TurnApplied(m, t)}
        moved == Apply(s, U, R)
    IN  IF ~m.temporal THEN s
        ELSE IF moved.threw THEN moved
        ELSE [moved EXCEPT !.manager.temporal = FALSE]

UndoAt(s, scope) ==
    LET C == ResolvedUndo(s.manager, scope)
        shown == RestoreVisibleStateToConfirmed(s)
        undone == Apply(shown, C, {})
    IN  IF C = {} THEN s
        ELSE IF shown.threw THEN shown
        ELSE IF undone.threw THEN undone
        ELSE [undone EXCEPT !.manager = LowerFrontiers(@, C)]

RedoAt(s, scope) ==
    LET C == ResolvedRedo(s.manager, scope)
        shown == RestoreVisibleStateToConfirmed(s)
        redone == Apply(shown, {}, C)
    IN  IF C = {} THEN s
        ELSE IF shown.threw THEN shown
        ELSE IF redone.threw THEN redone
        ELSE [redone EXCEPT !.manager = RaiseFrontiers(@, C)]

JumpTo(s, index) ==
    LET shown == RestoreVisibleStateToConfirmed(s)
        m == shown.manager
        U == {t \in Ids(m) : HistoryIndex(Ids(m), t) > index /\ TurnApplied(m, t)}
        R == {t \in Ids(m) : HistoryIndex(Ids(m), t) <= index /\ ~TurnApplied(m, t)}
        moved == Apply(shown, U, R)
    IN  IF shown.threw THEN shown
        ELSE IF moved.threw THEN moved
        ELSE [moved EXCEPT !.manager.currentIndex = index, !.manager.temporal = TRUE]

-----------------------------------------------------------------------------
(* What an instance lets happen                                            *)

(* Situations in which the code departs from a property are named, and an  *)
(* instance meets one only if Lets names it.                               *)
Unless(situation, avoided) == situation \in Lets \/ avoided

Realizes(q) == \E c \in Cells : \E i \in DOMAIN q[c] : q[c][i].class # "authored"
Designates(q) == \E c \in Cells : \E i \in DOMAIN q[c] : q[c][i].designated

(* Leaves whose external truth a rollback displaced and gives back only    *)
(* when its write is delivered.                                            *)
ToBeHandedBack ==
    {c \in Cells : \E i \in DOMAIN queue[c] :
        /\ queue[c][i].class = "compensation"
        /\ queue[c][i].by \in DOMAIN superseded
        /\ c \in DOMAIN superseded[queue[c][i].by]}

(* A row that the history names in a turn the next insertion discards.     *)
NamedByDiscarded(r) ==
    \E t \in Ids(manager) : /\ r \in manager.history[t].subjects
                            /\ ~(TurnApplied(manager, t) /\ Shown(manager, t))

-----------------------------------------------------------------------------
(* Actions                                                                 *)

Init ==
    /\ visible \in [Cells -> Values \cup {"live", "unborn"}]
    /\ \A c \in Cells : visible[c] \in IF c \in Rows THEN {"live", "unborn"}
                                                    ELSE {InitialValue}
    /\ queue = EmptyQueue
    /\ manager = InitialManager
    /\ external = EmptyMap
    /\ transactions = EmptyMap
    /\ superseded = EmptyMap
    /\ opened = 0
    /\ loose = {}
    /\ overtaken = {}
    /\ server = {}

NextValues(c) == CASE c \notin Rows -> Values \ {visible[c]}
                   [] visible[c] = "unborn" -> {"live"}
                   [] visible[c] = "live" -> {"gone"}
                   [] OTHER -> {}

(* Writes that a transaction did not make and that land on its cells.      *)
Overwritten(cells) ==
    [id \in DOMAIN transactions |->
        [transactions[id] EXCEPT !.later = @ \cup (cells \cap DOMAIN transactions[id].effects)]]

Waiting == {w \in Cells \X (1..MaxQueued) : w[2] \in DOMAIN queue[w[1]]}

(* A write outside of transactions: authored, under undoable() or not, or  *)
(* realized.                                                               *)
Write(c, v, kind) ==
    LET entry == [class      |-> IF kind = "realized" THEN kind ELSE "authored",
                  designated |-> kind = "designated",
                  promised   |-> kind = "designated",
                  old |-> visible[c], new |-> v, by |-> 0]
        written == [queue EXCEPT ![c] = Enqueue(@, c, entry)]
    IN  /\ kind = "realized" => c \notin Rows
        /\ Cardinality(Waiting) < MaxQueued
        /\ kind = "designated" => manager.nextTurnId <= MaxTurnId
        /\ Unless("jump_over_truth", kind = "realized" => ~manager.temporal)
        /\ Unless("undelivered_rollback", kind = "realized" =>
                    c \notin InQueue("compensation"))
        /\ Unless("realized_round_trip", kind = "realized" =>
                    Last(written[c]).old # v)
        /\ Unless("mixed_tick", ~(Designates(written) /\ Realizes(written)))
        /\ Unless("reremoval", Designates(written) =>
                    \A r \in Rows : written[r] # <<>> => ~NamedByDiscarded(r))
        /\ Unless("unshown_redo", kind = "designated" =>
                    ~(manager.temporal /\ HasScopedRedoFuture(manager)))
        /\ visible' = [visible EXCEPT ![c] = v]
        /\ queue' = written
        /\ server' = IF kind = "realized" THEN server \cup {c} ELSE server \ {c}
        /\ transactions' = Overwritten({c})
        /\ UNCHANGED <<manager, external, superseded, opened, loose, overtaken>>

(* What rollbacks displaced is handed back when their writes are delivered. *)
Flush ==
    /\ queue # EmptyQueue
    /\ manager' = Flushed.manager
    /\ external' = Flushed.external
    /\ loose' = Flushed.loose
    /\ queue' = EmptyQueue
    /\ superseded' = Restrict(superseded, DOMAIN transactions \cap DOMAIN superseded)
    /\ UNCHANGED <<visible, transactions, opened, overtaken, server>>

(* transact() up to the staging of its contribution: the queue is flushed  *)
(* on entry, the writes are captured into the transaction's own bucket,    *)
(* and a designated one is held as a pending turn.                         *)
Transact(writes, designated) ==
    LET F == Flushed
        cells == DOMAIN writes
        id == opened + 1
        effects == [c \in cells |-> [before |-> visible[c], after |-> writes[c]]]
        turn == [effects   |-> effects,
                 positions |-> {Owner[c] : c \in cells},
                 subjects  |-> cells \cap Rows,
                 over      |-> F.loose \cap cells]
        held == designated /\ MaxHistory > 0
    IN  /\ opened < MaxOpened
        /\ held => F.manager.nextTurnId <= MaxTurnId
        /\ \A c \in cells : writes[c] \in NextValues(c)
        /\ opened' = id
        /\ queue' = EmptyQueue
        /\ manager' = IF held THEN CreatePendingEntry(F.manager, turn) ELSE F.manager
        /\ external' = Without(F.external, cells)
        /\ superseded' = SetKey(
                Restrict(superseded, DOMAIN transactions \cap DOMAIN superseded), id,
                Restrict(F.external, cells \cap DOMAIN F.external))
        /\ transactions' = SetKey(Overwritten(cells), id,
                [effects   |-> effects,
                 turn      |-> IF held THEN F.manager.nextTurnId ELSE 0,
                 watched   |-> TRUE,
                 later     |-> {},
                 wasLoose  |-> cells \cap F.loose,
                 wasServer |-> cells \cap server])
        /\ visible' = [c \in Cells |-> IF c \in cells THEN writes[c] ELSE visible[c]]
        /\ loose' = F.loose \cup cells
        /\ server' = server \ cells
        /\ UNCHANGED overtaken

(* The turn is admitted, and then the transaction lets go of its rows.     *)
(* `overtaken' remembers, for the properties, the cells that others wrote  *)
(* while it was pending.                                                   *)
Confirm(id) ==
    LET tx == transactions[id]
        left == Without(transactions, {id})
        held == tx.turn \in DOMAIN manager.pendingTurns
        admitted == IF held THEN ConfirmPendingTurn(manager, tx.turn, Retired)
                            ELSE manager
        claimed == (UNION {admitted.claims[t] : t \in DOMAIN admitted.claims})
                   \cup (UNION {DOMAIN left[x].effects : x \in DOMAIN left})
        unclaimed == {r \in Rows \cap DOMAIN tx.effects :
                        visible[r] = "gone" /\ r \notin claimed}
    IN  /\ id \in DOMAIN transactions
        /\ Unless("reremoval", \A r \in Rows : queue[r] = <<>>)
        /\ Unless("unshown_redo",
                  held => ~(manager.temporal /\ HasScopedRedoFuture(manager)))
        /\ manager' = [admitted EXCEPT !.forgotten = @ \cup unclaimed]
        /\ loose' = IF held THEN loose \ (DOMAIN tx.effects \ tx.later) ELSE loose
        /\ overtaken' = IF held
                THEN overtaken \cup ({tx.turn} \X (tx.later \cap DOMAIN tx.effects))
                ELSE overtaken
        /\ transactions' = left
        /\ superseded' = Without(superseded, {id})
        /\ UNCHANGED <<visible, queue, external, opened, server>>

(* A rollback that TransactionAuthority lets through: nothing was written  *)
(* over it.  It takes the writes back through the realization port, and    *)
(* the turn it held is discarded.                                          *)
Rollback(id) ==
    LET tx == transactions[id]
        entry(c) == [class |-> "compensation", designated |-> FALSE,
                     promised |-> FALSE, old |-> visible[c],
                     new |-> Installed(c, tx.effects[c].before), by |-> id]
        compensated == [c \in Cells |-> IF c \in DOMAIN tx.effects
                            THEN Enqueue(queue[c], c, entry(c)) ELSE queue[c]]
    IN  /\ id \in DOMAIN transactions
        /\ tx.later = {}
        /\ Unless("mixed_tick", ~Designates(queue))
        /\ visible' = [c \in Cells |-> IF c \in DOMAIN tx.effects
                            THEN Installed(c, tx.effects[c].before) ELSE visible[c]]
        /\ queue' = compensated
        /\ manager' = DiscardPendingTurn(manager, tx.turn)
        /\ transactions' = Without(transactions, {id})
        /\ loose' = (loose \ DOMAIN tx.effects) \cup tx.wasLoose
        /\ server' = server \cup tx.wasServer
        /\ UNCHANGED <<external, superseded, opened, overtaken>>

Now == [visible |-> visible, manager |-> manager, external |-> external,
        loose |-> loose, touched |-> {}, threw |-> FALSE]

(* The steps below the public undo, redo and jump do not look at the       *)
(* rollbacks that wait in the queue.  What navigation itself writes is     *)
(* left out of the queue, for its subscriber passes over it; where such a  *)
(* write meets a rollback's entry of its leaf, the two become one without  *)
(* metadata, which gives the leaf to history as the rollback's entry does  *)
(* when it has nothing to hand back.                                       *)
Navigate(s) ==
    /\ Unless("undo_over_queue", InQueue("authored") = {})
    /\ Unless("undelivered_rollback", s.touched \cap ToBeHandedBack = {})
    /\ visible' = s.visible
    /\ manager' = s.manager
    /\ external' = s.external
    /\ loose' = s.loose
    /\ server' = server \ s.touched
    /\ UNCHANGED <<queue, transactions, superseded, opened, overtaken>>

Undo(scope) == ResolvedUndo(manager, scope) # {} /\ Navigate(UndoAt(Now, scope))
Redo(scope) == ResolvedRedo(manager, scope) # {} /\ Navigate(RedoAt(Now, scope))

Jump(index) ==
    /\ index \in 0..(Cardinality(Ids(manager)) - 1)
    /\ Unless("jump_over_truth",
            server = {} /\ \A id \in DOMAIN transactions : transactions[id].wasServer = {})
    /\ Navigate(JumpTo(Now, index))

Reset ==
    /\ manager.nextTurnId > 1
    /\ Unless("reremoval", \A r \in Rows : queue[r] = <<>>)
    /\ manager' = ResetRestorationHistory(manager, Retired)
    /\ external' = EmptyMap
    /\ superseded' = EmptyMap
    /\ transactions' = [id \in DOMAIN transactions |->
            [transactions[id] EXCEPT !.turn = 0, !.watched = FALSE]]
    /\ overtaken' = {}
    /\ UNCHANGED <<visible, queue, opened, loose, server>>

TransactedWrites == UNION {[S -> Values \cup {"live", "gone"}] :
                            S \in {T \in SUBSET Cells : Cardinality(T) \in 1..2}}

Next ==
    \/ \E c \in Cells, kind \in WriteKinds : \E v \in NextValues(c) : Write(c, v, kind)
    \/ Flush
    \/ \E writes \in TransactedWrites, designated \in BOOLEAN :
            Transact(writes, designated)
    \/ \E id \in DOMAIN transactions : Confirm(id) \/ Rollback(id)
    \/ \E scope \in Scopes : Undo(scope) \/ Redo(scope)
    \/ \E index \in 0..(MaxHistory - 1) : Jump(index)
    \/ Reset

Spec == Init /\ [][Next]_vars

-----------------------------------------------------------------------------
(* Properties                                                              *)

Endpoint == Values \cup {"live", "unborn", "gone"}
TurnIds == 1..MaxTurnId

IsTurn(turn) ==
    /\ DOMAIN turn.effects \subseteq Cells
    /\ \A c \in DOMAIN turn.effects :
            {turn.effects[c].before, turn.effects[c].after} \subseteq Endpoint
    /\ turn.positions \subseteq Positions /\ turn.positions # {}
    /\ turn.subjects \subseteq Rows

Entry == [class : {"authored", "realized", "compensation"}, designated : BOOLEAN,
          promised : BOOLEAN, old : Endpoint, new : Endpoint, by : Nat]

IsStaged(tx) ==
    /\ DOMAIN tx.effects \subseteq Cells
    /\ \A c \in DOMAIN tx.effects :
            {tx.effects[c].before, tx.effects[c].after} \subseteq Endpoint
    /\ tx.wasLoose \cup tx.wasServer \subseteq Cells

(* The variables have their types: the manager's maps are keyed by turn    *)
(* ids, a frontier is a set of indexed turns of its position, and the      *)
(* index is that of the retained history.                                  *)
TypeOK ==
    /\ visible \in [Cells -> Endpoint]
    /\ queue \in [Cells -> Seq(Entry)]
    /\ Ids(manager) \cup DOMAIN manager.pendingTurns \subseteq TurnIds
    /\ \A t \in Ids(manager) : IsTurn(manager.history[t])
    /\ \A t \in DOMAIN manager.pendingTurns : IsTurn(manager.pendingTurns[t])
    /\ Cardinality(Ids(manager)) <= MaxHistory
    /\ manager.indexed = manager.history
    /\ \A p \in Positions : manager.below[p] \subseteq At(manager, p)
    /\ manager.currentIndex \in -1..(Cardinality(Ids(manager)) - 1)
    /\ DOMAIN external \subseteq Cells \ Rows
    /\ DOMAIN transactions \subseteq 1..opened /\ opened \in 0..MaxOpened
    /\ \A id \in DOMAIN transactions : IsStaged(transactions[id])
    /\ loose \cup server \subseteq Cells
    /\ overtaken \subseteq TurnIds \X Cells

(* A turn is applied at all of its positions or at none, and a frontier is *)
(* a prefix of its position's turns: what assertTurnStatusConsistency      *)
(* checks in development after every undo and redo (R:1119), here also     *)
(* after truncation, eviction and late confirmation rebuild the frontiers. *)
StatusConsistent ==
    /\ \A t \in DOMAIN manager.indexed : \A p, q \in manager.indexed[t].positions :
            t \in manager.below[p] <=> t \in manager.below[q]
    /\ \A p \in Positions : \A t \in manager.below[p] :
            \A u \in At(manager, p) : u < t => u \in manager.below[p]

(* A settled cell holds what the history says: the end of the last turn    *)
(* shown that touched it, or the start of the first when none is shown,    *)
(* unless a write that no retained turn records came in between, or the    *)
(* turn was written over before it was confirmed.                          *)
FrontierMeetsState ==
    \A c \in Cells \ loose :
        LET named == {t \in Ids(manager) : c \in DOMAIN manager.history[t].effects}
            shown == {t \in named : Shown(manager, t)}
        IN  /\ queue[c] = <<>> /\ named # {}
            /\ shown # {} => <<Max(shown), c>> \notin overtaken
            => Agrees(c, visible[c],
                   IF shown # {} THEN manager.history[Max(shown)].effects[c].after
                                 ELSE manager.history[Min(named)].effects[c].before)

(* The claims that keep retired rows restorable are those of the retained  *)
(* turns and no others: an entry that leaves the history by eviction,      *)
(* truncation or reset takes its claim with it.                            *)
ClaimsFollowHistory ==
    manager.claims = [t \in Ids(manager) |-> manager.history[t].subjects]

(* No turn that can still be undone or redone, or that may still be        *)
(* confirmed, names a row whose backing was let go.                        *)
NamedSubjectsAreKept ==
    \A turn \in {manager.history[t] : t \in Ids(manager)} \cup
                {manager.pendingTurns[t] : t \in DOMAIN manager.pendingTurns} :
        turn.subjects \cap manager.forgotten = {}

Navigating ==
    \/ \E scope \in Scopes : Undo(scope) \/ Redo(scope)
    \/ \E index \in 0..(MaxHistory - 1) : Jump(index)

(* No undo, redo or jump changes a leaf whose value the application        *)
(* realized and nothing has been authored over since, delivered or not,    *)
(* also when a transaction displaced it and was rolled back: outside of    *)
(* undelivered_rollback, from the delivery of the rollback's write on.     *)
ExternalTruthIsNeverUndone ==
    [][(\E c \in server : visible'[c] # visible[c]) => ~Navigating]_vars

(* Turns leave the history only in a step that admits another one to it,   *)
(* or at a reset: opening, staging or rolling back a transaction, writing  *)
(* without undoable(), and confirming a turn that a full history evicts at *)
(* once keep the redo future.                                              *)
RedoOnlyReplacedByAdmittedWork ==
    [][\A t \in Ids(manager) \ Ids(manager)' :
            \/ manager'.history = EmptyMap /\ manager'.nextTurnId = 1
            \/ \E u \in Ids(manager)' : u \notin Ids(manager)]_vars

(* Undo and redo at a scope, out of a temporal view, change only cells     *)
(* that the scope contains, and a pending transaction's cells never.       *)
ScopeContainment ==
    [][\A scope \in Scopes :
        (\E c \in Cells :
            /\ visible'[c] # visible[c]
            /\ \/ ~manager.temporal /\ Owner[c] \notin scope
               \/ \E id \in DOMAIN transactions : transactions[id].watched /\
                    c \in DOMAIN transactions[id].effects)
        => ~(Undo(scope) \/ Redo(scope))]_vars

(* One designated write makes its whole tick undoable.                     *)
DesignationIsKept ==
    [][Flush /\ MaxHistory > 0 /\
        (\E c \in DOMAIN FlushedEffects : \E i \in DOMAIN queue[c] :
            queue[c][i].class = "authored" /\ queue[c][i].promised)
       => manager'.nextTurnId > manager.nextTurnId]_vars
=============================================================================
