# SignalTree: models, checks and proofs

SignalTree is a reactive state library: a tree of signals, with transactions
that can be rolled back, bindings of locations to external storage (links),
undo and redo, and entity collections. This directory holds TLA+ modules of the
part of it that decides *what may be undone, what must be sent, and when*. All
paths below are relative to `packages/kernel/src/` unless they start with
`docs/`; line numbers are those of the modelled commit. `PROJECT.json` gives
the lines behind every definition.

## 1. Inventory

The program is single-threaded JavaScript. Handlers run to their end, and the
hard behaviour is in the *order of handlers*: direct calls, callbacks that call
back, microtasks, and answers of an endpoint.

| Component (source) | State | Operations | Works with | What makes it correct |
|---|---|---|---|---|
| Transaction ledger (`TransactionAuthority` in `enhancers/transactions/transactions.ts`) | pending and confirmed turns, their stamps, realizations, queued evidence, claims, retention | create, confirm, discard, record, observe, retain, read the plan | called by the runtime only | a pending turn can read everything that landed after it opened, in order; nothing is kept for longer |
| Transaction runtime (same file) | handles, capture buckets, destroyed | `transact`, settle a handle, the `'**'` subscriber, cleanup | ledger, notifier, gate, realization adapter | a rejection takes back exactly its own writes or is refused |
| Path notifier (`lib/path-notifier.ts`) | queue by path, flush flag | notify, flush, flushSync, subscribe | everyone who writes or listens | what is delivered is enough for those who decide later |
| Owned mutation, write context, `external` (`lib/internals/owned-mutation.ts`, `lib/write-context.ts`, `lib/external.ts`) | the active context | write, derive, mark as external | notifier | every write carries its owner and its intent |
| Realization adapter (`lib/internals/causal-runtime/tree-realization-adapter.ts`) | none | plan and commit a frame of effects | transactions, restoration | all of a frame or nothing |
| Durable-consequence gate (`lib/internals/commit-consequence.ts`) | open scopes, deferred and held consequences, listeners | open, defer, schedule, settle, cancel, listen | opened and settled by transactions, used by links | speculative work is never made durable; nothing is lost or stranded |
| Link (`lib/link.ts`) | eligible value, known endpoint value, promise chain, waiters | flush, send loop, acquire, retrieve, settled, dispose | notifier, gate, endpoint | both sides converge; a rolled-back value is never sent |
| Entity egress projection (`lib/internals/entity-egress-projection.ts`) | subject-keyed shadow of a collection | apply, reorder, reseed | link | the value sent for a collection is its eligible value |
| Causal runtime (`lib/internals/causal-runtime/`) | turn store, applied-turn projection; none of its own between two calls of a rollback or a transition | derive an order delta, derive and install a target, choose what a rollback compensates | transactions, restoration | the target is exactly the other end of the turn, or nothing moves |
| Restoration (`enhancers/restoration/restoration.ts`, `lib/undoable.ts`) | turns by id, a frontier per position, pending turns, the index of a temporal view, external truth by path, claims | capture a tick, stage and confirm, undo, redo, jump, reset | notifier, transactions, realization adapter, reclamation | the frontiers describe the tree; undo and redo are inverse, or refused; what the server said is not undone |
| Entity collections, structural store (`lib/entity-signal.ts`, `lib/physical/structural-store.ts`, `lib/markers/entity-map.ts`) | rows, keys, subjects' states, order and its frontier | add, prepend, bulk add, remove, rekey, replace all, restore, install a target | notifier, transactions, restoration, reclamation | a key names at most one live row; a row comes back where it was |
| Subject claims and reclamation (`lib/internals/subject-restoration-claims.ts`, `.../subject-reclamation-coordinator.ts`) | claims per removed row | claim, release, reclaim | ledger, restoration | a removed row is kept exactly while some turn may restore it |
| Physical value pool (`lib/physical/physical-value-pool.ts`) | values by slot, reference counts | retain, release | structural store | no slot is freed in use |
| Location runtime, position registry (`lib/internals/`) | positions, owners, invalidation groups | allocate, replace, reactivate | everything addressed by position | an identity is not reused for another location |
| Batching (`enhancers/batching/batching.ts`) | timers, pending set | batch, flush | notifier | every notification is delivered once |
| Tree construction, invalidation, diagnostics, devtools, framework adapters, types | mostly derived | | | not protocols, see section 9 |

**Hard behaviours.** No crash and no lost message: nothing here persists its own
protocol state and calls do not get lost. What is hard is listed, each at its
line, under `hazards` in `PROJECT.json`. The main ones:

* the notifier's queue is the only trace of a write until a flush, and a flush
  drops entries that are back at their old value;
* the ledger clock is reset, records are evicted, and evidence comes from two
  stores that have to be merged by that clock;
* turns on one location may be settled in any order, and a rollback may be
  refused and retried at any time;
* settling a scope runs user code that opens and settles other scopes;
* the history of undo and redo has a frontier per position, and turns enter it
  late, leave it by eviction and truncation, and are looked at from a temporal view
  that moves the tree and not the frontiers;
* a structural turn records the neighbours of its rows when they are written and is
  taken back after later writes, in one of two ways chosen by what is live then;
* a lap of a link's send loop runs in a microtask of its own, with user code,
  other microtasks and late acknowledgements before it;
* a tree is destroyed from within any of these.

## 2. Plan

Done, in this order, the most important behaviour first:

1. `TransactionAuthority` with the abstract `RollbackEvidence`; proofs.
2. `Transactions`, which calls the ledger's methods from the runtime's handlers,
   with the abstract `Proposals`; proofs over the ledger's lemmas.
3. `CommitConsequence`; proofs.
4. `Link`, which composes `Transactions` and `CommitConsequence` with the
   microtask queue and an endpoint.
5. `Restoration`, with the claims that keep removed rows restorable, over the
   notifier's classes of writes and speculative transactions.
6. `StructuralStore`, `StructuralTarget` and `Collection`: the store, the two ways
   of realizing a structural turn, and a collection with its announcements, undo,
   redo and rollback; proofs, over those about the store.

Left:

7. More proofs (below).
8. The entity egress projection and links to collections, as clients of
   `StructuralStore`.
9. Several structural transactions at once, and turns that mix scalar and
   structural effects (`tree-realization-adapter.ts:529-980`): `Collection` over
   `Transactions`.
10. `Link` completed: `retrieve()`, several links of one location, destruction of
    the tree.

Theorems wanted next: `RejectionIsExact` and `ImplementsProposals` of `Transactions`,
which need the captured before-values related to the stacks of standing writes;
`RefusalHasACause` of `Collection`;
`DisposedIsSilent` of the link; `FrontierMeetsState` of `Restoration` for the part that
does not pass through a closure of turns.

## 3. Modules

| Module | What it is |
|---|---|
| `TransactionAuthority` | the ledger class, one operator per method, from a record of its fields to the next |
| `RollbackEvidence` | abstract: every pending turn owns the chronological list of what landed since it opened |
| `TransactionAuthorityProofs` | theorems about the ledger |
| `Foundations`, `Stepwise` | lemmas: greatest and least members of finite sets, the flattening of lists of lists, what a fold preserves |
| `Transactions` | writes, queue, capture, opening, return and failure of callbacks, settlement, destruction; scalar locations |
| `TransactionsProofs` | theorems about the runtime, over those about the ledger |
| `Proposals` | abstract: a cell is a stack of standing writes and shows the top one |
| `CommitConsequence` | the durable-consequence gate, with its call stack |
| `CommitConsequenceProofs` | theorems about the gate |
| `Link` | a link to one scalar location, over all of the above |
| `Restoration` | undo, redo and jump over retained turns, one row per collection |
| `RestorationProofs` | theorems about the history of restoration, and about the rows it keeps restorable |
| `StructuralStore` | the store of one collection: keys, subjects' states, chain |
| `StructuralTarget` | the net of a tick, order deltas, and the two ways of realizing a turn |
| `Collection` | one collection with several rows: writes, announcements, capture, undo, redo, one transaction |
| `StructuralProofs` | lemmas about the store: what each operation, each realization and each target leave |
| `CollectionProofs` | theorems about the collection |
| `MC...` | instances for TLC |

### TransactionAuthority

The object is one record, `authority`, with one field per private field of the
class that matters (`pendingTurns`, `confirmedTurns`, `confirmedAtSeq`, ...).
The confirmed array, which the code keeps sorted by id, is a function from id to
turn. Every method (`RecordConfirmed`, `CreatePending`, `ObserveLaterEffects`,
`ObserveQueuedEffects`, `ConfirmPending`, `DiscardPending`,
`SetHistoryRetention`) is an operator that includes the trailing
`releaseLedgerIfQuiet` and `releaseConfirmedBeyondObligation`, and an action
`Do...` for the caller. `LaterEffects` is what `getPendingRollbackPlan` reads.
Effects are opaque.

### Transactions

| Program | Model |
|---|---|
| a write through a signal, `emitOwnedMutation`, `notify` | `AuthoredWrite`, `RealizedWrite` (inside `external`) |
| coalescing by path and identity, `enqueuePending` | `Enqueue`, `SameIdentity` |
| the flush microtask, the subscriber, `recordConfirmedBucket` | `Flush`, `Delivered`, `FlushOrdinary` |
| `transact(fn)` up to `fn`, the return of `fn`, a throw | `Open`, `CallbackReturns`, `CallbackThrows` |
| `handle.confirm()`, `handle.rollback()` | `HandleConfirm`, `HandleRollback` |
| `buildPendingRollbackPlan` (scalar part) | `Conflict`, `Compensation` |
| `planScalarFrame` | `Compensated`, `EnqueueCompensation` |
| the runtime's cleanup | `Destroy` |

Two histories stand beside the program's variables: `layers`, the stack of
standing writes of each cell, and `touched`. `Proposals` is instantiated with
`layers`, with the tree as what is shown and with the lifecycles of the handles.

### CommitConsequence

`gate` is the four registries; `frames` is the call stack of
`settleCommitScope`, so that every call a consequence or a listener may make of
the gate is an action between two steps of the settlement in progress. Which
error is rethrown at the end changes no state and is left out. Listeners are
told in any order.

### Link

`link` is the closure's variables; `micro` the microtask queue with flushes,
laps and looks; `endpoint` the outside and the one send in flight; `waiter` a
call of `settled()`. A continuation of the chain takes a few microtasks in the
program, and `Hop` lets it take any number. Stale flushes (the queue was flushed
synchronously after the microtask was asked for) stay in `micro` and find
nothing, or find the next entries early. The endpoint may apply a send and
answer later (`Land`, `Acknowledge`), fail with or without having applied it
(`Refuse`), and change and emit by itself (`Emit`).

### Restoration

A cell is a leaf or a row. `manager` is the private state of `RestorationManager`;
the history array, sorted by id, is a function from id to turn, and a position's
frontier, in the code a length, is the set of turns below it.

| Program | Model |
|---|---|
| a write, under `undoable()` or not, or inside `external` | `Write` with kind `designated`, `plain` or `realized` |
| `flush()`, `captureIntoBucket`, the `onFlush` listener | `Flush`, `Flushed`, `CapturedTurn`, `DeliveredAuthority` |
| `addEntry`, `insertConfirmedTurn`, `prepareConfirmedInsertion`, `truncateScopedRedoFuture`, `rebuildTurnIndexes` | the operators of those names |
| staging, confirmation and discarding of a speculative turn | `Transact`, `Confirm`, `Rollback` |
| `resolveUndoClosure`, `resolveRedoClosure` and their scopes | `UndoClosure`, `RedoClosure`, `ResolvedUndo`, `ResolvedRedo` |
| `applyTurnEffectsThroughRealizationPort` with its refusals | `Apply`, `OverlapsPending`, `ExternalConflict`, `StructuralDrift` |
| `undo`, `redo`, `jumpTo`, `resetRestorationHistory` | `Undo`, `Redo`, `Jump`, `Reset` |
| `readQueuedExternalAuthority`, `externalTruthByPath`, `supersededExternalTruth` | `QueuedAuthority`, `external`, `superseded` |
| claims, `offerUnclaimed` | `manager.claims`, `ReleaseRetained`, `manager.forgotten` |

`loose` (cells whose settled value no retained turn accounts for), `overtaken` (cells
that others wrote over while the turn was pending) and `server` (cells last written by
a realization that still stands) are histories that the properties read. Navigation
and rollbacks may follow a rollback in the same tick, before its compensation is
delivered; the one exception is a switch (`undelivered_rollback`, section 4). A
`Rollback` is one that nothing was written over; what a rollback does under later
writes is the matter of `Transactions`, and one that was under a younger transaction
stays out of this module also after the younger one was rolled back. A row has no
neighbours here; order is the matter of `Collection`.

### StructuralStore, StructuralTarget, Collection

`store` is the store's maps with the chain as a sequence. A frontier, in the code a
fresh object, is a number that nothing in the state holds.

| Program | Model |
|---|---|
| `createSubject`, `transferSubject`, `tombstoneSubject`, `restoreSubject`, `reorderActiveKeys`, `moveKeysToFront` | the operators of those names |
| `addOne`, `prependOne`, `addMany`, `prependMany`, `changeId`, `removeOne`/`removeMany`/`clear`, `setAll` | `AddOne` ... `RemoveRows`, `SetAll`, with what each announces |
| the notifier's slots and their coalescing | `EnqueuePending`, `Coalesce`, `Captured` |
| `enqueueEffect` in both enhancers | `EnqueueEffect`, `EnqueueEach` |
| `deriveCollectionOrderDelta`, `applyCollectionOrderDelta` | the operators of those names |
| `requiresDeclarativeStructuralTarget`, `deriveStructuralTargetOrder`, `installPreparedTarget` | the same, `DeclarativeTransition`, `InstallTarget` |
| `canApplyEffect`, `planHeterogeneousFrame` | `CanApplyEffect`, `CommitFrame`, `PhysicalTransition` |
| overlap with later truth, `createPendingRollbackEffects` | `Conflicts`, `Erased`, `PendingRollbackEffects` |

What the instance leaves out, by name: rows have no values, so a replaced row
announces an update that changes nothing; every write is authored and designated;
undo, redo, staging and settlement find an empty queue, and the announcements of a
realization are delivered before the next write; a tree has one of the two
enhancers, and one transaction at a time. `addMany` in mode `skip` is the strict
one with fewer rows, so `Modes` is `strict` or `overwrite`.

## 4. Runs

Figures are distinct states.

| Run | What it asks | Bounds | Result |
|---|---|---|---|
| `ledger_retention` | chronology, retention, latching of evidence, truthfulness of `truncated` | 3 turns, 3 ticks, retain 0..2, two queued values of one location, one row subject | holds, 331,750 |
| `ledger_evidence` | refinement of `RollbackEvidence` | 3 turns, 3 ticks, effect lists that tell an order from its reverse | holds, 14,197 |
| `tx_scalar` | refinement of `Proposals`, one handle per pending turn, refusals justified | 2 cells, 2 transactions, 3 writes, microtasks and external writes anywhere | holds, 693,583 |
| `tx_synchronous` | the same in a script that never yields | 1 cell, 3 transactions, 3 writes, values may return | holds, 1,004,893 |
| `tx_returning` | see section 8 | 1 cell, 1 transaction | violated |
| `gate` | no consequence lost, stranded, run twice or run for a discarded scope; held work is released | 2 scopes, 3 consequences of 2 keys, 1 listener | holds, 215,688 |
| `link` | both sides converge, `settled()` is true, nothing speculative is sent, silence after `dispose()`, arrival | 1 location, 1 transaction, 2 writes | holds, 401,667 |
| `restoration_history` | frontiers consistent and describing the tree; claims are those of the history | a leaf and a row in 2 positions, 2 retained turns of 4, 2 writes per tick | holds, 350,174 |
| `restoration_authority` | external truth and transactions' cells are not navigated over, scopes, the redo future | the same tree, realized writes, 1 transaction, 2 turns | holds, 579,008 |
| `restoration_designation` | see section 8 | 1 turn, 2 writes per tick | violated |
| `collection` | consistency of the store, net evidence, reversal gives back rows, keys and order | 3 keys, 2 initial rows, 4 subjects, 3 writes of every kind | holds, 267,443 |
| `collection_renames` | see section 8 | 4 keys, 2 rows, 3 renames | violated |

**Why these bounds.** *Ledger:* the hazards need a pending turn, a confirmed one
younger than it and one from before the last reset: three turns. With two ticks
a tie is possible, with three also an order. Retention 2 lets one record stay
for history while another stays for a pending turn, and lets the setting shrink
without reaching 0. *Transactions:* the overlap rules
relate a turn, a later pending one and a settled writer: three writes of one
cell. Two cells are needed for delivery by path to differ from the order of the
writes. *Gate:* two scopes suffice to tell the closing of one from the closing
of the last; three consequences, a replaced one and one scheduled by another
while it runs. *Link:* one value in flight and one behind it, and one scope to
open, settle or leave open between any two steps. The same instance with two
transactions and the safety properties alone was also explored once, under
symmetry of the values (about 1.6 million states), without an error; it is left
out of the listed runs for its time. *Restoration:* two retained
turns of four make every insertion after the second an eviction; two positions, one
with a leaf and one with a row, tell a turn at both from one at each, and a scope
from the root. Realized writes and a transaction multiply the states, so they have
their own instance with fewer turns. *Collection:* two rows to start with give a row
a neighbour on either side only in the middle of three, hence a third key; the fourth
subject lets a removed key be taken by a new row; three writes allow a turn of two
followed by a later one, or three turns to walk over.

The type invariants `Transactions!TypeOK`, `Link!LinkTypeOK`, `Restoration!TypeOK`
and `LedgerStaysSound` were checked on these instances too, but are not listed: what
they could catch, the listed properties do.

Every property of a passing run comes with a mutant: an operator *in the module*,
marked `Mutant:` in its comment, that changes one definition as a plausible bug
would, and under which TLC finds the property violated.

`CHECK_DEADLOCK FALSE` is set in all runs: when the bounds are used up, or the
tree has been destroyed, the system stops, as the program does when nobody calls
it.

### Switches

The runs that pass exclude some behaviours by switches that are constants, not
hidden in guards. Turning one on reproduces the
disagreement that section 8 describes:

* `ReturningIn`: where a write may give a cell a value it had left since its last
  delivery. `tx_scalar` says nowhere; `tx_synchronous` says outside callbacks,
  but without microtasks; `tx_returning` shows what happens otherwise. `link` allows it everywhere, for what it asks does not depend on it.
* `SettlesInCallback`, `RejectsUnderWay`, `EmitsInFlight`: off everywhere.
* `EmitsUndelivered`: off everywhere. With it on and `MaxWrites = 2`, the link
  diverges for the reason of `tx_returning`: a write that is not delivered yet is
  echoed by the endpoint and then taken back, the flush drops the entry, and the
  link never hears of it (`path-notifier.ts:447`, `link.ts:443-461`).
* `Lets` of `Restoration` names seven situations, all off: `mixed_tick` (a designated
  and a realized write, or a rollback's, in one tick), `reremoval`, `unshown_redo`,
  `jump_over_truth`, `realized_round_trip`, `undo_over_queue`, and
  `undelivered_rollback`: between a rollback and the delivery of its compensation,
  navigation onto a leaf whose external truth that delivery hands back, or a
  realization of the leaf.
* `Revisits` and `Modes` of `Collection`: off, and `strict` only, in the runs and in the theorems. `Writes` chooses the
  kinds of writes.

`ReversalReturns` and `RefusalHasACause` also have premises, which are operators with
names (`RemovalsAreAnchored`, `AdditionsAreAnchored`, `OrderIsTold`, `AtFrontier`,
`RenamesComeFirst`). Each stands for a disagreement in section 8; most turns satisfy
them, and the other properties of the run have none or `RenamesComeFirst` alone.

## 5. Fairness

* `CommitConsequence`: `WF_vars(Proceed)`. A settlement is synchronous code; once
  entered nothing but itself can keep it from its next step.
* `Link`: weak fairness of the microtasks taken together (the event loop runs its
  queue to the end before anything else) and of the endpoint's answer
  (`Land \/ Acknowledge \/ Refuse`): a `set()` is assumed to resolve or to reject
  some time. A promise that never settles would leave every later send behind it,
  which is not a fault of the link. Nothing is assumed of the user, who need never
  settle a transaction; `OutboundArrives` excuses a tree that is unsettled.
* `TransactionAuthority` and `Transactions` have no liveness property: nothing in
  them happens by itself but `Flush`.

## 6. What is proved

TLAPS checks the following for all values of the constants: any number of turns,
effects, subjects, scopes, keys, listeners, cells and positions, and any bounds.

### Ledger (`TransactionAuthorityProofs`)

From `EffectListsAssumption` and `BoundsAssumption` only:

* `TypeCorrect`: `Spec => []TypeOK`;
* `ChronologyIsAlwaysShared` and `StampsAreAlwaysDistinct`: the clock comparison
  in the rollback plan is right across every reset, and has one answer;
* `ObligationIsAlwaysKept`: no step drops or restamps what a surviving pending turn
  may have to answer for;
* `RetentionAlwaysFollowsResponsibility`: nothing is left of a turn that was settled,
  and at most `historyRetain` confirmed turns are kept for nobody;
* `TruncationIsAlwaysReported`: a record leaves only with the flag that says so;
* `QueuedEvidenceAlwaysLatches`: evidence keeps its place, one entry a key;
* `LedgerImplementsEvidence`: the ledger implements `RollbackEvidence`.

The invariant is `Sound(a) == Typed(a) /\ Chronological(a) /\ Distinct(a)`;
`Typed` also says that the ids in use are below the next id and that no turn is
pending and confirmed at once. Neither of the other two is inductive alone: that a
new stamp is larger than the openings needs the openings to be bounded by the clock, and that a *confirmed* turn is later than the
older pending ones needs the clock not to be reset while one of them is left,
which in turn needs `pendingOpenedAtSeq` to have exactly the pending ids. There is
a frame lemma, a type lemma and a soundness lemma per private step
(`InsertConfirmed`, `ForgetPending`, the two releases), and each method combines
those of its steps; `AuthorityIsSound` combines the methods. Retention adds
`Housekept` (the side maps have only pending ids), `Quiet` (no realization without a
pending turn) and `Bounded` (a cardinality).

For the refinement, each method is either a step of the ledger that simply remembers
or no step. `LaterEffects` is a flattening of one list per tick, each the flattening of
what two stores hold of that tick (`ListsAreFlattened`). A method that lands something
appends one tick (`RecordConfirmed`, `ObserveLaterEffects`, `ConfirmPending`); one that
forgets changes no list that is read (`SamePlan`): what it drops is older than every
pending turn or stamped before its opening, by `Sound`.

`FlattenSeq` and `PutAll` are recursive functions, and no prover here inducts over
them. `Foundations` gets from the well-foundedness of strict inclusion that a finite set
of integers has a least member, and `LeastIndex` that a property that holds
of no least index holds of none. With that, `Foundations` shows that the recursion has a
solution and gives its equations one list at a time; `PutsExists` and `PutAllExtends`
do the same for `PutAll`.

### Transaction runtime (`TransactionsProofs`)

From the assumptions of `Transactions` on its constants and the lemmas about the ledger,
which are stated for any ledger record and reach the runtime through an instance:

* `TypeCorrect`;
* `LedgerAlwaysStaysSound`: this caller, too, keeps the ledger's chronology;
* `HandlesAlwaysOwnTurns`: pending turns and the handles that can settle one belong
  together until the tree is destroyed;
* `RefusalIsAlwaysJustified`: a rollback that would be refused has a cell that somebody
  else wrote since the transaction began;
* `QueuedWriterIsAlwaysRespected`: no rollback changes a cell for which somebody else's
  write waits undelivered.

They hold with every switch of section 4 on: the proofs never use one. The invariant is
`RuntimeInv`, and `Live` is its part about a tree that is not destroyed. The reason for
a refusal is read from four places (turns recorded later, realizations, queued
evidence, the queue), so that `touched` is compared with all that is held against a
pending turn *or may come to be*: what the queue waits to tell, and the effects of
younger pending turns, which tell against an older one once they are confirmed
(`PendingAccounted`, `Accounted`). The turn's own effects are in turn about cells that
it wrote by `layers`, or a younger turn would tell against an older one without having
touched it. While a callback runs the turn does not exist yet, and the same is said
of the queue (`RunningAccounted`). A handle and its turn are matched both ways
(`Owned`, `TurnsDiffer`), else settling one turn might leave another without a
handle.

For every method of the ledger, `Grew` or `SettledOne` says which cells may newly tell
against which pending turn. The handlers fold over the queue, the pending turns and the
compensated effects. `Stepwise` has one induction over the places of a list, with the step and
what it preserves as parameters; each fold of the module instantiates it
(`FoldKeeps`) and owes only the lemma about one step.

### Gate (`CommitConsequenceProofs`)

From `BoundsAssumption`, every safety property of the run:

* `GateIsTyped`, `NothingIsStranded`: with settlements nested to any depth, what
  is held waits only while a scope is open or some settlement on the stack has yet
  to look;
* `OnlyCommittedWorkRuns`: a consequence deferred in a scope runs only after a
  settlement to commit;
* `ReleasesMeanSettled`: what waited for the tree runs, and the listeners are told,
  only with every scope settled that there was at the release;
* `NothingIsEverLost` and `FateIsAlwaysFinal`: what still waits is in exactly one list,
  and what was dropped, replaced or run is in none and never runs again.

For `ReleasesMeanSettled`, each frame carries the number of scopes there were at its last look,
and the invariant `DatedRelease` adds that no frame's date lies in the future: a
scope opened later then has a larger id than any frame's date. For the first two, the
invariant `GateInv` adds `Attributed`: each open scope's list holds its own
work, the tree's list nobody's, and the lists that settlements iterate only what is
nobody's or was committed. `OnlyCommittedRuns` speaks of a step, and a step takes
its consequence from the list of a frame, hence the third part; a frame gets its
list from a scope or from the tree, hence the first two.

The last two rest on `Placed == ListsTidy /\ EachPlaced`: in a list no consequence
stands twice and (but for the lists being iterated) no key has two; and for every
serial number, at most one of all the lists has it (`AtMostOnce`), some list has it
exactly if it waits. The second needs the first: `Supersede` drops by key, and only
if the key has one entry is what it drops what it marks as replaced.

### Restoration (`RestorationProofs`)

From the assumptions of `Restoration` on its constants:

* `TypeCorrect`;
* `StatusIsConsistent`: a turn is below the frontier at all of its positions or at none,
  and a frontier is a prefix of the turns of its position (`canUndo` and `canRedo`,
  which are read off the frontiers, are not modelled);
* `ClaimsAreHistory`: a row is claimed exactly while a retained turn names it;
* `RedoIsOnlyReplaced`: retained turns leave only in a step that admits another turn to
  the history, or at a reset. A rollback never costs one, and neither does a late turn
  that the full history evicts at once: nothing was discarded to make room for it
  (`ConfirmKeepsOrAdmits`, by the cardinality of the history before and after).

The invariant is `HistoryInv == StateTyped /\ ManagerOK(manager) /\ Minted`.
`ManagerOK` ties the maps of the manager to each other: the index holds exactly the
history, a turn is below the frontier at all of its positions or at none
(`SameStatus`), what is below a frontier is a prefix of the turns of that position
(`AppliedFirst`), and claims are those of the retained turns (`Claimed`). `StatusIsConsistent` is its second and third part. Each method of the manager has a lemma that it keeps
`ManagerOK`; truncation, eviction and insertion need the greatest and least members
of finite sets of ids, which are the business of `Foundations`. `Minted` says that a flush that will make a
turn still has an id for it: it is about the bound of the model, and keeps the
typing of ids inductive.

Two theorems have a hypothesis about `Lets`, the switches of section 4, each for a
behaviour of section 8 that contradicts the property and that the runs leave out too:

* `ScopesContain` assumes `"mixed_tick" \notin Lets`: a scoped undo or redo changes
  only what its scope owns. A flush attributes a turn to the positions that designated
  writes name; a realized write in the same tick would give it an effect of another
  position. The invariant is `ScopeInv`: no such tick waits, and every turn's effects
  are at its positions.
* `SubjectsAreKept` assumes in addition `"reremoval"` and `"undo_over_queue"` away: no
  turn that can be undone, redone or confirmed names a row that was let go. The
  invariant `SubjectsInv` says where such a turn can come from: the history and the
  pending turns (`Kept`, `PendingIsClaimed`), and the queue (`LetGoIsGone`: nothing is about
  to write a row that was let go; `WaitingIsRetained`: what waits to become a turn is
  named by no turn that the insertion would discard).

### Collection (`StructuralProofs`, `CollectionProofs`)

From `KeysAssumption`, `RowsAssumption` and two hypotheses, `~Revisits` and
`Modes \subseteq {"strict"}`, which name the two behaviours of section 8 that contradict
the properties and that the runs leave out too:

* `StoreStaysConsistent`: through every write, undo, redo and rollback, the key index,
  the subjects' states and the chain say the same: a key names at most one row, and the
  chain holds every live row once;
* `TurnsNameWhatChanged`: a turn names exactly the rows whose key differs between what
  the tick or the transaction found and what it left, each once, with both keys;
* `PositionKeepsTheRows`: wherever undo and redo have gone, the rows and keys
  are those of the turns on either side of that position;
* `RollbackTakesEveryRowBack`: an accepted rollback gives every row of the
  transaction the key it had before, or removes it where the plan erases it; as in the
  property, its renames come first, for the reason of `collection_renames`;
* `OthersAlwaysKeepTheirPlace`: an undo, a redo or a rollback without an order of its own
  leaves every other row with its key, and those rows in their order.

They hold for any number of keys, initial rows, writes and turns, for both enhancers
and for every kind of write. The invariant is `CollectionInv`, and TLC checked it on
the instance of the run `collection` before it was proved. It has four parts beside
types. `Sound` is `StoreIsConsistent` said of the subjects' states, with every number
below `next` accounted for. `TickTells`: the waiting slots, in the order of their delivery, lead
from the rows the tick found to the rows that are there; a map from subject to key
stands for the rows, and `Nets(f, g, list)` says that a list names exactly the
differences of two such maps. `HistoryTells` and `TransactionTells`: each recorded turn
leads from where it began to where it ended, each begins where its predecessor ended,
and the applied ones end at what is there now. The position alone would not be
inductive: an undo ends where its turn began, which says something of the turn before
only if the two meet.

The announcements are the difficult part. A write announces one effect a row; the notifier
groups by path and coalesces, so the order of delivery is not that of the writes. With
`Revisits` off, an effect enters a slot behind every slot that names the same row
(`Trail`, `SlotFits`): the effects of *one* row stay in their order, and those of different rows
commute under `EnqueueEffect` (`NetsNext`). `Written` says that of each
of the seven writes, whatever rows it takes and in whatever order.

For undo, redo and rollback, `StructuralProofs` shows what each of the two ways of
realizing effects leaves (`Realized`): a frame that passes `ValidateEffects` and a declarative
target both restate exactly the subjects they name (`Restates`) and leave the store sound.
For the frame this needs that no removal, restoration or rename meets a key that is
still held: `CheckHolds` carries through the fold of the validation what the commits, done
in another order, rely on. For the target it needs that the order derived is
a list of exactly the subjects with a key (`PlacingHolds`), however the rows wait for each
other's neighbours.

`RollbackTakesEveryRowBack` rests on a further invariant, `LaterInv`: the last later
effect on a row, if there is one, says the key it has now (`LastTells`). It decides between
a row that is to be erased and one that is to go back, and nothing else about later
truth is needed.

`OthersAlwaysKeepTheirPlace` follows the order of two rows, `InOrder`, through all of this.
Each operation of the store and each step that places a row keeps the order of the
subjects it is not about (`KeepsOrder`); a chain holds a row once; and two lists of the
same rows, each once and in the same order, are one list (`SameLine`). The other
theorems say which rows and keys there are, not where in the chain a row stands.

`Stepwise` is instantiated once for each fold, thirteen times here, and each instance brings all
that `Stepwise` sees into every obligation. It therefore sees integers only and
takes the least member of a set of places as a hypothesis (`PlacesAreOrdered`), which
`Foundations` proves (`LeastPlaces`) and every use of `FoldKeeps` discharges.

## 7. What is only model-checked

* `ImplementsProposals`, `RejectionIsExact` and `RejectedTruthStaysGone` of
  `Transactions`. They are about values: the before-value that a turn has captured,
  after coalescing in the queue and netting in the turn, has to be the top of the stack
  below its own writes. The invariant that would say so must describe every
  entry of the queue and every effect of a turn by a segment of a stack, and holds only
  with `ReturningIn` and `SettlesInCallback` restricted.
* All of `Link`. Its safety properties are about values that pass through the runtime, the
  queue and the chain, and rest on the invariant just described.
* `ReversalReturns` and `RefusalHasACause` of `Collection`. They say when a realization is
  *accepted*, and the first also where a row that comes back stands, under premises about
  recorded neighbours that a proof would have to follow through the search for anchors.
* `FrontierMeetsState` and `ExternalTruthIsNeverUndone` of `Restoration`. The first relates the
  tree to compositions of effects along each frontier, and an undo takes a closure
  of turns from it: the law needed is about composition in an order that depends on
  the closure.
* `HoldsAreReleased` and `OutboundArrives`: liveness under fairness stays with TLC.
* That the properties are not vacuous: the mutants are TLC runs.

## 8. Where the code disagrees with its own words

The first three are counterexamples of runs, and the entry in `PROJECT.json` quotes the
text.

* **`tx_returning`.** An ordinary write takes a proposed cell away and back before
  a flush. The flush drops the entry; a later rollback overwrites that writer's
  standing value. In a script without microtasks the queue itself is read, and
  `tx_synchronous` shows that this is enough.
* **`restoration_designation`.** A designated write and then a plain one of the same
  leaf in one tick coalesce, and the entry keeps the metadata of the plain one
  (`path-notifier.ts:764`): the tick is not undoable, although "ONE designated write
  promotes the WHOLE turn" (`undoable.ts:24`).
* **`collection_renames`.** Of several renames of one transaction, a rollback that goes
  row by row takes back at most one (`pending-rollback.ts:169`) and reports success.

The others have no run of their own. They were met by TLC, with the switch named
above on or a premise dropped, or by reading.

*Transactions.*

* External truth lands between two writes of one callback that end where they began:
  the turn has no effect left, and its rollback leaves the transaction's own value
  over the external one.
* A callback rejects an older transaction after writing the same cell. Its own
  baseline is then the rejected value, and rejecting it brings that value back
  (`SettlesInCallback`).
* A confirmed turn is stamped when it is confirmed, not when it was written, so the
  merge in the plan is by confirmation (compare the comment at
  `transactions.ts:522-525`).

*Gate and link.*

* A tree destroyed by a consequence does not stop the settlement that ran it.
* The rule in the head of `commit-consequence.ts` (lines 18-19) has consequences wait
  while *any* scope of the tree is open, whereas a committed scope's own consequences
  run at once (line 272).
* A run of the chain queued by an earlier write takes its lap between a synchronous
  rollback and the delivery of its compensation, when no scope is open and the
  eligible value is still the rejected one (`RejectsUnderWay`).
* An acknowledgement overwrites what a newer emission said of the endpoint
  (`EmitsInFlight`).

*Restoration.*

* A rollback over external truth, and an undo in the same tick. The transaction's write
  had taken the leaf from the server, and only the delivery of the compensation gives it
  back (`restoration.ts:3006-3023`); an undo before that finds no external truth in
  its map, passes over the compensation in the queue (line 3081) and overwrites what the
  server said. The comment at line 2974 has the compensation hand the location "back to
  whoever owned it before the speculative turn", and `docs/errors/README.md:57` (ST1034)
  says an undo is refused where "applying it fully would discard truth the history system does
  not own". With `Lets = {"undelivered_rollback"}`, `RestorationAuthority.cfg` gives
  a trace of eight steps: a retained turn, a plain write, a delivered realization, a
  transaction, its rollback, the undo.
* The second half of that switch: a realization of the leaf in that tick coalesces with the
  compensation, whose origin is another, and the entry loses both metadata
  (`path-notifier.ts:749`). It is delivered as ordinary work, and nobody knows of the
  server's word. This was read and not modelled.
* The comment at `restoration.ts:132` wants the claims of a record to contain every
  removed row that it could make live again. They are taken when the record is
  inserted, from what is there: a row whose removal still waits for its flush, or that
  only turns about to be discarded name (`restoration.ts:584`), may be let go by a
  reset, an admission or a confirmation, and the turn that is recorded next names a row
  without a backing (`reremoval`).
* A tick with a designated write and one of another authority, a realization or a
  rollback's, makes one turn, whose undo takes back the other's effect too
  (`mixed_tick`; `undoable.ts:64-67` keeps external truth out of turns).
* A realization, an undo that agrees with it, and a second realization that brings the
  first value back within one tick cancel in the queue, and nobody knows of the
  server's word (`realized_round_trip`).
* An undo that is refused after it left a temporal view has moved the tree, while the
  error says "Nothing was changed" (`restoration.ts:1281`).
* Undo with an authored write in the queue leaves the entry there, and what is delivered
  later starts from a value that is not there any more (`undo_over_queue`; compare
  `restoration.spec.ts:3185`, by which such a write is not retained).
* External truth that lands in a temporal view is passed over by the way back to the
  frontiers when it agrees with it, and with it goes its provenance: the redo that
  follows overwrites what the server said (`jump_over_truth`).
* A jump shows an undone turn, and a designated write follows. The truncation discards
  the undone turn and moves the index to the end, and its effect stays on the tree
  with no turn to account for it (`unshown_redo`). The comment at
  `restoration.ts:835-845` calls the slice that follows redundant.

*Collections.* What a turn records of the place of its rows is not always enough to
go back:

* rows removed in an order other than theirs, a tail row before the one in front of
  it, come back in another order;
* `addMany` of two or more rows after existing ones records wrong neighbours
  (`entity-signal.ts:2545`), and `prependMany` records those of an append (line
  2408): redo misplaces the rows;
* `setAll` with no row that stays records removals without neighbours, and undo gives
  them back reversed; two adjacent rows dropped by it come back exchanged; and one that
  reorders what stays while rows come or go records no order delta;
* a delta of a tick covers only the calls of `setAll` that had the same rows on both
  sides, so one that reordered and removed before is forgotten.

Also:

* A reorder, an addition, and both undone: the second undo is refused for ever, with a
  plain `Error` ("collection order frontier does not match"), since undoing the
  addition installs a fresh frontier. `docs/architecture/entity-physical-density.md:885-886`
  says that reversing the later turn first is what unblocks it. A `setAll` to the very
  same order moves the frontier too.
* A transaction that adds a row and then replaces everything by it cannot be rolled
  back ("no live placement anchor").
* `setAll` and then a rename to a path that an earlier slot of the queue has: delivery
  is grouped by path, and the turn nets the two in the order of the slots (`Revisits`).
* `addMany` in mode `overwrite` announces an addition of a row that is there; undo
  removes it (`Modes`).

## 9. What is not modelled, and why

* Of transactions: several structural transactions at once, turns that mix scalar and
  structural effects, inspection writes, nested claims of row descriptors (plan, item
  9). Of the notifier: batching suspension,
  and errors of subscribers, which are reported and change nothing.
* Of links: `retrieve()`, branch and collection sources, several links, and the
  destruction of the tree while a link waits (plan, items 8 and 10).
* Of restoration: fields of rows, the snapshot of the initial state, the exported
  history, and several rows of a collection together with speculative turns.
* Of collections: values of rows, `updateOne` and its kin, `upsertOne` and `upsertMany`
  (`entity-signal.ts:3048`, `3058`: an addition of the rows that are not there and an
  update, which is not modelled, of those that are), interceptors and taps, the active entity, revisions
  and handles; the reactive node cache is memoisation.
* Of the causal runtime: retention, admission and dependency checks of the turn store.
  In the program a store holds one turn for the length of one rollback, and the checks
  are not reached; the transaction chain that would reach them is used by tests only.
* The reclamation coordinator and the record target: they carry out what
  `Restoration` says is let go.
* Value pool, locations, batching, egress projection: not modelled yet.
* Tree construction, marker materialisation, diagnostics, devtools, types,
  framework adapters: passes over data, observers, or bindings to another
  framework's subscription, without a protocol of their own.
* `greenfield-transactions.ts` and the capture bridge: reached from tests only.
* `apps/`, `api/`, `docs/`, scripts and build files: not part of the library.

## 10. Running

    tlc -workers 2 -config TransactionsScalar.cfg MCTransactions.tla
    tlapm TransactionAuthorityProofs.tla

The slowest run takes about four minutes on two cores; of the proofs, those of
`CollectionProofs` take ten minutes, those of `TransactionsProofs` eight. `PROJECT.json` lists every run with its module, configuration and
properties.
