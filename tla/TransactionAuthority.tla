------------------------ MODULE TransactionAuthority ------------------------
(***************************************************************************)
(* The TransactionAuthority class of enhancers/transactions: the ledger    *)
(* that decides what may still be rolled back and what rollback must       *)
(* respect.  The object is one record, `authority', and each method is an  *)
(* operator from the record to the record, so that a module modelling a    *)
(* caller can run several methods in one synchronous call.                 *)
(*                                                                         *)
(* A confirmed record is kept in a function from turn id to turn: the code *)
(* keeps an array sorted by id (insertConfirmed), which is that function.  *)
(***************************************************************************)
EXTENDS Naturals, Sequences, FiniteSets, SequencesExt

CONSTANTS
    Effect,           \* an effect of a turn on one location; opaque here
    Subject,          \* row identities a turn may need to restore
    EffectLists,      \* the effect lists one turn or realization may carry
    QueuedLists,      \* the effect lists read from the notifier's queue
    EvidenceKey(_),   \* the Map key observeQueuedEffects stores an effect under
    MaxTurns,         \* bound: turns a behaviour opens
    MaxSeq,           \* bound: ticks of the ledger clock while turns are pending
    MaxRetain         \* bound: the largest history.retain configured

ASSUME EffectListsAssumption == EffectLists \cup QueuedLists \subseteq Seq(Effect)
ASSUME BoundsAssumption == MaxTurns \in Nat /\ MaxSeq \in Nat /\ MaxRetain \in Nat

VARIABLES
    authority,  \* the private fields of the TransactionAuthority
    destroyed   \* the runtime's cleanup has run

vars == <<authority, destroyed>>

-----------------------------------------------------------------------------
(* Maps                                                                    *)

EmptyMap == [x \in {} |-> {}]
SetKey(f, x, v) == [y \in DOMAIN f \cup {x} |-> IF y = x THEN v ELSE f[y]]
DeleteKey(f, x) == [y \in DOMAIN f \ {x} |-> f[y]]
Keep(f, S) == [y \in DOMAIN f \cap S |-> f[y]]

-----------------------------------------------------------------------------
(* The state of the object                                                 *)

Turn == [subjects : SUBSET Subject, effects : Seq(Effect)]
Pending(a) == DOMAIN a.pendingTurns
Confirmed(a) == DOMAIN a.confirmedTurns

InitialAuthority == [
    nextTurnId          |-> 1,
    pendingTurns        |-> EmptyMap,   \* id -> Turn
    confirmedTurns      |-> EmptyMap,   \* id -> Turn
    confirmedAtSeq      |-> EmptyMap,   \* id -> ledger clock at insertion
    pendingOpenedAtSeq  |-> EmptyMap,   \* id -> ledger clock at opening
    queuedEvidence      |-> EmptyMap,   \* id -> effects in Map order
    claims              |-> EmptyMap,   \* id -> subjects kept restorable
    dependencyLedger    |-> <<>>,       \* [seq, effect] of unauthored effects
    ledgerSeq           |-> 0,
    historyRetain       |-> 0,
    evictedConfirmed    |-> FALSE ]

-----------------------------------------------------------------------------
(* Methods                                                                 *)

(* Mutant: only the turns younger than every pending one are an obligation. *)
RequiredByYoungestPending(a) ==
    {c \in Confirmed(a) :
        \/ \A p \in Pending(a) : c > p
        \/ Cardinality({d \in Confirmed(a) : d > c}) < a.historyRetain}

(* Younger than some pending turn, or among the newest `historyRetain'.    *)
RequiredOrRecent(a) ==
    {c \in Confirmed(a) :
        \/ \E p \in Pending(a) : c > p
        \/ Cardinality({d \in Confirmed(a) : d > c}) < a.historyRetain}

(* Mutant: the flag is set only when history was asked for.                *)
ReleaseReportingOnlyHistory(a) ==
    LET keep == RequiredOrRecent(a) IN
    [a EXCEPT !.confirmedTurns   = Keep(@, keep),
              !.confirmedAtSeq   = Keep(@, keep),
              !.evictedConfirmed = @ \/ (keep # Confirmed(a) /\ a.historyRetain > 0)]

ReleaseConfirmedBeyondObligation(a) ==
    LET keep == RequiredOrRecent(a) IN
    [a EXCEPT !.confirmedTurns   = Keep(@, keep),
              !.confirmedAtSeq   = Keep(@, keep),
              !.evictedConfirmed = @ \/ keep # Confirmed(a)]

ReleaseLedgerIfQuiet(a) ==
    IF Pending(a) = {}
    THEN [a EXCEPT !.dependencyLedger = <<>>, !.ledgerSeq = 0,
                   !.pendingOpenedAtSeq = EmptyMap]
    ELSE a

(* Mutant: the clock ticks for realizations only.                          *)
InsertConfirmedWithoutTick(a, id, turn) ==
    [a EXCEPT !.confirmedAtSeq = SetKey(@, id, a.ledgerSeq),
              !.confirmedTurns = SetKey(@, id, turn)]

InsertConfirmed(a, id, turn) ==
    [a EXCEPT !.ledgerSeq = @ + 1,
              !.confirmedAtSeq = SetKey(@, id, a.ledgerSeq + 1),
              !.confirmedTurns = SetKey(@, id, turn)]

RecordConfirmed(a, turn) ==
    LET numbered == [a EXCEPT !.nextTurnId = @ + 1]
    IN  ReleaseConfirmedBeyondObligation(InsertConfirmed(numbered, a.nextTurnId, turn))

CreatePending(a, turn) ==
    [a EXCEPT !.nextTurnId = @ + 1,
              !.pendingTurns = SetKey(@, a.nextTurnId, turn),
              !.pendingOpenedAtSeq = SetKey(@, a.nextTurnId, a.ledgerSeq),
              !.claims = IF turn.subjects = {} THEN @
                         ELSE SetKey(@, a.nextTurnId, turn.subjects)]

(* Mutant: a realization shares the tick of what came before it.           *)
ObserveWithoutTick(a, effects) ==
    IF Pending(a) = {} \/ effects = <<>> THEN a
    ELSE [a EXCEPT !.dependencyLedger = @ \o
                       [i \in DOMAIN effects |->
                           [seq |-> a.ledgerSeq, effect |-> effects[i]]]]

(* One tick of the clock for the whole list, and only while it matters.    *)
ObserveLaterEffects(a, effects) ==
    IF Pending(a) = {} \/ effects = <<>> THEN a
    ELSE [a EXCEPT !.ledgerSeq = @ + 1,
                   !.dependencyLedger = @ \o
                       [i \in DOMAIN effects |->
                           [seq |-> a.ledgerSeq + 1, effect |-> effects[i]]]]

(* Mutant: every read appends, so a retry of a read duplicates it.         *)
AppendEvidence(retained, effect) == Append(retained, effect)

(* Map.set: a known key keeps its place and takes the newer effect.        *)
PutEvidence(retained, effect) ==
    IF \E i \in DOMAIN retained : EvidenceKey(retained[i]) = EvidenceKey(effect)
    THEN [i \in DOMAIN retained |->
            IF EvidenceKey(retained[i]) = EvidenceKey(effect)
            THEN effect ELSE retained[i]]
    ELSE Append(retained, effect)

(* One list read from the queue, put entry by entry.                       *)
PutAll(retained, queued) ==
    LET put[n \in 0 .. Len(queued)] ==
            IF n = 0 THEN retained ELSE PutEvidence(put[n-1], queued[n])
    IN  put[Len(queued)]

Retained(a, id) == IF id \in DOMAIN a.queuedEvidence THEN a.queuedEvidence[id] ELSE <<>>

ObserveQueuedEffects(a, id, queued) ==
    IF id \notin Pending(a) \/ queued = <<>> THEN a
    ELSE [a EXCEPT !.queuedEvidence =
             SetKey(@, id, PutAll(Retained(a, id), queued))]

ForgetPending(a, id) ==
    [a EXCEPT !.pendingTurns = DeleteKey(@, id),
              !.pendingOpenedAtSeq = DeleteKey(@, id),
              !.queuedEvidence = DeleteKey(@, id),
              !.claims = DeleteKey(@, id)]

(* Mutant: confirmation inserts the turn without taking it from pending.   *)
ConfirmWithoutForgetting(a, id) ==
    IF id \notin Pending(a) THEN a
    ELSE ReleaseConfirmedBeyondObligation(ReleaseLedgerIfQuiet(
             InsertConfirmed(a, id, a.pendingTurns[id])))

ConfirmPending(a, id) ==
    IF id \notin Pending(a) THEN a
    ELSE ReleaseConfirmedBeyondObligation(ReleaseLedgerIfQuiet(
             InsertConfirmed(ForgetPending(a, id), id, a.pendingTurns[id])))

(* Mutant: rejection does not discharge the obligations it ends.           *)
DiscardWithoutRelease(a, id) ==
    IF id \notin Pending(a) THEN a
    ELSE ReleaseLedgerIfQuiet(ForgetPending(a, id))

DiscardPending(a, id) ==
    IF id \notin Pending(a) THEN a
    ELSE ReleaseConfirmedBeyondObligation(ReleaseLedgerIfQuiet(ForgetPending(a, id)))

SetHistoryRetention(a, retain) ==
    ReleaseConfirmedBeyondObligation([a EXCEPT !.historyRetain = retain])

(* Cleanup drops the confirmed records, then discards every pending turn,  *)
(* the last of which finds the ledger quiet.                               *)
ReleaseOnDestroy(a) ==
    LET cleared == [a EXCEPT !.confirmedTurns = EmptyMap, !.confirmedAtSeq = EmptyMap]
    IN  IF Pending(a) = {} THEN cleared
        ELSE ReleaseLedgerIfQuiet(
                [cleared EXCEPT !.pendingTurns = EmptyMap, !.pendingOpenedAtSeq = EmptyMap,
                                !.queuedEvidence = EmptyMap, !.claims = EmptyMap])

-----------------------------------------------------------------------------
(* What getPendingRollbackPlan reads: the effects later than turn `id',    *)
(* merged from the confirmed turns and the dependency ledger by the shared *)
(* clock.  The sort is stable: on one tick confirmed turns come first, by  *)
(* id, and then the ledger in its own order.                               *)

AuthoredAt(a, id, tick) ==
    FlattenSeq([c \in 1 .. a.nextTurnId - 1 |->
        IF c \in Confirmed(a) /\ c > id /\ a.confirmedAtSeq[c] = tick
        THEN a.confirmedTurns[c].effects ELSE <<>>])

(* Mutant: a realization counts against turns opened after it.             *)
ObservedEvenBeforeOpening(a, id, tick) ==
    FlattenSeq([i \in DOMAIN a.dependencyLedger |->
        IF a.dependencyLedger[i].seq = tick
        THEN <<a.dependencyLedger[i].effect>> ELSE <<>>])

ObservedAt(a, id, tick) ==
    FlattenSeq([i \in DOMAIN a.dependencyLedger |->
        IF a.dependencyLedger[i].seq = tick /\ tick > a.pendingOpenedAtSeq[id]
        THEN <<a.dependencyLedger[i].effect>> ELSE <<>>])

LaterEffects(a, id) ==
    FlattenSeq([tick \in 1 .. a.ledgerSeq |->
        AuthoredAt(a, id, tick) \o ObservedAt(a, id, tick)])

-----------------------------------------------------------------------------
(* The runtime's calls into the object                                     *)

Init ==
    /\ authority = InitialAuthority
    /\ destroyed = FALSE

Room == authority.nextTurnId <= MaxTurns
Tick == authority.ledgerSeq < MaxSeq

(* buildTurn returns a turn unless there is nothing at all to record; then *)
(* recordConfirmed and createPending change nothing.                       *)
DoRecordConfirmed ==
    /\ ~destroyed /\ Room /\ Tick
    /\ \E effects \in EffectLists, subjects \in SUBSET Subject :
           authority' = RecordConfirmed(authority, [subjects |-> subjects, effects |-> effects])
    /\ UNCHANGED destroyed

DoCreatePending ==
    /\ ~destroyed /\ Room
    /\ \E effects \in EffectLists, subjects \in SUBSET Subject :
           authority' = CreatePending(authority, [subjects |-> subjects, effects |-> effects])
    /\ UNCHANGED destroyed

DoObserveLaterEffects ==
    /\ ~destroyed /\ Tick
    /\ \E effects \in EffectLists : authority' = ObserveLaterEffects(authority, effects)
    /\ UNCHANGED destroyed

DoObserveQueuedEffects ==
    /\ ~destroyed
    /\ \E id \in Pending(authority), queued \in QueuedLists :
           authority' = ObserveQueuedEffects(authority, id, queued)
    /\ UNCHANGED destroyed

DoConfirmPending ==
    /\ ~destroyed /\ Tick
    /\ \E id \in Pending(authority) : authority' = ConfirmPending(authority, id)
    /\ UNCHANGED destroyed

DoDiscardPending ==
    /\ ~destroyed
    /\ \E id \in Pending(authority) : authority' = DiscardPending(authority, id)
    /\ UNCHANGED destroyed

DoSetHistoryRetention ==
    /\ ~destroyed
    /\ \E retain \in 0 .. MaxRetain : authority' = SetHistoryRetention(authority, retain)
    /\ UNCHANGED destroyed

DoDestroy ==
    /\ ~destroyed
    /\ authority' = ReleaseOnDestroy(authority)
    /\ destroyed' = TRUE

Next ==
    \/ DoRecordConfirmed \/ DoCreatePending
    \/ DoObserveLaterEffects \/ DoObserveQueuedEffects
    \/ DoConfirmPending \/ DoDiscardPending
    \/ DoSetHistoryRetention \/ DoDestroy

Spec == Init /\ [][Next]_vars

-----------------------------------------------------------------------------
(* Correctness.  The invariants of the object are operators of the object, *)
(* as its methods are.                                                     *)

IsMap(f, values) == \A x \in DOMAIN f : f[x] \in values
Fields == DOMAIN InitialAuthority
LedgerEntry == [seq : Nat, effect : Effect]

(* Ids are natural numbers already handed out, and a turn is never pending *)
(* and confirmed at once.  What queuedEvidence holds is left to the runs.  *)
Typed(a) ==
    /\ DOMAIN a = Fields
    /\ a.nextTurnId \in Nat \ {0} /\ a.ledgerSeq \in Nat /\ a.historyRetain \in Nat
    /\ a.evictedConfirmed \in BOOLEAN
    /\ Pending(a) \cup Confirmed(a) \subseteq 1 .. a.nextTurnId - 1
    /\ Pending(a) \cap Confirmed(a) = {}
    /\ IsMap(a.pendingTurns, Turn) /\ IsMap(a.confirmedTurns, Turn)
    /\ IsMap(a.pendingOpenedAtSeq, Nat) /\ IsMap(a.confirmedAtSeq, Nat)
    /\ IsMap(a.claims, SUBSET Subject)
    /\ a.dependencyLedger \in Seq(LedgerEntry)

(* The type invariant of the module.                                       *)
TypeOK == Typed(authority) /\ destroyed \in BOOLEAN

Chronological(a) ==
    /\ DOMAIN a.pendingOpenedAtSeq = Pending(a)
    /\ DOMAIN a.confirmedAtSeq = Confirmed(a)
    /\ \A p \in Pending(a) : a.pendingOpenedAtSeq[p] <= a.ledgerSeq
    /\ \A p \in Pending(a), c \in Confirmed(a) :
        c > p => /\ a.pendingOpenedAtSeq[p] < a.confirmedAtSeq[c]
                 /\ a.confirmedAtSeq[c] <= a.ledgerSeq
    /\ \A i \in DOMAIN a.dependencyLedger : a.dependencyLedger[i].seq <= a.ledgerSeq

(* The rollback plan sorts confirmed turns and realizations by one clock,  *)
(* and admits a realization only when its tick is later than the turn's    *)
(* opening.  That is the right comparison only if every confirmed turn     *)
(* younger than a pending one was stamped after that turn opened, across   *)
(* the resets of the clock (releaseLedgerIfQuiet) and the records retained *)
(* from before them; and if no tick of the ledger lies in the future.      *)
ChronologyIsShared == Chronological(authority)

Distinct(a) ==
    \A p \in Pending(a), c \in Confirmed(a) : c > p =>
        /\ \A d \in Confirmed(a) :
            d > p /\ d # c => a.confirmedAtSeq[d] # a.confirmedAtSeq[c]
        /\ \A i \in DOMAIN a.dependencyLedger :
            a.dependencyLedger[i].seq > a.pendingOpenedAtSeq[p]
              => a.dependencyLedger[i].seq # a.confirmedAtSeq[c]

(* Two younger confirmed turns never share a tick with each other or with  *)
(* a realization, so the merge has one answer (insertConfirmed: the clock  *)
(* must tick for authored work too).                                       *)
StampsAreDistinct == Distinct(authority)

(* L15, correctness retention follows live responsibility: settling a turn *)
(* leaves nothing of it behind, in any map of the object or in the claims  *)
(* it took, and with no pending turn no realization is remembered.         *)
RetentionFollowsResponsibility ==
    /\ DOMAIN authority.queuedEvidence \subseteq Pending(authority)
    /\ DOMAIN authority.claims = {p \in Pending(authority) : authority.pendingTurns[p].subjects # {}}
    /\ Pending(authority) = {} => authority.dependencyLedger = <<>>
    /\ Cardinality({c \in Confirmed(authority) : \A p \in Pending(authority) : c < p})
          <= authority.historyRetain

(* Evidence read from the queue before delivery latches: while its turn is *)
(* pending an entry never leaves or moves, whatever is read later, and a   *)
(* retry of the same read adds nothing (one entry for one key).            *)
QueuedEvidenceLatches ==
    [][ \A p \in Pending(authority) \cap Pending(authority)' :
            LET old == Retained(authority, p)
                new == Retained(authority, p)'
            IN  /\ Len(old) <= Len(new)
                /\ \A i \in DOMAIN old : EvidenceKey(old[i]) = EvidenceKey(new[i])
                /\ \A i, j \in DOMAIN new :
                        EvidenceKey(new[i]) = EvidenceKey(new[j]) => i = j ]_vars

KeepsObligations(a, b) ==
    \A p \in Pending(a) \cap Pending(b), c \in Confirmed(a) :
        c > p => /\ c \in Confirmed(b)
                 /\ b.confirmedTurns[c] = a.confirmedTurns[c]
                 /\ b.confirmedAtSeq[c] = a.confirmedAtSeq[c]

(* No step drops or restamps a confirmed turn that a turn still pending    *)
(* afterwards may have to answer for: eviction, retention settings and the *)
(* resets of the ledger only ever touch what no rollback can ask about.    *)
ObligationIsKept == [][KeepsObligations(authority, authority')]_vars

(* The reader's `truncated' is never a lie: a confirmed record disappears  *)
(* from a live tree only together with the flag, whatever was retained     *)
(* before and whatever is configured now.                                  *)
TruncationIsReported ==
    [][ ~destroyed' /\ ~(Confirmed(authority) \subseteq Confirmed(authority)')
            => authority'.evictedConfirmed ]_vars

(* The ledger implements the abstract promise: what the plan reads for a   *)
(* pending turn is at every moment the chronological list of all that      *)
(* landed since the turn opened, although it is reassembled from two       *)
(* stores, evicted in part, and stamped by a clock that is reset.          *)
Evidence == INSTANCE RollbackEvidence WITH
    nextTurnId <- authority.nextTurnId,
    proposal   <- [p \in Pending(authority) |-> authority.pendingTurns[p].effects],
    evidence   <- [p \in Pending(authority) |-> LaterEffects(authority, p)]

ImplementsEvidence == Evidence!Spec
=============================================================================
