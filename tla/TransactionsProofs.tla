------------------------- MODULE TransactionsProofs -------------------------
(***************************************************************************)
(* The transaction runtime for any number of cells, values, transactions   *)
(* and writes, with or without microtasks, external truth and settlements  *)
(* within callbacks: handles and pending turns belong together, a rollback *)
(* leaves alone what waits in the queue, and one is refused only if        *)
(* somebody else has written a cell of the transaction.                    *)
(*                                                                         *)
(* A handler calls the ledger several times, once per entry of a queue or  *)
(* once per pending turn, so the proof is about what one call does to the  *)
(* cells that tell against a pending turn, and what a fold preserves.      *)
(***************************************************************************)
EXTENDS Transactions, Foundations

LP == INSTANCE TransactionAuthorityProofs WITH
    Subject <- {}, EffectLists <- {}, QueuedLists <- {}, EvidenceKey <- CellOf,
    MaxTurns <- 0, MaxSeq <- 0, MaxRetain <- 0

Has(list, x) == \E j \in DOMAIN list : list[j] = x
Cells(list) == {list[i].cell : i \in DOMAIN list}
CellsFrom(q, sources) == {q[i].cell : i \in {j \in DOMAIN q : q[j].source \in sources}}

(* The cells that tell against turn p.                                     *)
Against(a, p) == Cells(LP!LaterEffects(a, p)) \cup Cells(LP!Retained(a, p))

-----------------------------------------------------------------------------
(* The invariant of the runtime, as a predicate of what it holds           *)

Layer == [by : Nat, value : Value, intent : Intent]
Handle == [turn : Nat, lifecycle : {"running", "pending", "confirmed", "rejected"}]

(* An authored or realized entry means a value or a function of one.       *)
Meant(q) == \A i \in DOMAIN q : q[i].source # "compensation" => q[i].intent \in Intent
Queue(q) == q \in Seq(Entry) /\ Meant(q)

Shaped(hs, q, ly, to) ==
    /\ hs \in Seq(Handle) /\ Queue(q)
    /\ ly \in [Cell -> Seq(Layer)]
    /\ to \in Seq(SUBSET Cell) /\ Len(to) = Len(hs)

(* The ledger between two calls.                                           *)
Kept(a) == LP!Sound(a) /\ LP!Tidy(a) /\ LP!Bounded(a) /\ LP!Latched(a)

TurnsDiffer(hs) ==
    \A m, n \in DOMAIN hs : hs[m].turn = hs[n].turn /\ hs[m].turn # NoTurn => m = n

(* Turns and handles belong together while the tree lives.                 *)
Owned(a, hs) ==
    /\ \A n \in DOMAIN hs : hs[n].turn < a.nextTurnId
    /\ \A n \in DOMAIN hs :
          hs[n].lifecycle = "pending" /\ hs[n].turn # NoTurn => hs[n].turn \in LP!Pending(a)
    /\ \A id \in LP!Pending(a) :
          \E n \in DOMAIN hs : hs[n] = [turn |-> id, lifecycle |-> "pending"]

Runs(hs) == hs # <<>> /\ hs[Len(hs)].lifecycle = "running"

(* A transaction in its callback is the last one, and has no turn yet.     *)
OnlyLastRuns(hs) ==
    \A n \in DOMAIN hs : hs[n].lifecycle = "running" => n = Len(hs) /\ hs[n].turn = NoTurn

WroteIn(ly, n) == {c \in Cell : \E i \in DOMAIN ly[c] : ly[c][i].by = n}

(* Whatever is held against turn id, or may come to be, is about cells of  *)
(* the set others; its own effects are about cells of the set own.         *)
Accounted(a, id, own, others) ==
    /\ Cells(a.pendingTurns[id].effects) \subseteq own
    /\ Against(a, id) \subseteq others
    /\ \A later \in LP!Pending(a) :
          later > id => Cells(a.pendingTurns[later].effects) \subseteq others

Authoring == {"authored", "realized"}

PendingAccounted(a, hs, q, ly, to) ==
    \A n \in DOMAIN hs : hs[n].turn \in LP!Pending(a) =>
        Accounted(a, hs[n].turn, WroteIn(ly, n), to[n]) /\ CellsFrom(q, Authoring) \subseteq to[n]

RunningAccounted(hs, q, ly, to) ==
    Runs(hs) => /\ CellsFrom(q, {"realized"}) \subseteq to[Len(hs)]
                /\ CellsFrom(q, {"authored"}) \subseteq WroteIn(ly, Len(hs))

(* A runtime that may still be used: a ledger, handles, a queue, and the   *)
(* two histories.                                                          *)
Live(a, hs, q, ly, to) ==
    /\ Kept(a) /\ Shaped(hs, q, ly, to)
    /\ TurnsDiffer(hs) /\ Owned(a, hs) /\ OnlyLastRuns(hs)
    /\ PendingAccounted(a, hs, q, ly, to) /\ RunningAccounted(hs, q, ly, to)

RuntimeInv ==
    /\ tree \in [Cell -> Value] /\ destroyed \in BOOLEAN
    /\ Kept(authority) /\ Shaped(handles, queue, layers, touched) /\ TurnsDiffer(handles)
    /\ ~destroyed => Live(authority, handles, queue, layers, touched)
    /\ destroyed => LP!Pending(authority) = {} /\ ~\E n \in DOMAIN handles : handles[n].lifecycle = "running"

-----------------------------------------------------------------------------
(* The ledger of the runtime is the ledger of the theorems.                *)

LEMMA SameReads ==
    ASSUME NEW a
    PROVE  /\ Ledger!Pending(a) = LP!Pending(a) /\ Ledger!Confirmed(a) = LP!Confirmed(a)
           /\ \A id : Ledger!Retained(a, id) = LP!Retained(a, id)
BY DEF LP!Pending, Ledger!Pending, LP!Confirmed, Ledger!Confirmed, LP!Retained, Ledger!Retained

LEMMA SameMaps ==
    ASSUME NEW f, NEW x
    PROVE  /\ Ledger!Keep(f, x) = LP!Keep(f, x)
           /\ Ledger!DeleteKey(f, x) = LP!DeleteKey(f, x)
           /\ \A v : Ledger!SetKey(f, x, v) = LP!SetKey(f, x, v)
           /\ Ledger!EmptyMap = LP!EmptyMap
BY DEF LP!Keep, Ledger!Keep, LP!SetKey, Ledger!SetKey, LP!DeleteKey, Ledger!DeleteKey,
       LP!EmptyMap, Ledger!EmptyMap

LEMMA SameRequired ==
    ASSUME NEW a
    PROVE  Ledger!RequiredOrRecent(a) = LP!RequiredOrRecent(a)
<1>1. \A S : Ledger!Cardinality(S) = LP!Cardinality(S)
  BY DEF LP!Cardinality, Ledger!Cardinality, LP!IsFiniteSet, Ledger!IsFiniteSet
<1> QED BY <1>1, SameReads DEF LP!RequiredOrRecent, Ledger!RequiredOrRecent

LEMMA SameReleases ==
    ASSUME NEW a
    PROVE  /\ Ledger!ReleaseConfirmedBeyondObligation(a) = LP!ReleaseConfirmedBeyondObligation(a)
           /\ Ledger!ReleaseLedgerIfQuiet(a) = LP!ReleaseLedgerIfQuiet(a)
<1> DEFINE k == Ledger!RequiredOrRecent(a)
           c == Ledger!Keep(a.confirmedTurns, k)
           d == Ledger!Keep(a.confirmedAtSeq, k)
           e == a.evictedConfirmed \/ k # Ledger!Confirmed(a)
<1>1. Ledger!ReleaseConfirmedBeyondObligation(a)
        = [a EXCEPT !.confirmedTurns = c, !.confirmedAtSeq = d, !.evictedConfirmed = e]
  BY DEF Ledger!ReleaseConfirmedBeyondObligation
<1>2. /\ LP!RequiredOrRecent(a) = k /\ LP!Confirmed(a) = Ledger!Confirmed(a)
      /\ LP!Keep(a.confirmedTurns, k) = c /\ LP!Keep(a.confirmedAtSeq, k) = d
  BY SameRequired, SameMaps, SameReads
<1> HIDE DEF k, c, d
<1>3. LP!ReleaseConfirmedBeyondObligation(a)
        = [a EXCEPT !.confirmedTurns = c, !.confirmedAtSeq = d, !.evictedConfirmed = e]
  BY <1>2 DEF LP!ReleaseConfirmedBeyondObligation
<1>4. Ledger!ReleaseLedgerIfQuiet(a) = LP!ReleaseLedgerIfQuiet(a)
  BY DEF LP!ReleaseLedgerIfQuiet, Ledger!ReleaseLedgerIfQuiet, LP!Pending, Ledger!Pending,
         LP!EmptyMap, Ledger!EmptyMap
<1> QED BY <1>1, <1>3, <1>4

LEMMA SameSteps ==
    ASSUME NEW a, NEW id, NEW turn
    PROVE  /\ Ledger!InsertConfirmed(a, id, turn) = LP!InsertConfirmed(a, id, turn)
           /\ Ledger!ForgetPending(a, id) = LP!ForgetPending(a, id)
<1>1. Ledger!InsertConfirmed(a, id, turn) = LP!InsertConfirmed(a, id, turn)
  BY SameMaps DEF LP!InsertConfirmed, Ledger!InsertConfirmed
<1>2. Ledger!ForgetPending(a, id) = LP!ForgetPending(a, id)
  BY SameMaps DEF LP!ForgetPending, Ledger!ForgetPending
<1> QED BY <1>1, <1>2

LEMMA SameMethods ==
    ASSUME NEW a, NEW id, NEW turn, NEW list
    PROVE  /\ Ledger!RecordConfirmed(a, turn) = LP!RecordConfirmed(a, turn)
           /\ Ledger!CreatePending(a, turn) = LP!CreatePending(a, turn)
           /\ Ledger!ObserveLaterEffects(a, list) = LP!ObserveLaterEffects(a, list)
           /\ Ledger!ObserveQueuedEffects(a, id, list) = LP!ObserveQueuedEffects(a, id, list)
           /\ Ledger!ConfirmPending(a, id) = LP!ConfirmPending(a, id)
           /\ Ledger!DiscardPending(a, id) = LP!DiscardPending(a, id)
           /\ Ledger!ReleaseOnDestroy(a) = LP!ReleaseOnDestroy(a)
           /\ Ledger!InitialAuthority = LP!InitialAuthority
<1>1. Ledger!RecordConfirmed(a, turn) = LP!RecordConfirmed(a, turn)
  BY SameReleases, SameSteps DEF LP!RecordConfirmed, Ledger!RecordConfirmed
<1>2. Ledger!CreatePending(a, turn) = LP!CreatePending(a, turn)
  BY SameMaps DEF LP!CreatePending, Ledger!CreatePending
<1>3. Ledger!ObserveLaterEffects(a, list) = LP!ObserveLaterEffects(a, list)
  BY SameReads DEF LP!ObserveLaterEffects, Ledger!ObserveLaterEffects
<1>5. Ledger!ObserveQueuedEffects(a, id, list) = LP!ObserveQueuedEffects(a, id, list)
  BY DEF LP!ObserveQueuedEffects, Ledger!ObserveQueuedEffects, LP!Pending, Ledger!Pending,
         LP!Retained, Ledger!Retained, LP!SetKey, Ledger!SetKey,
         LP!PutAll, Ledger!PutAll, LP!PutEvidence, Ledger!PutEvidence
<1>6. Ledger!ConfirmPending(a, id) = LP!ConfirmPending(a, id)
  BY SameReads, SameReleases, SameSteps DEF LP!ConfirmPending, Ledger!ConfirmPending
<1>7. Ledger!DiscardPending(a, id) = LP!DiscardPending(a, id)
  BY SameReads, SameReleases, SameSteps DEF LP!DiscardPending, Ledger!DiscardPending
<1>8. Ledger!ReleaseOnDestroy(a) = LP!ReleaseOnDestroy(a)
  BY DEF LP!ReleaseOnDestroy, Ledger!ReleaseOnDestroy, LP!Pending, Ledger!Pending,
         LP!ReleaseLedgerIfQuiet, Ledger!ReleaseLedgerIfQuiet, LP!EmptyMap, Ledger!EmptyMap
<1>9. Ledger!InitialAuthority = LP!InitialAuthority
  BY SameMaps DEF LP!InitialAuthority, Ledger!InitialAuthority
<1> QED BY <1>1, <1>2, <1>3, <1>5, <1>6, <1>7, <1>8, <1>9

(* The plan reads the same list.                                           *)
LEMMA SameEvidence ==
    ASSUME NEW a, NEW id
    PROVE  Ledger!LaterEffects(a, id) = LP!LaterEffects(a, id)
BY DEF Ledger!LaterEffects, LP!LaterEffects, Ledger!AuthoredAt, LP!AuthoredAt,
       Ledger!ObservedAt, LP!ObservedAt, Ledger!FlattenSeq, LP!FlattenSeq,
       Ledger!Confirmed, LP!Confirmed

-----------------------------------------------------------------------------
(* What one call does to the cells that tell against the pending turns     *)

(* From a to b no pending turn came or went, and what has come to tell     *)
(* against one is about the given cells.                                   *)
Grew(a, b, cells) ==
    /\ Kept(b) /\ b.nextTurnId >= a.nextTurnId /\ b.pendingTurns = a.pendingTurns
    /\ \A p \in LP!Pending(a) : Against(b, p) \subseteq Against(a, p) \cup cells

(* From a to b turn id, if it was pending, was settled, and at most its    *)
(* own cells have come to tell against an older one.                       *)
SettledOne(a, b, id) ==
    /\ Kept(b) /\ b.nextTurnId = a.nextTurnId
    /\ LP!Pending(b) = LP!Pending(a) \ {id}
    /\ \A p \in LP!Pending(b) :
          /\ b.pendingTurns[p] = a.pendingTurns[p]
          /\ Against(b, p) \subseteq
               Against(a, p) \cup (IF id \in LP!Pending(a) /\ p < id
                                   THEN Cells(a.pendingTurns[id].effects) ELSE {})

LEMMA CellsOfBoth ==
    ASSUME NEW u \in Seq(Effect), NEW v \in Seq(Effect)
    PROVE  Cells(u \o v) = Cells(u) \cup Cells(v)
<1>1. /\ Len(u) \in Nat /\ Len(v) \in Nat
      /\ DOMAIN u = 1 .. Len(u) /\ DOMAIN v = 1 .. Len(v)
      /\ DOMAIN (u \o v) = 1 .. Len(u) + Len(v)
  OBVIOUS
<1>2. ASSUME NEW i \in DOMAIN (u \o v) PROVE (u \o v)[i].cell \in Cells(u) \cup Cells(v)
  <2>1. CASE i <= Len(u)
    <3>1. i \in DOMAIN u /\ (u \o v)[i] = u[i]
      BY <1>1, <2>1
    <3> QED BY <3>1 DEF Cells
  <2>2. CASE ~(i <= Len(u))
    <3>1. i - Len(u) \in DOMAIN v /\ (u \o v)[i] = v[i - Len(u)]
      BY <1>1, <2>2
    <3> QED BY <3>1 DEF Cells
  <2> QED BY <2>1, <2>2
<1>3. ASSUME NEW i \in DOMAIN u PROVE u[i].cell \in Cells(u \o v)
  <2>1. i \in DOMAIN (u \o v) /\ (u \o v)[i] = u[i]
    BY <1>1
  <2> QED BY <2>1 DEF Cells
<1>4. ASSUME NEW i \in DOMAIN v PROVE v[i].cell \in Cells(u \o v)
  <2>1. Len(u) + i \in DOMAIN (u \o v) /\ (u \o v)[Len(u) + i] = v[i]
    BY <1>1
  <2> QED BY <2>1 DEF Cells
<1> QED BY <1>2, <1>3, <1>4 DEF Cells

LEMMA KeptFacts ==
    ASSUME NEW a, Kept(a)
    PROVE  /\ LP!Typed(a) /\ DOMAIN a = LP!Fields /\ a.nextTurnId \in Nat \ {0}
           /\ LP!Pending(a) \subseteq 1 .. a.nextTurnId - 1
           /\ DOMAIN a.queuedEvidence \subseteq LP!Pending(a)
           /\ \A p \in LP!Pending(a) : a.pendingTurns[p].effects \in Seq(Effect)
           /\ \A p : LP!LaterEffects(a, p) \in Seq(Effect)
           /\ \A p : LP!Keyed(LP!Retained(a, p))
<1>1. LP!Typed(a)
  BY DEF Kept, LP!Sound
<1>2. /\ DOMAIN a = LP!Fields /\ a.nextTurnId \in Nat \ {0}
      /\ LP!Pending(a) \subseteq 1 .. a.nextTurnId - 1
  BY <1>1 DEF LP!Typed
<1>3. DOMAIN a.queuedEvidence \subseteq LP!Pending(a)
  BY DEF Kept, LP!Tidy, LP!Housekept
<1>4. \A p \in LP!Pending(a) : a.pendingTurns[p].effects \in Seq(Effect)
  <2>1. \A p \in LP!Pending(a) : a.pendingTurns[p] \in LP!Turn
    BY <1>1 DEF LP!Typed, LP!IsMap, LP!Pending
  <2> QED BY <2>1 DEF LP!Turn
<1>5. \A p : LP!LaterEffects(a, p) \in Seq(Effect)
  BY <1>1, LP!TicksAreTyped
<1>6. ASSUME NEW p PROVE LP!Keyed(LP!Retained(a, p))
  <2>1. LP!Keyed(<<>>)
    BY LP!NothingRetainedIsKeyed
  <2>2. p \in DOMAIN a.queuedEvidence => LP!Keyed(a.queuedEvidence[p])
    BY DEF Kept, LP!Latched
  <2> QED BY <2>1, <2>2 DEF LP!Retained
<1> QED BY <1>1, <1>2, <1>3, <1>4, <1>5, <1>6

LEMMA GrewIsTransitive ==
    ASSUME NEW a, Kept(a), NEW b, NEW c, NEW cells, Grew(a, b, cells), Grew(b, c, cells)
    PROVE  Grew(a, c, cells)
<1>1. LP!Pending(b) = LP!Pending(a)
  BY DEF Grew, LP!Pending
<1>2. c.nextTurnId >= a.nextTurnId
  BY KeptFacts DEF Grew
<1> QED BY <1>1, <1>2 DEF Grew

LEMMA GrewMore ==
    ASSUME NEW a, NEW b, NEW cells, NEW more, Grew(a, b, cells), cells \subseteq more
    PROVE  Grew(a, b, more)
BY DEF Grew

LEMMA GrewNot ==
    ASSUME NEW a, Kept(a), NEW cells
    PROVE  Grew(a, a, cells)
BY KeptFacts DEF Grew

(* A method that leaves the queued evidence alone.                         *)
LEMMA EvidenceCarriesOver ==
    ASSUME NEW a, Kept(a), NEW b, LP!KeepsEvidence(a, b),
           NEW p \in LP!Pending(b), p \in LP!Pending(a)
    PROVE  LP!Retained(b, p) = LP!Retained(a, p)
BY DEF LP!KeepsEvidence, LP!Retained

LEMMA RecordConfirmedGrows ==
    ASSUME NEW a, Kept(a), NEW turn \in LP!Turn
    PROVE  Grew(a, Ledger!RecordConfirmed(a, turn), Cells(turn.effects))
<1> DEFINE b == LP!RecordConfirmed(a, turn)
<1>0. Ledger!RecordConfirmed(a, turn) = b
  BY SameMethods
<1>1. LP!Sound(a) /\ LP!Tidy(a) /\ LP!Latched(a)
  BY DEF Kept
<1>2. LP!Sound(b)
  BY <1>1, LP!RecordConfirmedSound
<1>3. LP!Tidy(b) /\ LP!Bounded(b)
  BY <1>1, LP!RecordConfirmedRetains
<1>4. LP!KeepsEvidence(a, b)
  BY <1>1, LP!OtherMethodsKeepEvidence
<1>5. LP!Latched(b)
  BY <1>1, <1>4, LP!KeptEvidenceLatches
<1>6. /\ b.nextTurnId = a.nextTurnId + 1 /\ b.pendingTurns = a.pendingTurns
      /\ \A p \in LP!Pending(a) :
            LP!LaterEffects(b, p) = LP!LaterEffects(a, p) \o turn.effects
  BY <1>1, LP!RecordConfirmedLands
<1> HIDE DEF b
<1>7. turn.effects \in Seq(Effect)
  BY DEF LP!Turn
<1>8. ASSUME NEW p \in LP!Pending(a)
      PROVE  Against(b, p) \subseteq Against(a, p) \cup Cells(turn.effects)
  <2>1. p \in LP!Pending(b)
    BY <1>6 DEF LP!Pending
  <2>2. LP!Retained(b, p) = LP!Retained(a, p)
    BY <1>4, <2>1, EvidenceCarriesOver
  <2>3. Cells(LP!LaterEffects(b, p)) = Cells(LP!LaterEffects(a, p)) \cup Cells(turn.effects)
    BY <1>6, <1>7, KeptFacts, CellsOfBoth
  <2> QED BY <2>2, <2>3 DEF Against
<1>9. b.nextTurnId >= a.nextTurnId
  BY <1>6, KeptFacts
<1> QED BY <1>0, <1>2, <1>3, <1>5, <1>6, <1>8, <1>9 DEF Grew, Kept

LEMMA ObserveLaterGrows ==
    ASSUME NEW a, Kept(a), NEW effects \in Seq(Effect)
    PROVE  /\ Grew(a, Ledger!ObserveLaterEffects(a, effects), Cells(effects))
           /\ Ledger!ObserveLaterEffects(a, effects).nextTurnId = a.nextTurnId
<1> DEFINE b == LP!ObserveLaterEffects(a, effects)
<1>0. Ledger!ObserveLaterEffects(a, effects) = b
  BY SameMethods
<1>1. LP!Sound(a) /\ LP!Tidy(a) /\ LP!Bounded(a) /\ LP!Latched(a)
  BY DEF Kept
<1>2. LP!Sound(b)
  BY <1>1, LP!ObserveLaterSound
<1>3. LP!Tidy(b) /\ LP!Bounded(b)
  BY <1>1, LP!ObserveLaterRetains
<1>4. LP!KeepsEvidence(a, b)
  BY <1>1, LP!OtherMethodsKeepEvidence
<1>5. LP!Latched(b)
  BY <1>1, <1>4, LP!KeptEvidenceLatches
<1>6. b.nextTurnId = a.nextTurnId /\ b.pendingTurns = a.pendingTurns
  <2>1. CASE LP!Pending(a) = {} \/ effects = <<>>
    BY <2>1 DEF LP!ObserveLaterEffects
  <2>2. CASE ~(LP!Pending(a) = {} \/ effects = <<>>)
    BY <2>2, KeptFacts, LP!ObserveLaterFrame
  <2> QED BY <2>1, <2>2
<1>7. \A p \in LP!Pending(a) : LP!LaterEffects(b, p) = LP!LaterEffects(a, p) \o effects
  BY <1>1, LP!ObserveLaterEvidence
<1> HIDE DEF b
<1>8. ASSUME NEW p \in LP!Pending(a)
      PROVE  Against(b, p) \subseteq Against(a, p) \cup Cells(effects)
  <2>1. p \in LP!Pending(b)
    BY <1>6 DEF LP!Pending
  <2>2. LP!Retained(b, p) = LP!Retained(a, p)
    BY <1>4, <2>1, EvidenceCarriesOver
  <2>3. Cells(LP!LaterEffects(b, p)) = Cells(LP!LaterEffects(a, p)) \cup Cells(effects)
    BY <1>7, KeptFacts, CellsOfBoth
  <2> QED BY <2>2, <2>3 DEF Against
<1>9. b.nextTurnId >= a.nextTurnId
  BY <1>6, KeptFacts
<1> QED BY <1>0, <1>2, <1>3, <1>5, <1>6, <1>8, <1>9 DEF Grew, Kept

(* Evidence is stored under its cell, so that keys are cells.              *)
LEMMA KeysAreCells == \A list : LP!Keys(list) = Cells(list)
BY DEF LP!Keys, Cells, CellOf

(* For every cell of the queued effects the list has one of them.          *)
Heeds(list, queued) ==
    \A c \in Cells(queued) : \E j \in DOMAIN list, k \in DOMAIN queued :
        list[j] = queued[k] /\ queued[k].cell = c

LEMMA ObserveQueuedGrows ==
    ASSUME NEW a, Kept(a), NEW id, NEW queued \in Seq(Effect)
    PROVE  LET b == Ledger!ObserveQueuedEffects(a, id, queued)
           IN  /\ Grew(a, b, Cells(queued)) /\ b.nextTurnId = a.nextTurnId
               /\ id \in LP!Pending(a) => Heeds(LP!Retained(b, id), queued)
               /\ \A p : p # id => LP!Retained(b, p) = LP!Retained(a, p)
               /\ \A p \in LP!Pending(a) : LP!LaterEffects(b, p) = LP!LaterEffects(a, p)
<1> DEFINE b == LP!ObserveQueuedEffects(a, id, queued)
<1>0. Ledger!ObserveQueuedEffects(a, id, queued) = b
  BY SameMethods
<1>1. LP!Sound(a) /\ LP!Tidy(a) /\ LP!Bounded(a) /\ LP!Latched(a)
  BY DEF Kept
<1>2. LP!Sound(b)
  BY <1>1, LP!ObserveQueuedSound
<1>3. LP!Tidy(b) /\ LP!Bounded(b)
  BY <1>1, LP!ObserveQueuedRetains
<1>4. LP!Latched(b)
  BY <1>1, LP!ObserveQueuedLatches
<1>5. /\ b.nextTurnId = a.nextTurnId /\ b.pendingTurns = a.pendingTurns
      /\ \A p \in LP!Pending(a) : LP!LaterEffects(b, p) = LP!LaterEffects(a, p)
  BY <1>1, LP!ObserveQueuedLands
<1>6. /\ id \in LP!Pending(a) =>
            /\ Cells(LP!Retained(b, id)) = Cells(LP!Retained(a, id)) \cup Cells(queued)
            /\ Heeds(LP!Retained(b, id), queued)
      /\ \A p : p # id => LP!Retained(b, p) = LP!Retained(a, p)
  <2>1. CASE id \notin LP!Pending(a)
    BY <2>1 DEF LP!ObserveQueuedEffects
  <2>2. CASE queued = <<>>
    <3>1. b = a /\ Cells(queued) = {}
      BY <2>2 DEF LP!ObserveQueuedEffects, Cells
    <3> QED BY <3>1 DEF Heeds
  <2>3. CASE id \in LP!Pending(a) /\ queued # <<>>
    <3> DEFINE put == LP!PutAll(LP!Retained(a, id), queued)
    <3>1. b = [a EXCEPT !.queuedEvidence = LP!SetKey(@, id, put)]
      BY <2>3 DEF LP!ObserveQueuedEffects
    <3>2. "queuedEvidence" \in DOMAIN a
      BY KeptFacts, LP!FieldsAre DEF LP!FieldNames
    <3> HIDE DEF put, b
    <3>3. b.queuedEvidence = LP!SetKey(a.queuedEvidence, id, put)
      BY <3>1, <3>2
    <3>4. LP!Retained(b, id) = put /\ \A p : p # id => LP!Retained(b, p) = LP!Retained(a, p)
      BY <3>3 DEF LP!Retained, LP!SetKey
    <3>5. /\ LP!Keys(put) = LP!Keys(LP!Retained(a, id)) \cup LP!Keys(queued)
          /\ LP!Answered(put, queued, Len(queued))
      BY KeptFacts, LP!PutAllKeys DEF put
    <3>6. ASSUME NEW c \in Cells(queued)
          PROVE  \E j \in DOMAIN put, k \in DOMAIN queued :
                    put[j] = queued[k] /\ queued[k].cell = c
      <4>1. c \in Cells(put) /\ DOMAIN queued = 1 .. Len(queued)
        BY <3>5, KeysAreCells
      <4>2. PICK j \in DOMAIN put : put[j].cell = c
        BY <4>1 DEF Cells
      <4>3. PICK i \in DOMAIN queued : queued[i].cell = c
        BY DEF Cells
      <4>4. \E k \in 1 .. Len(queued) : put[j] = queued[k]
        BY <3>5, <4>1, <4>2, <4>3 DEF LP!Answered, CellOf
      <4> QED BY <4>1, <4>2, <4>4
    <3> QED BY <3>4, <3>5, <3>6, KeysAreCells DEF Heeds
  <2> QED BY <2>1, <2>2, <2>3
<1> HIDE DEF b
<1>7. ASSUME NEW p \in LP!Pending(a)
      PROVE  Against(b, p) \subseteq Against(a, p) \cup Cells(queued)
  BY <1>5, <1>6 DEF Against
<1>8. b.nextTurnId >= a.nextTurnId
  BY <1>5, KeptFacts
<1> QED BY <1>0, <1>2, <1>3, <1>4, <1>5, <1>6, <1>7, <1>8 DEF Grew, Kept

(* A turn opens with nothing against it.                                   *)
LEMMA CreatePendingOpens ==
    ASSUME NEW a, Kept(a), NEW turn \in LP!Turn
    PROVE  LET b  == Ledger!CreatePending(a, turn)
               id == a.nextTurnId
           IN  /\ Kept(b) /\ b.nextTurnId = id + 1
               /\ id \in Nat \ {0} /\ id \notin LP!Pending(a)
               /\ LP!Pending(b) = LP!Pending(a) \cup {id}
               /\ b.pendingTurns[id] = turn /\ Against(b, id) = {}
               /\ \A p \in LP!Pending(a) : /\ b.pendingTurns[p] = a.pendingTurns[p]
                                           /\ Against(b, p) = Against(a, p)
<1> DEFINE b == LP!CreatePending(a, turn)
           id == a.nextTurnId
<1>0. Ledger!CreatePending(a, turn) = b
  BY SameMethods
<1>1. LP!Sound(a) /\ LP!Tidy(a) /\ LP!Bounded(a) /\ LP!Latched(a)
  BY DEF Kept
<1>2. LP!Sound(b)
  BY <1>1, LP!CreatePendingSound
<1>3. LP!Tidy(b) /\ LP!Bounded(b)
  BY <1>1, LP!CreatePendingRetains
<1>4. LP!KeepsEvidence(a, b)
  BY <1>1, LP!OtherMethodsKeepEvidence
<1>5. LP!Latched(b)
  BY <1>1, <1>4, LP!KeptEvidenceLatches
<1>6. /\ b.nextTurnId = id + 1
      /\ LP!Pending(b) = LP!Pending(a) \cup {id} /\ id \notin LP!Pending(a)
      /\ b.pendingTurns[id] = turn
      /\ LP!LaterEffects(b, id) = <<>>
      /\ \A p \in LP!Pending(a) : /\ b.pendingTurns[p] = a.pendingTurns[p]
                                  /\ LP!LaterEffects(b, p) = LP!LaterEffects(a, p)
  BY <1>1, LP!CreatePendingLands
<1> HIDE DEF b
<1>7. \A p \in LP!Pending(a) : LP!Retained(b, p) = LP!Retained(a, p)
  BY <1>4, <1>6, EvidenceCarriesOver
<1>8. LP!Retained(b, id) = <<>>
  <2>1. id \notin DOMAIN a.queuedEvidence
    BY <1>6, KeptFacts
  <2>2. id \notin DOMAIN b.queuedEvidence
    BY <1>4, <2>1 DEF LP!KeepsEvidence
  <2> QED BY <2>2 DEF LP!Retained
<1>9. Against(b, id) = {}
  BY <1>6, <1>8 DEF Against, Cells
<1>10. \A p \in LP!Pending(a) : Against(b, p) = Against(a, p)
  BY <1>6, <1>7 DEF Against
<1>11. id \in Nat \ {0}
  BY KeptFacts
<1> QED BY <1>0, <1>2, <1>3, <1>5, <1>6, <1>9, <1>10, <1>11 DEF Kept

LEMMA ConfirmPendingSettles ==
    ASSUME NEW a, Kept(a), NEW id
    PROVE  SettledOne(a, Ledger!ConfirmPending(a, id), id)
<1> DEFINE b == LP!ConfirmPending(a, id)
<1>0. Ledger!ConfirmPending(a, id) = b
  BY SameMethods
<1>1. CASE id \notin LP!Pending(a)
  <2>1. b = a
    BY <1>1 DEF LP!ConfirmPending
  <2> HIDE DEF b
  <2> QED BY <1>0, <1>1, <2>1 DEF SettledOne
<1>2. CASE id \in LP!Pending(a)
  <2>1. LP!Sound(a) /\ LP!Tidy(a) /\ LP!Bounded(a) /\ LP!Latched(a)
    BY DEF Kept
  <2>2. LP!Sound(b)
    BY <2>1, LP!ConfirmPendingSound
  <2>3. LP!Tidy(b) /\ LP!Bounded(b)
    BY <1>2, <2>1, LP!ConfirmPendingRetains
  <2>4. LP!KeepsEvidence(a, b)
    BY <1>2, <2>1, LP!SettlingKeepsEvidence
  <2>5. LP!Latched(b)
    BY <2>1, <2>4, LP!KeptEvidenceLatches
  <2>6. /\ b.nextTurnId = a.nextTurnId /\ LP!Pending(b) = LP!Pending(a) \ {id}
        /\ \A p \in LP!Pending(b) :
             /\ b.pendingTurns[p] = a.pendingTurns[p]
             /\ LP!LaterEffects(b, p) =
                   IF p < id THEN LP!LaterEffects(a, p) \o a.pendingTurns[id].effects
                   ELSE LP!LaterEffects(a, p)
    BY <1>2, <2>1, LP!ConfirmPendingLands
  <2> HIDE DEF b
  <2>7. ASSUME NEW p \in LP!Pending(b)
        PROVE  Against(b, p) \subseteq
                 Against(a, p) \cup (IF p < id THEN Cells(a.pendingTurns[id].effects) ELSE {})
    <3>1. LP!Retained(b, p) = LP!Retained(a, p)
      BY <2>4, <2>6, EvidenceCarriesOver
    <3>2. p < id => Cells(LP!LaterEffects(a, p) \o a.pendingTurns[id].effects)
                      = Cells(LP!LaterEffects(a, p)) \cup Cells(a.pendingTurns[id].effects)
      BY <1>2, KeptFacts, CellsOfBoth
    <3> QED BY <2>6, <3>1, <3>2 DEF Against
  <2> QED BY <1>0, <1>2, <2>2, <2>3, <2>5, <2>6, <2>7 DEF SettledOne, Kept
<1> QED BY <1>1, <1>2

LEMMA DiscardPendingSettles ==
    ASSUME NEW a, Kept(a), NEW id
    PROVE  SettledOne(a, Ledger!DiscardPending(a, id), id)
<1> DEFINE b == LP!DiscardPending(a, id)
<1>0. Ledger!DiscardPending(a, id) = b
  BY SameMethods
<1>1. CASE id \notin LP!Pending(a)
  <2>1. b = a
    BY <1>1 DEF LP!DiscardPending
  <2> HIDE DEF b
  <2> QED BY <1>0, <1>1, <2>1 DEF SettledOne
<1>2. CASE id \in LP!Pending(a)
  <2>1. LP!Sound(a) /\ LP!Tidy(a) /\ LP!Bounded(a) /\ LP!Latched(a)
    BY DEF Kept
  <2>2. LP!Sound(b)
    BY <2>1, LP!DiscardPendingSound
  <2>3. LP!Tidy(b) /\ LP!Bounded(b)
    BY <1>2, <2>1, LP!DiscardPendingRetains
  <2>4. LP!KeepsEvidence(a, b)
    BY <1>2, <2>1, LP!SettlingKeepsEvidence
  <2>5. LP!Latched(b)
    BY <2>1, <2>4, LP!KeptEvidenceLatches
  <2>6. /\ b.nextTurnId = a.nextTurnId /\ LP!Pending(b) = LP!Pending(a) \ {id}
        /\ \A p \in LP!Pending(b) : /\ b.pendingTurns[p] = a.pendingTurns[p]
                                    /\ LP!LaterEffects(b, p) = LP!LaterEffects(a, p)
    BY <1>2, <2>1, LP!DiscardPendingLands
  <2> HIDE DEF b
  <2>7. ASSUME NEW p \in LP!Pending(b) PROVE Against(b, p) = Against(a, p)
    <3>1. LP!Retained(b, p) = LP!Retained(a, p)
      BY <2>4, <2>6, EvidenceCarriesOver
    <3> QED BY <2>6, <3>1 DEF Against
  <2> QED BY <1>0, <1>2, <2>2, <2>3, <2>5, <2>6, <2>7 DEF SettledOne, Kept
<1> QED BY <1>1, <1>2

LEMMA DestroyEmpties ==
    ASSUME NEW a, Kept(a)
    PROVE  LET b == Ledger!ReleaseOnDestroy(a)
           IN  Kept(b) /\ LP!Pending(b) = {}
<1> DEFINE b == LP!ReleaseOnDestroy(a)
<1>0. Ledger!ReleaseOnDestroy(a) = b
  BY SameMethods
<1>1. LP!Sound(a) /\ LP!Tidy(a) /\ LP!Bounded(a) /\ LP!Latched(a)
  BY DEF Kept
<1>2. LP!Sound(b) /\ LP!Pending(b) = {}
  BY <1>1, LP!ReleaseOnDestroySound, LP!NothingPendingAfterDestroy
<1>3. LP!Tidy(b) /\ LP!Bounded(b)
  BY <1>1, LP!ReleaseOnDestroyRetains
<1> HIDE DEF b
<1>4. LP!Latched(b)
  BY <1>2, <1>3 DEF LP!Latched, LP!Tidy, LP!Housekept
<1> QED BY <1>0, <1>2, <1>3, <1>4 DEF Kept

LEMMA InitialIsKept ==
    LET a == Ledger!InitialAuthority IN Kept(a) /\ LP!Pending(a) = {} /\ a.nextTurnId = 1
<1> DEFINE a == LP!InitialAuthority
<1>0. Ledger!InitialAuthority = a
  BY SameMethods
<1>1. LP!Sound(a)
  BY LP!InitialSound
<1>2. /\ LP!Pending(a) = {} /\ LP!Confirmed(a) = {} /\ a.dependencyLedger = <<>>
      /\ DOMAIN a.queuedEvidence = {} /\ DOMAIN a.claims = {} /\ a.historyRetain = 0
      /\ a.nextTurnId = 1
  BY DEF LP!InitialAuthority, LP!Pending, LP!Confirmed, LP!EmptyMap
<1> HIDE DEF a
<1>3. LP!Tidy(a)
  BY <1>1, <1>2 DEF LP!Sound, LP!Tidy, LP!Housekept, LP!Quiet
<1>4. LP!Bounded(a)
  <2>1. LP!Unobliged(a) = {}
    BY <1>2 DEF LP!Unobliged
  <2>2. LP!Cardinality({}) = 0
    BY FS_EmptySet DEF LP!Cardinality, LP!IsFiniteSet, Cardinality, IsFiniteSet
  <2> QED BY <1>2, <2>1, <2>2 DEF LP!Bounded
<1>5. LP!Latched(a)
  BY <1>2 DEF LP!Latched
<1> QED BY <1>0, <1>1, <1>2, <1>3, <1>4, <1>5 DEF Kept

-----------------------------------------------------------------------------
(* What the operations on the queue do to types and cells                  *)

(* The items at the given places, in their order.                          *)
Those(list, places) ==
    FlattenSeq([i \in DOMAIN list |-> IF i \in places THEN <<list[i]>> ELSE <<>>])

LEMMA ThosePlaces ==
    ASSUME NEW S, NEW list \in Seq(S), NEW places
    PROVE  /\ Those(list, places) \in Seq(S)
           /\ \A j \in DOMAIN Those(list, places) : \E i \in DOMAIN list \cap places :
                 Those(list, places)[j] = list[i]
           /\ \A i \in DOMAIN list : i \in places => Has(Those(list, places), list[i])
<1> DEFINE seqs == [i \in DOMAIN list |-> IF i \in places THEN <<list[i]>> ELSE <<>>]
<1>1. PICK n \in Nat : n = Len(list) /\ DOMAIN list = 1 .. n
  OBVIOUS
<1>2. FirstOf(seqs, n) = seqs
  BY <1>1 DEF FirstOf
<1>3. \A i \in 1 .. n : seqs[i] \in Seq(S)
  BY <1>1
<1>4. Those(list, places) = FlattenSeq(FirstOf(seqs, n))
  BY <1>2 DEF Those
<1>5. ASSUME NEW i \in 1 .. n, NEW x
      PROVE  (\E k \in DOMAIN seqs[i] : seqs[i][k] = x) <=> i \in places /\ x = list[i]
  BY <1>1
<1> HIDE DEF seqs
<1>6. Those(list, places) \in Seq(S)
  BY <1>3, <1>4, FlattenType
<1>7. \A x : (\E j \in DOMAIN Those(list, places) : Those(list, places)[j] = x)
                <=> \E i \in 1 .. n : \E k \in DOMAIN seqs[i] : seqs[i][k] = x
  <2>1. PICK flat : flat = FlattenSeq(FirstOf(seqs, n))
    OBVIOUS
  <2>2. \A x : (\E j \in DOMAIN flat : flat[j] = x)
                  <=> \E i \in 1 .. n : \E k \in DOMAIN seqs[i] : seqs[i][k] = x
    BY <1>3, <2>1, FlattenMembers
  <2>3. Those(list, places) = flat
    BY <1>4, <2>1
  <2> QED BY <2>2, <2>3
<1>8. \A x : (\E j \in DOMAIN Those(list, places) : Those(list, places)[j] = x)
                <=> \E i \in 1 .. n : i \in places /\ x = list[i]
  BY <1>5, <1>7, Zenon
<1> QED BY <1>1, <1>6, <1>8 DEF Has

LEMMA QueueEntries ==
    ASSUME NEW q, Queue(q)
    PROVE  /\ q \in Seq(Entry) /\ Len(q) \in Nat /\ DOMAIN q = 1 .. Len(q)
           /\ \A i \in DOMAIN q :
                /\ q[i] \in Entry
                /\ q[i].source # "compensation" => AsEffect(q[i]) \in Effect
                /\ q[i].source # "compensation" => AsDerived(AsEffect(q[i])) \in Effect
                /\ AsEffect(q[i]).cell = q[i].cell
                /\ AsDerived(AsEffect(q[i])).cell = q[i].cell
                /\ AsDerived(AsEffect(q[i])).intent = "derive"
<1>1. q \in Seq(Entry) /\ Len(q) \in Nat /\ DOMAIN q = 1 .. Len(q)
  BY DEF Queue
<1>2. ASSUME NEW i \in DOMAIN q
      PROVE  /\ q[i] \in Entry
             /\ q[i].source # "compensation" => AsEffect(q[i]) \in Effect
             /\ q[i].source # "compensation" => AsDerived(AsEffect(q[i])) \in Effect
             /\ AsEffect(q[i]).cell = q[i].cell
             /\ AsDerived(AsEffect(q[i])).cell = q[i].cell
             /\ AsDerived(AsEffect(q[i])).intent = "derive"
  <2>1. q[i] \in Entry
    BY <1>1
  <2>2. q[i].source # "compensation" => q[i].intent \in Intent
    BY DEF Queue, Meant
  <2> QED BY <2>1, <2>2 DEF Entry, Effect, AsEffect, AsDerived, Intent
<1> QED BY <1>1, <1>2

(* A selection from the queue.                                             *)
LEMMA ThoseOfQueue ==
    ASSUME NEW q, Queue(q), NEW places
    PROVE  /\ Queue(Those(q, places))
           /\ \A sources : CellsFrom(Those(q, places), sources) \subseteq CellsFrom(q, sources)
<1> DEFINE r == Those(q, places)
<1>1. /\ r \in Seq(Entry)
      /\ \A j \in DOMAIN r : \E i \in DOMAIN q : r[j] = q[i]
  BY QueueEntries, ThosePlaces
<1> HIDE DEF r
<1>2. Meant(r)
  BY <1>1 DEF Queue, Meant
<1>3. \A sources : CellsFrom(r, sources) \subseteq CellsFrom(q, sources)
  BY <1>1 DEF CellsFrom
<1> QED BY <1>1, <1>2, <1>3 DEF Queue, r

LEMMA FromSources ==
    ASSUME NEW q, Queue(q), NEW sources
    PROVE  /\ Queue(From(q, sources))
           /\ \A i \in DOMAIN From(q, sources) : From(q, sources)[i].source \in sources
           /\ Cells(From(q, sources)) = CellsFrom(q, sources)
<1> DEFINE places == {i \in DOMAIN q : q[i].source \in sources}
           r == Those(q, places)
<1>0. From(q, sources) = r
  <2>1. [i \in DOMAIN q |-> IF q[i].source \in sources THEN <<q[i]>> ELSE <<>>]
          = [i \in DOMAIN q |-> IF i \in places THEN <<q[i]>> ELSE <<>>]
    OBVIOUS
  <2> QED BY <2>1 DEF From, Those
<1>1. /\ \A j \in DOMAIN r : \E i \in DOMAIN q \cap places : r[j] = q[i]
      /\ \A i \in DOMAIN q : i \in places => Has(r, q[i])
  <2>1. q \in Seq(Entry)
    BY QueueEntries
  <2> HIDE DEF places
  <2> QED BY <2>1, ThosePlaces
<1>2. Queue(r)
  BY ThoseOfQueue
<1> HIDE DEF r
<1>3. Cells(r) = CellsFrom(q, sources)
  BY <1>1 DEF Cells, CellsFrom, Has
<1>4. \A j \in DOMAIN r : r[j].source \in sources
  BY <1>1
<1> QED BY <1>0, <1>2, <1>3, <1>4

LEMMA DeliveredSources ==
    ASSUME NEW q, Queue(q), NEW sources
    PROVE  /\ Queue(DeliveredFrom(q, sources))
           /\ \A i \in DOMAIN DeliveredFrom(q, sources) :
                 DeliveredFrom(q, sources)[i].source \in sources
           /\ Cells(DeliveredFrom(q, sources)) \subseteq CellsFrom(q, sources)
<1> DEFINE places == {i \in DOMAIN q : q[i].before # q[i].after /\ q[i].source \in sources}
           r == Those(q, places)
<1>1. DeliveredFrom(q, sources) = r
  <2>1. [i \in DOMAIN q |-> IF q[i].before # q[i].after /\ q[i].source \in sources
                            THEN <<q[i]>> ELSE <<>>]
          = [i \in DOMAIN q |-> IF i \in places THEN <<q[i]>> ELSE <<>>]
    OBVIOUS
  <2> QED BY <2>1 DEF DeliveredFrom, Those
<1>2. \A j \in DOMAIN r : \E i \in DOMAIN q \cap places : r[j] = q[i]
  <2>1. q \in Seq(Entry)
    BY QueueEntries
  <2> HIDE DEF places
  <2> QED BY <2>1, ThosePlaces
<1>3. Queue(r)
  BY ThoseOfQueue
<1> HIDE DEF r
<1>4. Cells(r) \subseteq CellsFrom(q, sources)
  BY <1>2 DEF Cells, CellsFrom
<1>5. \A j \in DOMAIN r : r[j].source \in sources
  BY <1>2
<1> QED BY <1>1, <1>3, <1>4, <1>5

LEMMA EffectsOfQueue ==
    ASSUME NEW q, Queue(q), \A i \in DOMAIN q : q[i].source # "compensation"
    PROVE  /\ Effects(q) \in Seq(Effect) /\ DOMAIN Effects(q) = 1 .. Len(q)
           /\ Cells(Effects(q)) = Cells(q)
<1>1. DOMAIN Effects(q) = DOMAIN q /\ \A i \in DOMAIN q : Effects(q)[i] = AsEffect(q[i])
  BY DEF Effects
<1>2. \A i \in DOMAIN q : AsEffect(q[i]) \in Effect /\ AsEffect(q[i]).cell = q[i].cell
  BY QueueEntries
<1>3. Effects(q) \in Seq(Effect)
  <2>1. PICK n \in Nat : DOMAIN q = 1 .. n
    BY QueueEntries
  <2>2. Effects(q) \in [1 .. n -> Effect]
    BY <1>2, <2>1 DEF Effects
  <2> QED BY <2>2
<1>4. Cells(Effects(q)) = Cells(q)
  BY <1>1, <1>2 DEF Cells
<1> QED BY <1>1, <1>3, <1>4, QueueEntries

LEMMA RealizedOfQueue ==
    ASSUME NEW q, Queue(q)
    PROVE  /\ Realized(q) \in Seq(Effect)
           /\ \E n \in Nat : DOMAIN Realized(q) = 1 .. n
           /\ Cells(Realized(q)) \subseteq CellsFrom(q, {"realized"})
<1> DEFINE r == DeliveredFrom(q, {"realized"})
<1>1. /\ Queue(r) /\ \A i \in DOMAIN r : r[i].source # "compensation"
      /\ Cells(r) \subseteq CellsFrom(q, {"realized"})
  BY DeliveredSources
<1> HIDE DEF r
<1>2. /\ Effects(r) \in Seq(Effect) /\ DOMAIN Effects(r) = 1 .. Len(r)
      /\ Cells(Effects(r)) = Cells(r) /\ Len(r) \in Nat
  BY <1>1, EffectsOfQueue, QueueEntries
<1> QED BY <1>1, <1>2 DEF Realized, r

(* Which sources count against a rollback now.                             *)
Foreign == IF Running THEN {"realized"} ELSE {"realized", "authored"}

LEMMA QueuedLaterOfQueue ==
    ASSUME NEW q, Queue(q)
    PROVE  LET queued == QueuedLaterEffects(q)
           IN  /\ queued \in Seq(Effect) /\ Cells(queued) = CellsFrom(q, Foreign)
               /\ \A i \in DOMAIN queued : queued[i].intent = "derive"
<1> DEFINE r == From(q, Foreign)
           queued == [i \in DOMAIN r |-> AsDerived(AsEffect(r[i]))]
<1>0. QueuedLaterEffects(q) = queued
  BY DEF QueuedLaterEffects, Foreign
<1>1. /\ Queue(r) /\ \A i \in DOMAIN r : r[i].source # "compensation"
      /\ Cells(r) = CellsFrom(q, Foreign)
  BY FromSources DEF Foreign
<1> HIDE DEF r
<1>2. \A i \in DOMAIN r : /\ AsDerived(AsEffect(r[i])) \in Effect
                          /\ AsDerived(AsEffect(r[i])).cell = r[i].cell
                          /\ AsDerived(AsEffect(r[i])).intent = "derive"
  BY <1>1, QueueEntries
<1>3. queued \in Seq(Effect)
  <2>1. PICK n \in Nat : DOMAIN r = 1 .. n
    BY <1>1, QueueEntries
  <2>2. queued \in [1 .. n -> Effect]
    BY <1>2, <2>1
  <2> HIDE DEF queued
  <2> QED BY <2>2
<1>4. Cells(queued) = Cells(r)
  BY <1>2 DEF Cells
<1>5. \A i \in DOMAIN queued : queued[i].intent = "derive"
  BY <1>2
<1> HIDE DEF queued
<1> QED BY <1>0, <1>1, <1>3, <1>4, <1>5

LEMMA YoungestIsOne ==
    ASSUME NEW q, NEW n \in Nat, DOMAIN q = 1 .. n, NEW c, OfCell(q, c) # {}
    PROVE  Youngest(OfCell(q, c)) \in DOMAIN q /\ q[Youngest(OfCell(q, c))].cell = c
<1>1. OfCell(q, c) \subseteq 1 .. n /\ OfCell(q, c) \subseteq Int /\ 1 \in Int /\ n \in Int
  BY DEF OfCell
<1>2. IsFiniteSet(OfCell(q, c))
  BY <1>1, BoundedIsFinite
<1>3. \E i \in OfCell(q, c) : \A j \in OfCell(q, c) : i >= j
  BY <1>1, <1>2, MaxExists
<1>4. \E i \in OfCell(q, c) : \A j \in OfCell(q, c) : j <= i
  BY <1>1, <1>3
<1>5. Youngest(OfCell(q, c)) \in OfCell(q, c)
  BY <1>4 DEF Youngest
<1> QED BY <1>5 DEF OfCell

(* One entry joins another or is inserted: nothing else appears.           *)
LEMMA EnqueueOnQueue ==
    ASSUME NEW q, Queue(q), NEW entry \in Entry,
           entry.source # "compensation" => entry.intent \in Intent
    PROVE  /\ Queue(Enqueue(q, entry))
           /\ \A sources : CellsFrom(Enqueue(q, entry), sources) \subseteq
                 CellsFrom(q, sources) \cup (IF entry.source \in sources THEN {entry.cell} ELSE {})
<1> DEFINE r == Enqueue(q, entry)
<1>1. PICK n \in Nat : n = Len(q) /\ DOMAIN q = 1 .. n
  BY QueueEntries
<1>2. q \in Seq(Entry) /\ \A i \in DOMAIN q : q[i] \in Entry
  BY QueueEntries
<1>3. /\ r \in Seq(Entry)
      /\ \A j \in DOMAIN r :
            \/ r[j] = entry
            \/ \E i \in DOMAIN q : /\ r[j].cell = q[i].cell /\ r[j].source = q[i].source
                                   /\ r[j].intent = q[i].intent
  <2>1. CASE OfCell(q, entry.cell) = {}
    <3>1. r = Append(q, entry)
      BY <2>1 DEF Enqueue
    <3>2. /\ Append(q, entry) \in Seq(Entry)
          /\ \A j \in DOMAIN Append(q, entry) :
                \/ Append(q, entry)[j] = entry
                \/ j \in DOMAIN q /\ Append(q, entry)[j] = q[j]
      BY <1>1, <1>2
    <3> HIDE DEF r
    <3> QED BY <3>1, <3>2
  <2>2. CASE OfCell(q, entry.cell) # {}
    <3>1. PICK i \in DOMAIN q : i = Youngest(OfCell(q, entry.cell)) /\ q[i].cell = entry.cell
      BY <1>1, <2>2, YoungestIsOne
    <3>2. CASE SameIdentity(q[i], entry)
      <4>1. r = [q EXCEPT ![i].after = entry.after]
        BY <2>2, <3>1, <3>2 DEF Enqueue
      <4>2. entry.after \in Value
        BY DEF Entry
      <4>3. \A e \in Entry : [e EXCEPT !.after = entry.after] \in Entry
        BY <4>2 DEF Entry
      <4>4. /\ DOMAIN r = 1 .. n
            /\ \A j \in 1 .. n : r[j] = IF j = i THEN [q[i] EXCEPT !.after = entry.after] ELSE q[j]
        BY <1>1, <4>1
      <4>5. \A e \in Entry : LET f == [e EXCEPT !.after = entry.after]
                             IN  f.cell = e.cell /\ f.source = e.source /\ f.intent = e.intent
        BY DEF Entry
      <4>6. r = [q EXCEPT ![i] = [q[i] EXCEPT !.after = entry.after]]
        BY <4>1
      <4>7. r \in Seq(Entry)
        BY <1>2, <3>1, <4>3, <4>6
      <4> HIDE DEF r
      <4>8. ASSUME NEW j \in DOMAIN r
            PROVE  \E k \in DOMAIN q : /\ r[j].cell = q[k].cell /\ r[j].source = q[k].source
                                       /\ r[j].intent = q[k].intent
        <5>1. j \in DOMAIN q /\ q[j] \in Entry
          BY <1>1, <1>2, <4>4
        <5>2. CASE j = i
          <6>1. r[j] = [q[j] EXCEPT !.after = entry.after]
            BY <4>4, <5>2
          <6> QED BY <4>5, <5>1, <6>1
        <5>3. CASE j # i
          <6>1. r[j] = q[j]
            BY <4>4, <5>3
          <6> QED BY <5>1, <6>1
        <5> QED BY <5>2, <5>3
      <4> QED BY <4>7, <4>8
    <3>3. CASE ~SameIdentity(q[i], entry)
      <4> DEFINE left == SubSeq(q, 1, i)
                 right == SubSeq(q, i + 1, Len(q))
      <4>1. r = left \o <<entry>> \o right
        <5>1. r = InsertAt(q, i + 1, entry)
          BY <2>2, <3>1, <3>3 DEF Enqueue
        <5>2. PICK k : k = i + 1
          OBVIOUS
        <5>3. r = SubSeq(q, 1, k - 1) \o <<entry>> \o SubSeq(q, k, Len(q))
          BY <5>1, <5>2 DEF InsertAt
        <5>4. k - 1 = i
          BY <1>1, <3>1, <5>2
        <5> HIDE DEF r
        <5> QED BY <5>2, <5>3, <5>4
      <4>2. /\ left \in Seq(Entry) /\ Len(left) = i /\ \A j \in 1 .. i : left[j] = q[j]
            /\ right \in Seq(Entry) /\ Len(right) = n - i
            /\ \A j \in 1 .. n - i : right[j] = q[i + j]
        BY <1>1, <1>2, <3>1
      <4> HIDE DEF left, right, r
      <4>3. PICK mid \in Seq(Entry) : mid = left \o <<entry>>
        <5>1. PICK u \in Seq(Entry) : u = left
          BY <4>2
        <5>2. <<entry>> \in Seq(Entry)
          OBVIOUS
        <5>3. u \o <<entry>> \in Seq(Entry)
          BY <5>2
        <5> QED BY <5>1, <5>3
      <4>4. /\ Len(mid) = i + 1 /\ mid[i + 1] = entry
            /\ \A j \in 1 .. i : mid[j] = q[j]
        BY <1>1, <3>1, <4>2, <4>3
      <4>5. r = mid \o right
        BY <4>1, <4>3
      <4>6. r \in Seq(Entry) /\ DOMAIN r = 1 .. n + 1
        <5>1. PICK v \in Seq(Entry) : v = right
          BY <4>2
        <5>2. /\ mid \o v \in Seq(Entry) /\ Len(v) = n - i
              /\ DOMAIN (mid \o v) = 1 .. Len(mid) + Len(v)
          BY <4>2, <5>1
        <5>3. Len(mid) + Len(v) = n + 1
          BY <1>1, <3>1, <4>4, <5>2
        <5> QED BY <4>5, <5>1, <5>2, <5>3
      <4>7. ASSUME NEW j \in DOMAIN r
            PROVE  r[j] = entry \/ \E k \in DOMAIN q : r[j] = q[k]
        <5>1. CASE j <= i + 1
          <6>1. r[j] = mid[j] /\ (j \in 1 .. i \/ j = i + 1)
            BY <1>1, <3>1, <4>2, <4>4, <4>5, <4>6, <5>1
          <6>2. \A k \in 1 .. i : k \in DOMAIN q
            BY <1>1, <3>1
          <6> QED BY <4>4, <6>1, <6>2
        <5>2. CASE j > i + 1
          <6>1. j - (i + 1) \in 1 .. n - i /\ j - 1 \in DOMAIN q /\ i + (j - (i + 1)) = j - 1
            BY <1>1, <3>1, <4>6, <5>2
          <6>2. r[j] = right[j - (i + 1)]
            BY <1>1, <3>1, <4>2, <4>4, <4>5, <4>6, <5>2
          <6> QED BY <4>2, <6>1, <6>2
        <5> QED BY <1>1, <3>1, <4>6, <5>1, <5>2
      <4> QED BY <4>6, <4>7
    <3> QED BY <3>2, <3>3
  <2> QED BY <2>1, <2>2
<1> HIDE DEF r
<1>4. Meant(r)
  BY <1>3 DEF Queue, Meant
<1>5. ASSUME NEW sources
      PROVE  CellsFrom(r, sources) \subseteq
                CellsFrom(q, sources) \cup (IF entry.source \in sources THEN {entry.cell} ELSE {})
  BY <1>3 DEF CellsFrom
<1> QED BY <1>3, <1>4, <1>5 DEF Queue, r

(* A bucket stays a list of effects, on no other cells.                    *)
LEMMA EnqueueEffectOnBucket ==
    ASSUME NEW bucket \in Seq(Effect), NEW effect \in Effect
    PROVE  /\ EnqueueEffect(bucket, effect) \in Seq(Effect)
           /\ Cells(EnqueueEffect(bucket, effect)) \subseteq Cells(bucket) \cup {effect.cell}
<1> DEFINE r == EnqueueEffect(bucket, effect)
<1>1. PICK n \in Nat : n = Len(bucket) /\ DOMAIN bucket = 1 .. n
  OBVIOUS
<1>2. \A i \in DOMAIN bucket : bucket[i] \in Effect
  OBVIOUS
<1>3. CASE OfCell(bucket, effect.cell) = {}
  <2>1. r = Append(bucket, effect)
    BY <1>3 DEF EnqueueEffect
  <2>2. /\ Append(bucket, effect) \in Seq(Effect)
        /\ \A j \in DOMAIN Append(bucket, effect) :
              \/ Append(bucket, effect)[j] = effect
              \/ j \in DOMAIN bucket /\ Append(bucket, effect)[j] = bucket[j]
    BY <1>1
  <2> HIDE DEF r
  <2>3. r \in Seq(Effect) /\ \A j \in DOMAIN r : r[j] = effect \/ \E i \in DOMAIN bucket : r[j] = bucket[i]
    BY <2>1, <2>2
  <2> QED BY <2>3 DEF Cells, r
<1>4. CASE OfCell(bucket, effect.cell) # {}
  <2>1. PICK i \in DOMAIN bucket :
            i = Youngest(OfCell(bucket, effect.cell)) /\ bucket[i].cell = effect.cell
    BY <1>1, <1>4, YoungestIsOne
  <2>2. CASE bucket[i].before = effect.after
    <3> DEFINE left == SubSeq(bucket, 1, i - 1)
               right == SubSeq(bucket, i + 1, Len(bucket))
    <3>1. r = left \o right
      BY <1>4, <2>1, <2>2 DEF EnqueueEffect, RemoveAt
    <3>2. /\ left \in Seq(Effect) /\ Len(left) = i - 1 /\ \A j \in 1 .. i - 1 : left[j] = bucket[j]
          /\ right \in Seq(Effect) /\ Len(right) = n - i
          /\ \A j \in 1 .. n - i : right[j] = bucket[i + j]
      BY <1>1, <2>1
    <3> HIDE DEF left, right, r
    <3>3. r \in Seq(Effect) /\ Cells(r) = Cells(left) \cup Cells(right)
      BY <3>1, <3>2, CellsOfBoth
    <3>4. Cells(left) \subseteq Cells(bucket)
      BY <1>1, <2>1, <3>2 DEF Cells
    <3>5. Cells(right) \subseteq Cells(bucket)
      <4>1. DOMAIN right = 1 .. n - i
        BY <1>1, <2>1, <3>2
      <4>2. \A j \in 1 .. n - i : i + j \in DOMAIN bucket
        BY <1>1, <2>1
      <4> QED BY <3>2, <4>1, <4>2 DEF Cells
    <3> QED BY <3>3, <3>4, <3>5 DEF r
  <2>3. CASE bucket[i].before # effect.after
    <3> DEFINE joined == [bucket[i] EXCEPT !.after = effect.after,
                             !.intent = CombineIntent(@, effect.intent)]
    <3>1. r = [bucket EXCEPT ![i].after = effect.after,
                             ![i].intent = CombineIntent(@, effect.intent)]
      BY <1>4, <2>1, <2>3 DEF EnqueueEffect
    <3>2. /\ DOMAIN r = 1 .. n
          /\ \A j \in 1 .. n : r[j] = IF j = i THEN joined ELSE bucket[j]
      BY <1>1, <3>1
    <3>3. joined \in Effect /\ joined.cell = bucket[i].cell
      <4>1. \A u, v : CombineIntent(u, v) \in Intent
        BY DEF CombineIntent, Intent
      <4>2. bucket[i] \in Effect
        BY <1>2
      <4>3. effect.after \in Value
        BY DEF Effect
      <4> QED BY <4>1, <4>2, <4>3 DEF Effect
    <3> HIDE DEF joined, r
    <3>4. \A j \in 1 .. n : r[j] \in Effect /\ r[j].cell = bucket[j].cell
      BY <1>1, <1>2, <3>2, <3>3
    <3>5. r \in Seq(Effect)
      <4>1. r = [j \in 1 .. n |-> r[j]]
        BY <2>1, <3>1, <1>1
      <4>2. r \in [1 .. n -> Effect]
        BY <3>2, <3>4, <4>1
      <4> QED BY <4>2
    <3>6. Cells(r) \subseteq Cells(bucket)
      BY <1>1, <3>2, <3>4 DEF Cells
    <3> QED BY <3>5, <3>6 DEF r
  <2> QED BY <2>2, <2>3
<1> QED BY <1>3, <1>4

-----------------------------------------------------------------------------
(* The folds: over the entries of a queue, the effects of a compensation   *)
(* and the pending turns                                                   *)

CaptureStep(s, bucket, entry) == CaptureEffects(bucket, entry)
CaptureHolds(cells, n, bucket) == bucket \in Seq(Effect) /\ Cells(bucket) \subseteq cells
Capturing == INSTANCE Stepwise WITH Step <- CaptureStep, Holds <- CaptureHolds

LEMMA CapturedOfQueue ==
    ASSUME NEW q, Queue(q)
    PROVE  NewTurn(Captured(q)) \in LP!Turn /\ NewTurn(Captured(q)).effects = Captured(q)
           /\ Cells(Captured(q)) \subseteq CellsFrom(q, {"authored"})
<1> DEFINE cells == CellsFrom(q, {"authored"})
<1>1. Captured(q) = Capturing!Folded(0, <<>>, q)
  BY DEF Captured, Capturing!Folded, Capturing!Greatest, CaptureStep, FoldLeft, MapThenFoldSet, Max
<1>2. PICK n \in Nat : DOMAIN q = 1 .. n
  BY QueueEntries
<1>3. \A i \in 1 .. n : q[i].source = "authored" => q[i].cell \in cells
  BY <1>2 DEF CellsFrom
<1> HIDE DEF cells
<1>4. CaptureHolds(cells, 0, <<>>)
  <2>1. <<>> \in Seq(Effect) /\ DOMAIN <<>> = {}
    OBVIOUS
  <2> QED BY <2>1 DEF CaptureHolds, Cells
<1>5. ASSUME NEW bucket, NEW i \in 1 .. n, CaptureHolds(cells, i - 1, bucket)
      PROVE  CaptureHolds(cells, i, CaptureStep(0, bucket, q[i]))
  <2>1. bucket \in Seq(Effect) /\ Cells(bucket) \subseteq cells
    BY <1>5 DEF CaptureHolds
  <2>2. CASE q[i].before # q[i].after /\ q[i].source = "authored"
    <3>1. PICK effect : effect = AsEffect(q[i])
      OBVIOUS
    <3>2. effect \in Effect /\ effect.cell \in cells
      BY <1>2, <1>3, <2>2, <3>1, QueueEntries
    <3>3. /\ EnqueueEffect(bucket, effect) \in Seq(Effect)
          /\ Cells(EnqueueEffect(bucket, effect)) \subseteq Cells(bucket) \cup {effect.cell}
      BY <2>1, <3>2, EnqueueEffectOnBucket
    <3>4. CaptureStep(0, bucket, q[i]) = EnqueueEffect(bucket, effect)
      BY <2>2, <3>1 DEF CaptureStep, CaptureEffects
    <3> QED BY <2>1, <3>2, <3>3, <3>4 DEF CaptureHolds
  <2>3. CASE ~(q[i].before # q[i].after /\ q[i].source = "authored")
    <3>1. CaptureStep(0, bucket, q[i]) = bucket
      BY <2>3 DEF CaptureStep, CaptureEffects
    <3> QED BY <1>5, <3>1 DEF CaptureHolds
  <2> QED BY <2>2, <2>3
<1>6. CaptureHolds(cells, n, Captured(q))
  <2>1. Capturing!PlacesAreOrdered(n)
    BY LeastPlaces DEF Capturing!PlacesAreOrdered
  <2> QED BY <1>1, <1>2, <1>4, <1>5, <2>1, Capturing!FoldKeeps
<1> QED BY <1>6 DEF CaptureHolds, NewTurn, LP!Turn, cells

CompensateStep(s, q, effect) == Enqueue(q, CompensationEntry(effect))
CompensateHolds(before, q) ==
    /\ Queue(q)
    /\ \A sources : "compensation" \notin sources
                      => CellsFrom(q, sources) \subseteq CellsFrom(before, sources)
CompensatedHolds(before, n, q) == CompensateHolds(before, q)
Compensating == INSTANCE Stepwise WITH Step <- CompensateStep, Holds <- CompensatedHolds

(* Compensations wait in the queue, and nothing else is new in it.         *)
LEMMA CompensationOnQueue ==
    ASSUME NEW q, Queue(q), NEW effects \in Seq(Effect)
    PROVE  CompensateHolds(q, EnqueueCompensation(q, effects))
<1>1. PICK n \in Nat : DOMAIN effects = 1 .. n
  OBVIOUS
<1>2. EnqueueCompensation(q, effects) = Compensating!Folded(0, q, effects)
  BY DEF EnqueueCompensation, Compensating!Folded, Compensating!Greatest, CompensateStep,
         FoldLeft, MapThenFoldSet, Max
<1>3. CompensatedHolds(q, 0, q)
  BY DEF CompensatedHolds, CompensateHolds
<1>4. ASSUME NEW r, NEW i \in 1 .. n, CompensatedHolds(q, i - 1, r)
      PROVE  CompensatedHolds(q, i, CompensateStep(0, r, effects[i]))
  <2> DEFINE entry == CompensationEntry(effects[i])
  <2>1. effects[i] \in Effect
    BY <1>1
  <2>2. entry \in Entry /\ entry.source = "compensation"
    BY <2>1 DEF CompensationEntry, Effect, Entry
  <2> HIDE DEF entry
  <2>3. Queue(r)
    BY <1>4 DEF CompensatedHolds, CompensateHolds
  <2>4. /\ Queue(Enqueue(r, entry))
        /\ \A sources : CellsFrom(Enqueue(r, entry), sources) \subseteq
              CellsFrom(r, sources) \cup (IF entry.source \in sources THEN {entry.cell} ELSE {})
    BY <2>2, <2>3, EnqueueOnQueue
  <2>5. \A sources : "compensation" \notin sources
                       => CellsFrom(Enqueue(r, entry), sources) \subseteq CellsFrom(q, sources)
    BY <1>4, <2>2, <2>4 DEF CompensatedHolds, CompensateHolds
  <2> QED BY <2>4, <2>5 DEF CompensatedHolds, CompensateHolds, CompensateStep, entry
<1>5. CompensatedHolds(q, n, EnqueueCompensation(q, effects))
  <2>1. Compensating!PlacesAreOrdered(n)
    BY LeastPlaces DEF Compensating!PlacesAreOrdered
  <2> QED BY <1>1, <1>2, <1>3, <1>4, <2>1, Compensating!FoldKeeps
<1> QED BY <1>5 DEF CompensatedHolds

(* p says from which ledger, and about which cells.                        *)
GrewHolds(p, n, b) == Grew(p.from, b, p.cells) /\ b.nextTurnId = p.from.nextTurnId

LatchStep(effects, a, id) == Ledger!ObserveQueuedEffects(a, id, effects)
Latching == INSTANCE Stepwise WITH Step <- LatchStep, Holds <- GrewHolds

(* A finite set is listed at the places from one to its size.              *)
LEMMA SetToSeqPlaces ==
    ASSUME NEW S, IsFiniteSet(S)
    PROVE  \E n \in Nat : DOMAIN SetToSeq(S) = 1 .. n
<1>1. Cardinality(S) \in Nat /\ ExistsBijection(1 .. Cardinality(S), S)
  BY FS_CardinalityType
<1>2. \E f \in [1 .. Cardinality(S) -> S] : IsInjective(f)
  BY <1>1 DEF ExistsBijection, Bijection, Injection, IsInjective
<1>3. SetToSeq(S) \in [1 .. Cardinality(S) -> S]
  BY <1>2 DEF SetToSeq
<1> QED BY <1>1, <1>3

LEMMA LatchQueuedGrows ==
    ASSUME NEW a, Kept(a), NEW effects \in Seq(Effect)
    PROVE  LET b == LatchQueued(a, effects)
           IN  Grew(a, b, Cells(effects)) /\ b.nextTurnId = a.nextTurnId
<1> DEFINE p == [from |-> a, cells |-> Cells(effects)]
           list == SetToSeq(Ledger!Pending(a))
<1>1. PICK n \in Nat : DOMAIN list = 1 .. n
  <2>1. LP!Pending(a) \subseteq Int /\ Ledger!Pending(a) = LP!Pending(a)
    BY KeptFacts, SameReads
  <2>2. IsFiniteSet(Ledger!Pending(a))
    <3>1. PICK m \in Nat : LP!Pending(a) \subseteq 1 .. m
      BY KeptFacts
    <3>2. IsFiniteSet(1 .. m)
      BY <3>1, FS_Interval
    <3> QED BY <2>1, <3>1, <3>2, FS_Subset
  <2> QED BY <2>2, SetToSeqPlaces
<1>2. LatchQueued(a, effects) = Latching!Folded(effects, a, list)
  BY DEF Latching!Folded, LatchQueued, Latching!Greatest, LatchStep, FoldLeft, MapThenFoldSet, Max
<1> HIDE DEF list
<1>3. GrewHolds(p, 0, a)
  BY GrewNot DEF GrewHolds
<1>4. ASSUME NEW b, NEW i \in 1 .. n, GrewHolds(p, i - 1, b)
      PROVE  GrewHolds(p, i, LatchStep(effects, b, list[i]))
  <2>1. Grew(a, b, Cells(effects)) /\ Kept(b) /\ b.nextTurnId = a.nextTurnId
    BY <1>4 DEF GrewHolds, Grew
  <2>2. LET c == Ledger!ObserveQueuedEffects(b, list[i], effects)
        IN  Grew(b, c, Cells(effects)) /\ c.nextTurnId = b.nextTurnId
    BY <2>1, ObserveQueuedGrows
  <2>3. Grew(a, Ledger!ObserveQueuedEffects(b, list[i], effects), Cells(effects))
    BY <2>1, <2>2, GrewIsTransitive
  <2> QED BY <2>1, <2>2, <2>3 DEF GrewHolds, LatchStep
<1> HIDE DEF p
<1>5. GrewHolds(p, n, LatchQueued(a, effects))
  <2>1. Latching!PlacesAreOrdered(n)
    BY LeastPlaces DEF Latching!PlacesAreOrdered
  <2> QED BY <1>1, <1>2, <1>3, <1>4, <2>1, Latching!FoldKeeps
<1> QED BY <1>5 DEF GrewHolds, p

ObserveStep(s, a, effect) == Ledger!ObserveLaterEffects(a, <<effect>>)
Observing == INSTANCE Stepwise WITH Step <- ObserveStep, Holds <- GrewHolds

LEMMA ObserveRealizedGrows ==
    ASSUME NEW a, Kept(a), NEW q, Queue(q)
    PROVE  LET b == ObserveRealized(a, q)
           IN  Grew(a, b, CellsFrom(q, {"realized"})) /\ b.nextTurnId = a.nextTurnId
<1> DEFINE cells == CellsFrom(q, {"realized"})
           p == [from |-> a, cells |-> cells]
           list == Realized(q)
<1>1. PICK n \in Nat : DOMAIN list = 1 .. n
  BY RealizedOfQueue
<1>2. list \in Seq(Effect) /\ Cells(list) \subseteq cells
  BY RealizedOfQueue
<1>3. ObserveRealized(a, q) = Observing!Folded(0, a, list)
  BY DEF Observing!Folded, ObserveRealized, Observing!Greatest, ObserveStep, FoldLeft, MapThenFoldSet, Max
<1> HIDE DEF list, cells
<1>4. GrewHolds(p, 0, a)
  BY GrewNot DEF GrewHolds
<1>5. ASSUME NEW b, NEW i \in 1 .. n, GrewHolds(p, i - 1, b)
      PROVE  GrewHolds(p, i, ObserveStep(0, b, list[i]))
  <2> DEFINE c == Ledger!ObserveLaterEffects(b, <<list[i]>>)
  <2>1. Grew(a, b, cells) /\ Kept(b) /\ b.nextTurnId = a.nextTurnId
    BY <1>5 DEF GrewHolds, Grew
  <2>2. <<list[i]>> \in Seq(Effect) /\ list[i].cell \in cells
    BY <1>1, <1>2 DEF Cells
  <2>3. Cells(<<list[i]>>) \subseteq cells
    BY <2>2 DEF Cells
  <2>4. Grew(b, c, Cells(<<list[i]>>)) /\ c.nextTurnId = b.nextTurnId
    BY <2>1, <2>2, ObserveLaterGrows
  <2> HIDE DEF c
  <2>5. Grew(b, c, cells)
    BY <2>3, <2>4, GrewMore
  <2>6. Grew(a, c, cells)
    BY <2>1, <2>5, GrewIsTransitive
  <2> QED BY <2>1, <2>4, <2>6 DEF GrewHolds, ObserveStep, c
<1> HIDE DEF p
<1>6. GrewHolds(p, n, ObserveRealized(a, q))
  <2>1. Observing!PlacesAreOrdered(n)
    BY LeastPlaces DEF Observing!PlacesAreOrdered
  <2> QED BY <1>1, <1>3, <1>4, <1>5, <2>1, Observing!FoldKeeps
<1> QED BY <1>6 DEF GrewHolds, p, cells

(* A flush tells about what was delivered, and opens no proposal.          *)
LEMMA FlushOrdinaryGrows ==
    ASSUME NEW a, Kept(a), NEW q, Queue(q)
    PROVE  Grew(a, FlushOrdinary(a, q), CellsFrom(q, Authoring))
<1> DEFINE b == ObserveRealized(a, q)
           turn == NewTurn(Captured(q))
           cells == CellsFrom(q, Authoring)
<1>1. Grew(a, b, CellsFrom(q, {"realized"})) /\ Kept(b)
  BY ObserveRealizedGrows DEF Grew
<1>2. turn \in LP!Turn /\ Cells(turn.effects) \subseteq CellsFrom(q, {"authored"})
  BY CapturedOfQueue
<1>3. CellsFrom(q, {"realized"}) \subseteq cells /\ CellsFrom(q, {"authored"}) \subseteq cells
  BY DEF CellsFrom, Authoring
<1> HIDE DEF b, turn, cells
<1>4. Grew(a, b, cells)
  BY <1>1, <1>3, GrewMore
<1>5. Grew(b, Ledger!RecordConfirmed(b, turn), cells)
  BY <1>1, <1>2, <1>3, RecordConfirmedGrows, GrewMore
<1>6. Grew(a, Ledger!RecordConfirmed(b, turn), cells)
  BY <1>4, <1>5, GrewIsTransitive
<1> QED BY <1>4, <1>6 DEF FlushOrdinary, b, turn, cells

LEMMA OpenedGrows ==
    ASSUME NEW a, Kept(a), NEW q, Queue(q)
    PROVE  Grew(a, Opened(a, q), CellsFrom(q, Authoring))
<1> DEFINE queued == QueuedLaterEffects(q)
           b == LatchQueued(a, queued)
           cells == CellsFrom(q, Authoring)
<1>1. queued \in Seq(Effect) /\ Cells(queued) \subseteq cells
  BY QueuedLaterOfQueue DEF CellsFrom, Foreign, Authoring
<1> HIDE DEF queued
<1>2. Grew(a, b, Cells(queued)) /\ Kept(b)
  BY <1>1, LatchQueuedGrows DEF Grew
<1>3. Grew(b, FlushOrdinary(b, q), cells)
  BY <1>2, FlushOrdinaryGrows
<1> HIDE DEF b, cells
<1>4. Grew(a, b, cells)
  BY <1>1, <1>2, GrewMore
<1> QED BY <1>3, <1>4, GrewIsTransitive DEF Opened, b, cells, queued

-----------------------------------------------------------------------------
(* What keeps a runtime usable: the pieces the actions are made of         *)

LEMMA HandlesAre ==
    ASSUME NEW a, NEW hs, NEW q, NEW ly, NEW to, Live(a, hs, q, ly, to)
    PROVE  /\ hs \in Seq(Handle) /\ Len(hs) \in Nat /\ DOMAIN hs = 1 .. Len(hs)
           /\ DOMAIN to = 1 .. Len(hs)
           /\ \A n \in DOMAIN hs :
                /\ hs[n] \in Handle /\ hs[n].turn \in Nat /\ to[n] \in SUBSET Cell
                /\ hs[n] = [turn |-> hs[n].turn, lifecycle |-> hs[n].lifecycle]
           /\ Queue(q) /\ ly \in [Cell -> Seq(Layer)]
<1>1. hs \in Seq(Handle) /\ to \in Seq(SUBSET Cell) /\ Len(to) = Len(hs)
  BY DEF Live, Shaped
<1>2. /\ Len(hs) \in Nat /\ DOMAIN hs = 1 .. Len(hs) /\ DOMAIN to = 1 .. Len(hs)
      /\ \A n \in DOMAIN hs : hs[n] \in Handle /\ to[n] \in SUBSET Cell
  BY <1>1
<1>3. \A h \in Handle : h.turn \in Nat /\ h = [turn |-> h.turn, lifecycle |-> h.lifecycle]
  BY DEF Handle
<1> QED BY <1>1, <1>2, <1>3 DEF Live, Shaped

(* The handle of a pending turn is pending, and the only one of the turn.  *)
LEMMA PendingHandle ==
    ASSUME NEW a, NEW hs, NEW q, NEW ly, NEW to, Live(a, hs, q, ly, to),
           NEW n \in DOMAIN hs, hs[n].turn \in LP!Pending(a)
    PROVE  hs[n] = [turn |-> hs[n].turn, lifecycle |-> "pending"]
<1>1. PICK m \in DOMAIN hs : hs[m] = [turn |-> hs[n].turn, lifecycle |-> "pending"]
  BY DEF Live, Owned
<1>2. hs[n].turn # NoTurn
  BY KeptFacts DEF Live, NoTurn
<1>3. m = n
  BY <1>1, <1>2 DEF Live, TurnsDiffer
<1> QED BY <1>1, <1>3

(* Evidence about what waits in the queue changes no responsibility.       *)
LEMMA LiveGrew ==
    ASSUME NEW a, NEW hs, NEW q, NEW ly, NEW to, Live(a, hs, q, ly, to),
           NEW b, NEW cells, Grew(a, b, cells), cells \subseteq CellsFrom(q, Authoring)
    PROVE  Live(b, hs, q, ly, to)
<1>1. LP!Pending(b) = LP!Pending(a) /\ b.pendingTurns = a.pendingTurns /\ Kept(b)
  BY DEF Grew, LP!Pending
<1>2. Owned(b, hs)
  <2>1. a.nextTurnId \in Nat /\ b.nextTurnId \in Nat /\ b.nextTurnId >= a.nextTurnId
    BY <1>1, KeptFacts DEF Grew, Live
  <2>2. \A n \in DOMAIN hs : hs[n].turn \in Nat /\ hs[n].turn < a.nextTurnId
    BY HandlesAre DEF Live, Owned
  <2>3. \A n \in DOMAIN hs : hs[n].turn < b.nextTurnId
    BY <2>1, <2>2
  <2> QED BY <1>1, <2>3 DEF Live, Owned
<1>3. PendingAccounted(b, hs, q, ly, to)
  <2> SUFFICES ASSUME NEW n \in DOMAIN hs, hs[n].turn \in LP!Pending(b)
               PROVE  /\ Accounted(b, hs[n].turn, WroteIn(ly, n), to[n])
                      /\ CellsFrom(q, Authoring) \subseteq to[n]
    BY DEF PendingAccounted
  <2>1. /\ Accounted(a, hs[n].turn, WroteIn(ly, n), to[n])
        /\ CellsFrom(q, Authoring) \subseteq to[n]
    BY <1>1 DEF Live, PendingAccounted
  <2>2. Against(b, hs[n].turn) \subseteq Against(a, hs[n].turn) \cup cells
    BY <1>1 DEF Grew
  <2> QED BY <1>1, <2>1, <2>2 DEF Accounted
<1> QED BY <1>1, <1>2, <1>3 DEF Live

(* A queue with fewer writes in it, and any compensations.                 *)
LEMMA LiveQueue ==
    ASSUME NEW a, NEW hs, NEW q, NEW ly, NEW to, Live(a, hs, q, ly, to),
           NEW r, CompensateHolds(q, r)
    PROVE  Live(a, hs, r, ly, to)
<1>1. /\ Queue(r)
      /\ CellsFrom(r, Authoring) \subseteq CellsFrom(q, Authoring)
      /\ CellsFrom(r, {"authored"}) \subseteq CellsFrom(q, {"authored"})
      /\ CellsFrom(r, {"realized"}) \subseteq CellsFrom(q, {"realized"})
  BY DEF CompensateHolds, Authoring
<1>2. Shaped(hs, r, ly, to)
  BY <1>1 DEF Live, Shaped
<1>3. PendingAccounted(a, hs, r, ly, to)
  BY <1>1 DEF Live, PendingAccounted
<1>4. RunningAccounted(hs, r, ly, to)
  BY <1>1 DEF Live, RunningAccounted
<1> QED BY <1>2, <1>3, <1>4 DEF Live

LEMMA EmptyQueue == \A q : CompensateHolds(q, <<>>)
<1>1. <<>> \in Seq(Entry) /\ DOMAIN <<>> = {}
  OBVIOUS
<1> QED BY <1>1 DEF CompensateHolds, Queue, Meant, CellsFrom

Settle(hs, n, life) == [hs EXCEPT ![n] = [turn |-> hs[n].turn, lifecycle |-> life]]

(* The history goes on without transaction n.                              *)
GoesOn(hs, n, ly, ls) ==
    /\ ls \in [Cell -> Seq(Layer)]
    /\ \A m \in DOMAIN hs : m # n => WroteIn(ls, m) = WroteIn(ly, m)

(* One turn is settled by its handle, and its writes leave the history or  *)
(* are nobody's any more.                                                  *)
LEMMA LiveSettle ==
    ASSUME NEW a, NEW hs, NEW q, NEW ly, NEW to, Live(a, hs, q, ly, to),
           NEW n \in DOMAIN hs, hs[n].lifecycle = "pending",
           NEW b, SettledOne(a, b, hs[n].turn),
           NEW life \in {"confirmed", "rejected"},
           NEW ls, GoesOn(hs, n, ly, ls)
    PROVE  Live(b, Settle(hs, n, life), q, ls, to)
<1> DEFINE id == hs[n].turn
           gs == Settle(hs, n, life)
<1>1. /\ Kept(b) /\ b.nextTurnId = a.nextTurnId /\ LP!Pending(b) = LP!Pending(a) \ {id}
      /\ \A p \in LP!Pending(b) :
            /\ b.pendingTurns[p] = a.pendingTurns[p]
            /\ Against(b, p) \subseteq
                 Against(a, p) \cup (IF id \in LP!Pending(a) /\ p < id
                                     THEN Cells(a.pendingTurns[id].effects) ELSE {})
  BY DEF SettledOne
<1>2. id \in Nat /\ [turn |-> id, lifecycle |-> life] \in Handle
  BY HandlesAre DEF Handle
<1>3. /\ gs \in Seq(Handle) /\ DOMAIN gs = DOMAIN hs /\ Len(gs) = Len(hs)
      /\ gs[n] = [turn |-> id, lifecycle |-> life]
      /\ \A m \in DOMAIN hs : m # n => gs[m] = hs[m]
      /\ \A m \in DOMAIN hs : gs[m].turn = hs[m].turn
  BY <1>2, HandlesAre DEF Settle
<1> HIDE DEF gs
<1>4. Shaped(gs, q, ls, to)
  BY <1>3 DEF Live, Shaped, GoesOn
<1>5. TurnsDiffer(gs)
  BY <1>3 DEF Live, TurnsDiffer
<1>6. Owned(b, gs)
  <2>1. \A m \in DOMAIN gs : gs[m].turn < b.nextTurnId
    BY <1>1, <1>3 DEF Live, Owned
  <2>2. ASSUME NEW m \in DOMAIN gs, gs[m].lifecycle = "pending", gs[m].turn # NoTurn
        PROVE  gs[m].turn \in LP!Pending(b)
    <3>1. m # n
      BY <1>3, <2>2
    <3>2. hs[m].turn \in LP!Pending(a)
      BY <1>3, <2>2, <3>1 DEF Live, Owned
    <3>3. hs[m].turn # id
      BY <1>3, <2>2, <3>1 DEF Live, TurnsDiffer
    <3> QED BY <1>1, <1>3, <3>1, <3>2, <3>3
  <2>3. ASSUME NEW p \in LP!Pending(b)
        PROVE  \E m \in DOMAIN gs : gs[m] = [turn |-> p, lifecycle |-> "pending"]
    <3>1. p \in LP!Pending(a) /\ p # id
      BY <1>1
    <3>2. PICK m \in DOMAIN hs : hs[m] = [turn |-> p, lifecycle |-> "pending"]
      BY <3>1 DEF Live, Owned
    <3>3. m # n
      BY <3>1, <3>2
    <3> QED BY <1>3, <3>2, <3>3
  <2> QED BY <2>1, <2>2, <2>3 DEF Owned
<1>7. OnlyLastRuns(gs)
  <2>1. \A m \in DOMAIN gs : gs[m].lifecycle = "running" => m # n
    BY <1>3
  <2> QED BY <1>3, <2>1 DEF Live, OnlyLastRuns
<1>8. PendingAccounted(b, gs, q, ls, to)
  <2> SUFFICES ASSUME NEW m \in DOMAIN gs, gs[m].turn \in LP!Pending(b)
               PROVE  /\ Accounted(b, gs[m].turn, WroteIn(ls, m), to[m])
                      /\ CellsFrom(q, Authoring) \subseteq to[m]
    BY DEF PendingAccounted
  <2> DEFINE p == hs[m].turn
  <2>1. gs[m].turn = p /\ p \in LP!Pending(a) /\ p # id /\ m # n
    BY <1>1, <1>3
  <2>2. WroteIn(ls, m) = WroteIn(ly, m)
    BY <1>3, <2>1 DEF GoesOn
  <2>3. Accounted(a, p, WroteIn(ly, m), to[m]) /\ CellsFrom(q, Authoring) \subseteq to[m]
    BY <1>3, <2>1 DEF Live, PendingAccounted
  <2>4. p \in Nat
    BY <1>3, HandlesAre
  <2> HIDE DEF p
  <2>5. Against(b, p) \subseteq to[m]
    <3>1. CASE id \in LP!Pending(a) /\ p < id
      <4>1. id > p
        BY <1>2, <2>4, <3>1
      <4> HIDE DEF id
      <4>2. Cells(a.pendingTurns[id].effects) \subseteq to[m]
        BY <2>3, <3>1, <4>1 DEF Accounted
      <4> QED BY <1>1, <2>1, <2>3, <4>2 DEF Accounted
    <3>2. CASE ~(id \in LP!Pending(a) /\ p < id)
      <4>1. Against(b, p) \subseteq Against(a, p)
        BY <1>1, <2>1, <3>2
      <4> QED BY <2>3, <4>1 DEF Accounted
    <3> QED BY <3>1, <3>2
  <2>6. Accounted(b, p, WroteIn(ly, m), to[m])
    BY <1>1, <2>1, <2>3, <2>5 DEF Accounted
  <2> QED BY <2>1, <2>2, <2>3, <2>6
<1>9. RunningAccounted(gs, q, ls, to)
  <2> SUFFICES ASSUME Runs(gs)
               PROVE  /\ CellsFrom(q, {"realized"}) \subseteq to[Len(gs)]
                      /\ CellsFrom(q, {"authored"}) \subseteq WroteIn(ls, Len(gs))
    BY DEF RunningAccounted
  <2>1. hs # <<>> /\ Len(hs) \in DOMAIN hs
    BY HandlesAre
  <2>2. Len(hs) # n
    BY <1>3 DEF Runs
  <2>3. Runs(hs)
    BY <1>3, <2>1, <2>2 DEF Runs
  <2> QED BY <1>3, <2>1, <2>2, <2>3 DEF Live, RunningAccounted, GoesOn
<1> QED BY <1>1, <1>4, <1>5, <1>6, <1>7, <1>8, <1>9 DEF Live, gs

(* From a to b the writes waiting in q have become turn id, or none; what  *)
(* others wrote meanwhile tells against it and against the older ones.     *)
Staged(a, b, id, q) ==
    LET foreign == CellsFrom(q, {"realized"}) IN
    /\ Kept(b) /\ id \in Nat
    /\ id = NoTurn => Grew(a, b, foreign)
    /\ id # NoTurn =>
        /\ id >= a.nextTurnId /\ id < b.nextTurnId
        /\ LP!Pending(b) = LP!Pending(a) \cup {id}
        /\ Cells(b.pendingTurns[id].effects) \subseteq CellsFrom(q, {"authored"})
        /\ Against(b, id) \subseteq foreign
        /\ \A p \in LP!Pending(a) : /\ b.pendingTurns[p] = a.pendingTurns[p]
                                    /\ Against(b, p) \subseteq Against(a, p) \cup foreign

LEMMA MaterializedStages ==
    ASSUME NEW a, Kept(a), NEW q, Queue(q), Running
    PROVE  LET staged == Materialized(a, q) IN Staged(a, staged.authority, staged.turn, q)
<1> DEFINE foreign  == CellsFrom(q, {"realized"})
           queued   == QueuedLaterEffects(q)
           latched  == LatchQueued(a, queued)
           observed == ObserveRealized(latched, q)
           realized == Realized(q)
           derived  == [i \in DOMAIN realized |-> AsDerived(realized[i])]
           id       == observed.nextTurnId
           turn     == NewTurn(Captured(q))
           opened   == Ledger!CreatePending(observed, turn)
           final    == Ledger!ObserveQueuedEffects(opened, id, queued \o derived)
<1>1. Materialized(a, q) = IF Authored(q) = <<>> THEN [authority |-> observed, turn |-> NoTurn]
                           ELSE [authority |-> final, turn |-> id]
  BY DEF Materialized
<1>2. queued \in Seq(Effect) /\ Cells(queued) = foreign
  BY QueuedLaterOfQueue DEF Foreign
<1>3. derived \in Seq(Effect) /\ Cells(derived) \subseteq foreign
  <2>1. PICK n \in Nat : DOMAIN realized = 1 .. n
    BY RealizedOfQueue
  <2>2. realized \in Seq(Effect) /\ Cells(realized) \subseteq foreign
    BY RealizedOfQueue
  <2> HIDE DEF realized, foreign
  <2>3. \A e \in Effect : AsDerived(e) \in Effect /\ AsDerived(e).cell = e.cell
    BY DEF AsDerived, Effect, Intent
  <2>4. \A i \in DOMAIN realized : AsDerived(realized[i]) \in Effect
                                   /\ AsDerived(realized[i]).cell = realized[i].cell
    BY <2>2, <2>3
  <2>5. derived \in [1 .. n -> Effect]
    BY <2>1, <2>4
  <2>6. Cells(derived) = Cells(realized)
    BY <2>4 DEF Cells
  <2> HIDE DEF derived
  <2> QED BY <2>2, <2>5, <2>6
<1> HIDE DEF queued, realized, derived
<1>4. queued \o derived \in Seq(Effect) /\ Cells(queued \o derived) \subseteq foreign
  <2>1. Cells(queued \o derived) = Cells(queued) \cup Cells(derived)
    BY <1>2, <1>3, CellsOfBoth
  <2> QED BY <1>2, <1>3, <2>1
<1>5. turn \in LP!Turn /\ Cells(turn.effects) \subseteq CellsFrom(q, {"authored"})
  BY CapturedOfQueue
<1>6. Grew(a, latched, foreign) /\ Kept(latched)
  BY <1>2, LatchQueuedGrows DEF Grew
<1> HIDE DEF latched, turn
<1>7. Grew(latched, observed, foreign) /\ Kept(observed)
  BY <1>6, ObserveRealizedGrows DEF Grew
<1> HIDE DEF observed
<1>8. Grew(a, observed, foreign)
  BY <1>6, <1>7, GrewIsTransitive
<1>9. CASE Authored(q) = <<>>
  <2>1. Materialized(a, q).authority = observed /\ Materialized(a, q).turn = NoTurn
    BY <1>1, <1>9
  <2>2. NoTurn \in Nat
    BY DEF NoTurn
  <2> QED BY <1>7, <1>8, <2>1, <2>2 DEF Staged
<1>10. CASE Authored(q) # <<>>
  <2>1. Materialized(a, q).authority = final /\ Materialized(a, q).turn = id
    BY <1>1, <1>10
  <2>2. /\ Kept(opened) /\ opened.nextTurnId = id + 1
        /\ id \in Nat \ {0} /\ id \notin LP!Pending(observed)
        /\ LP!Pending(opened) = LP!Pending(observed) \cup {id}
        /\ opened.pendingTurns[id] = turn /\ Against(opened, id) = {}
        /\ \A p \in LP!Pending(observed) : /\ opened.pendingTurns[p] = observed.pendingTurns[p]
                                           /\ Against(opened, p) = Against(observed, p)
    BY <1>5, <1>7, CreatePendingOpens
  <2> HIDE DEF opened, id
  <2>3. Grew(opened, final, Cells(queued \o derived)) /\ final.nextTurnId = opened.nextTurnId
    BY <1>4, <2>2, ObserveQueuedGrows
  <2> HIDE DEF final, foreign
  <2>4. Grew(opened, final, foreign)
    BY <1>4, <2>3, GrewMore
  <2>5. LP!Pending(observed) = LP!Pending(a) /\ observed.pendingTurns = a.pendingTurns
        /\ observed.nextTurnId >= a.nextTurnId
    BY <1>8 DEF Grew, LP!Pending
  <2>6. LP!Pending(final) = LP!Pending(opened) /\ final.pendingTurns = opened.pendingTurns
        /\ Kept(final)
    BY <2>4 DEF Grew, LP!Pending
  <2>7. id >= a.nextTurnId /\ id < final.nextTurnId /\ id # NoTurn /\ id \in Nat
    BY <2>2, <2>3, <2>5 DEF id, NoTurn
  <2>8. LP!Pending(final) = LP!Pending(a) \cup {id}
    BY <2>2, <2>5, <2>6
  <2>9. Cells(final.pendingTurns[id].effects) \subseteq CellsFrom(q, {"authored"})
    BY <1>5, <2>2, <2>6
  <2>10. Against(final, id) \subseteq foreign
    BY <2>2, <2>4 DEF Grew
  <2>11. ASSUME NEW p \in LP!Pending(a)
         PROVE  /\ final.pendingTurns[p] = a.pendingTurns[p]
                /\ Against(final, p) \subseteq Against(a, p) \cup foreign
    <3>1. /\ opened.pendingTurns[p] = a.pendingTurns[p]
          /\ Against(opened, p) = Against(observed, p) /\ p \in LP!Pending(opened)
      BY <2>2, <2>5
    <3>2. Against(observed, p) \subseteq Against(a, p) \cup foreign
      BY <1>8 DEF Grew
    <3>3. Against(final, p) \subseteq Against(opened, p) \cup foreign
      BY <2>4, <3>1 DEF Grew
    <3> QED BY <2>6, <3>1, <3>2, <3>3
  <2> QED BY <2>1, <2>6, <2>7, <2>8, <2>9, <2>10, <2>11 DEF Staged, foreign
<1> QED BY <1>9, <1>10

LEMMA LiveStaged ==
    ASSUME NEW a, NEW hs, NEW q, NEW ly, NEW to, Live(a, hs, q, ly, to), Runs(hs),
           NEW b, NEW id, Staged(a, b, id, q)
    PROVE  Live(b, [hs EXCEPT ![Len(hs)] = [turn |-> id, lifecycle |-> "pending"]], <<>>, ly, to)
<1> DEFINE n == Len(hs)
           gs == [hs EXCEPT ![n] = [turn |-> id, lifecycle |-> "pending"]]
           foreign == CellsFrom(q, {"realized"})
<1>1. n \in DOMAIN hs /\ hs[n].lifecycle = "running" /\ hs[n].turn = NoTurn
  <2>1. n \in DOMAIN hs
    BY HandlesAre DEF Runs
  <2> QED BY <2>1 DEF Runs, Live, OnlyLastRuns
<1>2. Kept(b) /\ id \in Nat /\ [turn |-> id, lifecycle |-> "pending"] \in Handle
  BY DEF Staged, Handle
<1>3. /\ gs \in Seq(Handle) /\ DOMAIN gs = DOMAIN hs /\ Len(gs) = Len(hs)
      /\ gs[n] = [turn |-> id, lifecycle |-> "pending"]
      /\ \A m \in DOMAIN hs : m # n => gs[m] = hs[m]
  BY <1>1, <1>2, HandlesAre
<1>4. /\ CellsFrom(q, {"authored"}) \subseteq WroteIn(ly, n)
      /\ foreign \subseteq to[n] /\ foreign \subseteq CellsFrom(q, Authoring)
      /\ CellsFrom(q, {"authored"}) \subseteq CellsFrom(q, Authoring)
  BY DEF Live, RunningAccounted, CellsFrom, Authoring
<1> HIDE DEF gs, n, foreign
<1>5. \A c \in {"authored", "realized"} : CellsFrom(<<>>, {c}) = {}
  BY DEF CellsFrom
<1>6. CellsFrom(<<>>, Authoring) = {}
  BY DEF CellsFrom
<1>7. Shaped(gs, <<>>, ly, to)
  BY <1>3, EmptyQueue DEF Live, Shaped, CompensateHolds
<1>8. OnlyLastRuns(gs) /\ ~Runs(gs)
  <2>1. \A m \in DOMAIN gs : gs[m].lifecycle # "running"
    BY <1>3 DEF Live, OnlyLastRuns, n
  <2> QED BY <1>1, <1>3, <2>1 DEF OnlyLastRuns, Runs, n
<1>9. RunningAccounted(gs, <<>>, ly, to)
  BY <1>8 DEF RunningAccounted
<1>10. \A m \in DOMAIN hs : hs[m].turn \in Nat /\ hs[m].turn < a.nextTurnId /\ a.nextTurnId \in Nat
  BY HandlesAre, KeptFacts DEF Live, Owned
<1>11. CASE id = NoTurn
  <2>1. Grew(a, b, foreign)
    BY <1>11 DEF Staged, foreign
  <2>2. Live(b, hs, q, ly, to)
    BY <1>4, <2>1, LiveGrew
  <2>3. \A m \in DOMAIN hs : gs[m].turn = hs[m].turn
    BY <1>1, <1>3, <1>11
  <2>4. TurnsDiffer(gs)
    BY <1>3, <2>2, <2>3 DEF Live, TurnsDiffer
  <2>5. Owned(b, gs)
    <3>1. \A m \in DOMAIN gs : gs[m].turn < b.nextTurnId
      BY <1>3, <2>2, <2>3 DEF Live, Owned
    <3>2. \A m \in DOMAIN gs : gs[m].lifecycle = "pending" /\ gs[m].turn # NoTurn
                                 => gs[m].turn \in LP!Pending(b)
      BY <1>3, <1>11, <2>2 DEF Live, Owned
    <3>3. ASSUME NEW p \in LP!Pending(b)
          PROVE  \E m \in DOMAIN gs : gs[m] = [turn |-> p, lifecycle |-> "pending"]
      <4>1. PICK m \in DOMAIN hs : hs[m] = [turn |-> p, lifecycle |-> "pending"]
        BY <2>2 DEF Live, Owned
      <4>2. m # n
        BY <1>1, <4>1
      <4> QED BY <1>3, <4>1, <4>2
    <3> QED BY <3>1, <3>2, <3>3 DEF Owned
  <2>6. PendingAccounted(b, gs, <<>>, ly, to)
    BY <1>3, <1>6, <2>2, <2>3 DEF Live, PendingAccounted
  <2> QED BY <1>2, <1>7, <1>8, <1>9, <2>4, <2>5, <2>6 DEF Live, gs, n
<1>12. CASE id # NoTurn
  <2>1. /\ id >= a.nextTurnId /\ id < b.nextTurnId
        /\ LP!Pending(b) = LP!Pending(a) \cup {id}
        /\ Cells(b.pendingTurns[id].effects) \subseteq CellsFrom(q, {"authored"})
        /\ Against(b, id) \subseteq foreign
        /\ \A p \in LP!Pending(a) : /\ b.pendingTurns[p] = a.pendingTurns[p]
                                    /\ Against(b, p) \subseteq Against(a, p) \cup foreign
    BY <1>12 DEF Staged, foreign
  <2>2. \A m \in DOMAIN hs : hs[m].turn # id /\ hs[m].turn < id
    BY <1>2, <1>10, <2>1
  <2>3. TurnsDiffer(gs)
    BY <1>3, <2>2 DEF Live, TurnsDiffer
  <2>4. Owned(b, gs)
    <3>1. \A m \in DOMAIN gs : gs[m].turn < b.nextTurnId
      <4>1. b.nextTurnId \in Nat
        BY <1>2, KeptFacts
      <4>2. \A m \in DOMAIN hs : hs[m].turn < b.nextTurnId
        BY <1>2, <1>10, <2>1, <2>2, <4>1
      <4> QED BY <1>3, <2>1, <4>2
    <3>2. \A m \in DOMAIN gs : gs[m].lifecycle = "pending" /\ gs[m].turn # NoTurn
                                 => gs[m].turn \in LP!Pending(b)
      BY <1>3, <2>1 DEF Live, Owned
    <3>3. ASSUME NEW p \in LP!Pending(b)
          PROVE  \E m \in DOMAIN gs : gs[m] = [turn |-> p, lifecycle |-> "pending"]
      <4>1. CASE p = id
        BY <1>1, <1>3, <4>1
      <4>2. CASE p # id
        <5>1. PICK m \in DOMAIN hs : hs[m] = [turn |-> p, lifecycle |-> "pending"]
          BY <2>1, <4>2 DEF Live, Owned
        <5>2. m # n
          BY <1>1, <5>1
        <5> QED BY <1>3, <5>1, <5>2
      <4> QED BY <4>1, <4>2
    <3> QED BY <3>1, <3>2, <3>3 DEF Owned
  <2>5. PendingAccounted(b, gs, <<>>, ly, to)
    <3> SUFFICES ASSUME NEW m \in DOMAIN gs, gs[m].turn \in LP!Pending(b)
                 PROVE  Accounted(b, gs[m].turn, WroteIn(ly, m), to[m])
      BY <1>6 DEF PendingAccounted
    <3>1. CASE m = n
      <4>1. gs[m].turn = id
        BY <1>3, <3>1
      <4>2. \A later \in LP!Pending(b) : ~(later > id)
        <5>1. \A p \in LP!Pending(a) : p \in Nat /\ p < a.nextTurnId
          BY KeptFacts DEF Live
        <5> QED BY <1>2, <1>10, <1>1, <2>1, <5>1
      <4> QED BY <1>4, <2>1, <3>1, <4>1, <4>2 DEF Accounted
    <3>2. CASE m # n
      <4> DEFINE p == hs[m].turn
      <4>1. gs[m].turn = p /\ p # id /\ p \in LP!Pending(a)
        BY <1>3, <2>1, <2>2, <3>2
      <4>2. Accounted(a, p, WroteIn(ly, m), to[m]) /\ CellsFrom(q, Authoring) \subseteq to[m]
        BY <1>3, <4>1 DEF Live, PendingAccounted
      <4> HIDE DEF p
      <4>3. Cells(b.pendingTurns[p].effects) \subseteq WroteIn(ly, m)
        BY <2>1, <4>1, <4>2 DEF Accounted
      <4>4. Against(b, p) \subseteq to[m]
        BY <1>4, <2>1, <4>1, <4>2 DEF Accounted
      <4>5. \A later \in LP!Pending(b) :
                later > p => Cells(b.pendingTurns[later].effects) \subseteq to[m]
        BY <1>4, <2>1, <4>2 DEF Accounted
      <4> QED BY <4>1, <4>3, <4>4, <4>5 DEF Accounted
    <3> QED BY <3>1, <3>2
  <2> QED BY <1>2, <1>7, <1>8, <1>9, <2>3, <2>4, <2>5 DEF Live, gs, n
<1> QED BY <1>11, <1>12

(* A transaction begins on an empty queue.                                 *)
LEMMA LiveOpen ==
    ASSUME NEW a, NEW hs, NEW ly, NEW to, Live(a, hs, <<>>, ly, to), ~Runs(hs)
    PROVE  Live(a, Append(hs, [turn |-> NoTurn, lifecycle |-> "running"]), <<>>, ly, Append(to, {}))
<1> DEFINE new == [turn |-> NoTurn, lifecycle |-> "running"]
           gs == Append(hs, new)
           ts == Append(to, {})
<1>1. /\ hs \in Seq(Handle) /\ Len(hs) \in Nat /\ DOMAIN hs = 1 .. Len(hs)
      /\ to \in Seq(SUBSET Cell) /\ Len(to) = Len(hs) /\ DOMAIN to = 1 .. Len(hs)
  BY HandlesAre DEF Live, Shaped
<1>2. new \in Handle /\ {} \in SUBSET Cell
  BY DEF Handle, NoTurn
<1>3. /\ gs \in Seq(Handle) /\ Len(gs) = Len(hs) + 1 /\ DOMAIN gs = 1 .. Len(hs) + 1
      /\ gs[Len(hs) + 1] = new /\ \A m \in DOMAIN hs : gs[m] = hs[m] /\ m \in DOMAIN gs
      /\ ts \in Seq(SUBSET Cell) /\ Len(ts) = Len(gs)
      /\ \A m \in DOMAIN hs : ts[m] = to[m]
  BY <1>1, <1>2
<1>4. \A m \in DOMAIN gs : m \in DOMAIN hs \/ m = Len(hs) + 1
  BY <1>1, <1>3
<1> HIDE DEF gs, ts
<1>5. gs[Len(gs)].turn = NoTurn /\ gs[Len(gs)].lifecycle = "running"
  BY <1>3
<1>6. CellsFrom(<<>>, Authoring) = {} /\ CellsFrom(<<>>, {"authored"}) = {}
      /\ CellsFrom(<<>>, {"realized"}) = {}
  BY DEF CellsFrom
<1>7. NoTurn \notin LP!Pending(a) /\ a.nextTurnId > NoTurn
  BY KeptFacts DEF Live, NoTurn
<1>8. Shaped(gs, <<>>, ly, ts)
  BY <1>3 DEF Live, Shaped
<1>9. TurnsDiffer(gs)
  BY <1>3, <1>4 DEF Live, TurnsDiffer
<1>10. Owned(a, gs)
  <2>1. \A m \in DOMAIN gs : gs[m].turn < a.nextTurnId
    <3>1. NoTurn < a.nextTurnId
      BY <1>7, KeptFacts DEF Live, NoTurn
    <3> QED BY <1>3, <1>4, <3>1 DEF Live, Owned
  <2>2. \A m \in DOMAIN gs : gs[m].lifecycle = "pending" /\ gs[m].turn # NoTurn
                               => gs[m].turn \in LP!Pending(a)
    BY <1>3, <1>4 DEF Live, Owned
  <2>3. ASSUME NEW p \in LP!Pending(a)
        PROVE  \E m \in DOMAIN gs : gs[m] = [turn |-> p, lifecycle |-> "pending"]
    <3>1. PICK m \in DOMAIN hs : hs[m] = [turn |-> p, lifecycle |-> "pending"]
      BY DEF Live, Owned
    <3> QED BY <1>3, <3>1
  <2> QED BY <2>1, <2>2, <2>3 DEF Owned
<1>11. OnlyLastRuns(gs)
  <2>1. \A m \in DOMAIN hs : hs[m].lifecycle # "running"
    <3>1. \A m \in DOMAIN hs : hs # <<>>
      BY <1>1
    <3> QED BY <3>1 DEF Live, OnlyLastRuns, Runs
  <2> QED BY <1>3, <1>4, <1>5, <2>1 DEF OnlyLastRuns
<1>12. PendingAccounted(a, gs, <<>>, ly, ts)
  <2> SUFFICES ASSUME NEW m \in DOMAIN gs, gs[m].turn \in LP!Pending(a)
               PROVE  Accounted(a, gs[m].turn, WroteIn(ly, m), ts[m])
    BY <1>6 DEF PendingAccounted
  <2>1. m \in DOMAIN hs
    BY <1>3, <1>4, <1>7
  <2> QED BY <1>3, <2>1 DEF Live, PendingAccounted
<1>13. RunningAccounted(gs, <<>>, ly, ts)
  BY <1>6 DEF RunningAccounted
<1> QED BY <1>8, <1>9, <1>10, <1>11, <1>12, <1>13 DEF Live, gs, ts

Author(hs, entry) == IF entry.source = "authored" /\ Runs(hs) THEN Len(hs) ELSE 0
Layered(ly, entry, by) ==
    [ly EXCEPT ![entry.cell] =
        Append(@, [by |-> by, value |-> entry.after, intent |-> entry.intent])]
TouchedBy(hs, to, entry, by) ==
    [n \in DOMAIN to |-> IF n # by /\ hs[n].lifecycle \in {"running", "pending"}
                         THEN to[n] \cup {entry.cell} ELSE to[n]]

(* A write by the running transaction, if it is authored, or by nobody.    *)
LEMMA LiveWrite ==
    ASSUME NEW a, NEW hs, NEW q, NEW ly, NEW to, Live(a, hs, q, ly, to),
           NEW entry \in Entry, entry.source \in Authoring, entry.intent \in Intent,
           NEW by, by = Author(hs, entry),
           NEW ls, ls = Layered(ly, entry, by), NEW ts, ts = TouchedBy(hs, to, entry, by)
    PROVE  Live(a, hs, Enqueue(q, entry), ls, ts)
<1> DEFINE c == entry.cell
           layer == [by |-> by, value |-> entry.after, intent |-> entry.intent]
           r == Enqueue(q, entry)
<1>1. /\ Len(hs) \in Nat /\ DOMAIN hs = 1 .. Len(hs) /\ DOMAIN to = 1 .. Len(hs)
      /\ Queue(q) /\ ly \in [Cell -> Seq(Layer)]
      /\ \A n \in DOMAIN hs : to[n] \in SUBSET Cell
  BY HandlesAre
<1>0. /\ by = IF entry.source = "authored" /\ Runs(hs) THEN Len(hs) ELSE 0
      /\ ls = [ly EXCEPT ![c] = Append(@, layer)]
      /\ ts = [n \in DOMAIN to |-> IF n # by /\ hs[n].lifecycle \in {"running", "pending"}
                                   THEN to[n] \cup {c} ELSE to[n]]
  BY DEF Author, Layered, TouchedBy
<1>2. c \in Cell /\ entry.after \in Value /\ by \in Nat /\ layer \in Layer
  BY <1>0, <1>1 DEF Entry, Layer
<1>3. ls = [ly EXCEPT ![c] = Append(ly[c], layer)] /\ ly[c] \in Seq(Layer)
  BY <1>0, <1>1, <1>2
<1>4. ls \in [Cell -> Seq(Layer)]
  <2>1. Append(ly[c], layer) \in Seq(Layer)
    BY <1>2, <1>3
  <2> QED BY <1>1, <1>2, <1>3, <2>1
<1>5. (\A n : WroteIn(ly, n) \subseteq WroteIn(ls, n)) /\ c \in WroteIn(ls, by)
  <2> DEFINE stack == Append(ly[c], layer)
  <2>1. /\ \A i \in DOMAIN ly[c] : i \in DOMAIN stack /\ stack[i] = ly[c][i]
        /\ Len(ly[c]) + 1 \in DOMAIN stack /\ stack[Len(ly[c]) + 1] = layer
    BY <1>3
  <2> HIDE DEF stack
  <2>2. ls[c] = stack /\ \A d \in Cell : d # c => ls[d] = ly[d]
    BY <1>1, <1>2, <1>3 DEF stack
  <2>3. ASSUME NEW n, NEW d \in WroteIn(ly, n) PROVE d \in WroteIn(ls, n)
    <3>1. PICK i \in DOMAIN ly[d] : d \in Cell /\ ly[d][i].by = n
      BY DEF WroteIn
    <3>2. i \in DOMAIN ls[d] /\ ls[d][i] = ly[d][i]
      BY <2>1, <2>2, <3>1
    <3> QED BY <3>1, <3>2 DEF WroteIn
  <2>4. c \in WroteIn(ls, by)
    BY <1>2, <2>1, <2>2 DEF WroteIn
  <2> QED BY <2>3, <2>4
<1>6. /\ Queue(r)
      /\ CellsFrom(r, Authoring) \subseteq CellsFrom(q, Authoring) \cup {c}
      /\ CellsFrom(r, {"authored"}) \subseteq
           CellsFrom(q, {"authored"}) \cup (IF entry.source = "authored" THEN {c} ELSE {})
      /\ CellsFrom(r, {"realized"}) \subseteq
           CellsFrom(q, {"realized"}) \cup (IF entry.source = "realized" THEN {c} ELSE {})
  <2>1. /\ Queue(r)
        /\ \A sources : CellsFrom(r, sources) \subseteq
              CellsFrom(q, sources) \cup (IF entry.source \in sources THEN {c} ELSE {})
    BY <1>1, EnqueueOnQueue
  <2> HIDE DEF r, c
  <2> QED BY <2>1
<1>7. /\ ts \in Seq(SUBSET Cell) /\ Len(ts) = Len(hs)
      /\ \A n \in DOMAIN hs :
            /\ to[n] \subseteq ts[n]
            /\ n # by /\ hs[n].lifecycle \in {"running", "pending"} => c \in ts[n]
  <2>1. DOMAIN ts = 1 .. Len(hs)
    BY <1>0, <1>1
  <2> DEFINE open(n) == n # by /\ hs[n].lifecycle \in {"running", "pending"}
  <2> HIDE DEF open
  <2>2. \A n \in DOMAIN hs : ts[n] = IF open(n) THEN to[n] \cup {c} ELSE to[n]
    BY <1>0, <1>1 DEF open
  <2>3. ts \in [1 .. Len(hs) -> SUBSET Cell]
    BY <1>0, <1>1, <1>2
  <2>4. ts \in Seq(SUBSET Cell) /\ Len(ts) = Len(hs)
    BY <1>1, <2>3
  <2>5. ASSUME NEW n \in DOMAIN hs PROVE to[n] \subseteq ts[n] /\ (open(n) => c \in ts[n])
    <3>1. CASE open(n)
      <4>1. ts[n] = to[n] \cup {c}
        BY <2>2, <3>1
      <4> QED BY <4>1
    <3>2. CASE ~open(n)
      <4>1. ts[n] = to[n]
        BY <2>2, <3>2
      <4> QED BY <3>2, <4>1
    <3> QED BY <3>1, <3>2
  <2> QED BY <2>4, <2>5 DEF open
<1> HIDE DEF c, layer, r
<1>8. Shaped(hs, r, ls, ts)
  BY <1>4, <1>6, <1>7 DEF Live, Shaped
<1>9. PendingAccounted(a, hs, r, ls, ts)
  <2> SUFFICES ASSUME NEW n \in DOMAIN hs, hs[n].turn \in LP!Pending(a)
               PROVE  /\ Accounted(a, hs[n].turn, WroteIn(ls, n), ts[n])
                      /\ CellsFrom(r, Authoring) \subseteq ts[n]
    BY DEF PendingAccounted
  <2>1. hs[n].lifecycle = "pending"
    BY PendingHandle
  <2>2. n # by
    BY <1>0, <1>1, <2>1 DEF Runs
  <2>3. c \in ts[n] /\ to[n] \subseteq ts[n] /\ WroteIn(ly, n) \subseteq WroteIn(ls, n)
    BY <1>5, <1>7, <2>1, <2>2
  <2>4. Accounted(a, hs[n].turn, WroteIn(ly, n), to[n]) /\ CellsFrom(q, Authoring) \subseteq to[n]
    BY DEF Live, PendingAccounted
  <2>5. Accounted(a, hs[n].turn, WroteIn(ls, n), ts[n])
    BY <2>3, <2>4 DEF Accounted
  <2> QED BY <1>6, <2>3, <2>4, <2>5
<1>10. RunningAccounted(hs, r, ls, ts)
  <2> SUFFICES ASSUME Runs(hs)
               PROVE  /\ CellsFrom(r, {"realized"}) \subseteq ts[Len(hs)]
                      /\ CellsFrom(r, {"authored"}) \subseteq WroteIn(ls, Len(hs))
    BY DEF RunningAccounted
  <2>1. Len(hs) \in DOMAIN hs /\ Len(hs) # 0 /\ hs[Len(hs)].lifecycle = "running"
    BY <1>1, HandlesAre DEF Runs
  <2>2. /\ CellsFrom(q, {"realized"}) \subseteq to[Len(hs)]
        /\ CellsFrom(q, {"authored"}) \subseteq WroteIn(ly, Len(hs))
    BY DEF Live, RunningAccounted
  <2>3. CASE entry.source = "authored"
    <3>1. by = Len(hs)
      BY <1>0, <2>3
    <3>2. /\ CellsFrom(r, {"realized"}) \subseteq CellsFrom(q, {"realized"})
          /\ CellsFrom(r, {"authored"}) \subseteq CellsFrom(q, {"authored"}) \cup {c}
      BY <1>6, <2>3
    <3>3. c \in WroteIn(ls, Len(hs)) /\ WroteIn(ly, Len(hs)) \subseteq WroteIn(ls, Len(hs))
          /\ to[Len(hs)] \subseteq ts[Len(hs)]
      BY <1>5, <1>7, <2>1, <3>1
    <3> QED BY <2>2, <3>2, <3>3
  <2>4. CASE entry.source = "realized"
    <3>1. by # Len(hs)
      BY <1>0, <2>1, <2>4
    <3>2. /\ CellsFrom(r, {"realized"}) \subseteq CellsFrom(q, {"realized"}) \cup {c}
          /\ CellsFrom(r, {"authored"}) \subseteq CellsFrom(q, {"authored"})
      BY <1>6, <2>4
    <3>3. WroteIn(ly, Len(hs)) \subseteq WroteIn(ls, Len(hs))
          /\ c \in ts[Len(hs)] /\ to[Len(hs)] \subseteq ts[Len(hs)]
      BY <1>5, <1>7, <2>1, <3>1
    <3> QED BY <2>2, <3>2, <3>3
  <2> QED BY <2>3, <2>4 DEF Authoring
<1> QED BY <1>8, <1>9, <1>10 DEF Live, r

-----------------------------------------------------------------------------
(* Settlement                                                              *)

By(stack, m) == \E i \in DOMAIN stack : stack[i].by = m

(* Taking a transaction's writes out of a stack leaves those of others.    *)
LEMMA WithoutOne ==
    ASSUME NEW stack \in Seq(Layer), NEW n
    PROVE  /\ Standing!Without(stack, n) \in Seq(Layer)
           /\ \A m : m # n => (By(Standing!Without(stack, n), m) <=> By(stack, m))
<1> DEFINE places == {i \in DOMAIN stack : stack[i].by # n}
           rest == Those(stack, places)
<1>1. Standing!Without(stack, n) = rest
  <2> DEFINE f == [i \in DOMAIN stack |-> IF stack[i].by = n THEN <<>> ELSE <<stack[i]>>]
             g == [i \in DOMAIN stack |-> IF i \in places THEN <<stack[i]>> ELSE <<>>]
  <2>1. f = g
    OBVIOUS
  <2>2. Standing!Without(stack, n) = Standing!FlattenSeq(f) /\ rest = FlattenSeq(g)
    BY DEF Standing!Without, Those
  <2> HIDE DEF f, g
  <2>3. Standing!FlattenSeq(f) = FlattenSeq(f)
    BY DEF Standing!FlattenSeq, FlattenSeq
  <2> QED BY <2>1, <2>2, <2>3
<1>2. /\ rest \in Seq(Layer)
      /\ \A j \in DOMAIN rest : \E i \in DOMAIN stack \cap places : rest[j] = stack[i]
      /\ \A i \in DOMAIN stack : i \in places => Has(rest, stack[i])
  <2>1. stack \in Seq(Layer)
    OBVIOUS
  <2> HIDE DEF places
  <2> QED BY <2>1, ThosePlaces
<1> HIDE DEF rest
<1>3. ASSUME NEW m, m # n PROVE By(rest, m) <=> By(stack, m)
  <2>1. By(rest, m) => By(stack, m)
    BY <1>2 DEF By
  <2>2. By(stack, m) => By(rest, m)
    BY <1>2, <1>3 DEF By, Has
  <2> QED BY <2>1, <2>2
<1> QED BY <1>1, <1>2, <1>3

(* A transaction's writes become nobody's.                                 *)
LEMMA RelabelOne ==
    ASSUME NEW stack \in Seq(Layer), NEW n
    PROVE  /\ Standing!Relabel(stack, n) \in Seq(Layer)
           /\ \A m : m # n /\ m # 0 => (By(Standing!Relabel(stack, n), m) <=> By(stack, m))
<1> DEFINE rest == [i \in DOMAIN stack |-> IF stack[i].by = n THEN [stack[i] EXCEPT !.by = 0]
                                           ELSE stack[i]]
<1>1. Standing!Relabel(stack, n) = rest
  BY DEF Standing!Relabel, Standing!Settled
<1>2. \A layer \in Layer : [layer EXCEPT !.by = 0] \in Layer /\ [layer EXCEPT !.by = 0].by = 0
  BY DEF Layer
<1>3. DOMAIN stack = 1 .. Len(stack) /\ Len(stack) \in Nat /\ \A i \in DOMAIN stack : stack[i] \in Layer
  OBVIOUS
<1>4. rest \in [1 .. Len(stack) -> Layer]
  BY <1>2, <1>3
<1>5. rest \in Seq(Layer)
  BY <1>3, <1>4
<1>6. \A i \in DOMAIN stack : rest[i].by = IF stack[i].by = n THEN 0 ELSE stack[i].by
  BY <1>2, <1>3
<1>7. DOMAIN rest = DOMAIN stack
  OBVIOUS
<1> HIDE DEF rest
<1>8. \A m : m # n /\ m # 0 => (By(rest, m) <=> By(stack, m))
  BY <1>6, <1>7 DEF By
<1> QED BY <1>1, <1>5, <1>8

Taken(ly, n) == [c \in Cell |-> Standing!Without(ly[c], n)]
Freed(ly, n) == [c \in Cell |-> Standing!Relabel(ly[c], n)]

LEMMA HistoryGoesOn ==
    ASSUME NEW ly, ly \in [Cell -> Seq(Layer)], NEW n, NEW hs, DOMAIN hs \subseteq Nat \ {0},
           NEW ls, ls = Taken(ly, n) \/ ls = Freed(ly, n)
    PROVE  GoesOn(hs, n, ly, ls)
<1>0. \A c \in Cell : ly[c] \in Seq(Layer)
  OBVIOUS
<1>1. ASSUME NEW c \in Cell
      PROVE  ls[c] \in Seq(Layer) /\ \A m : m # n /\ m # 0 => (By(ls[c], m) <=> By(ly[c], m))
  <2>1. CASE ls = Taken(ly, n)
    <3>1. ls[c] = Standing!Without(ly[c], n)
      BY <2>1 DEF Taken
    <3>2. ly[c] \in Seq(Layer)
      BY <1>0
    <3>3. /\ Standing!Without(ly[c], n) \in Seq(Layer)
          /\ \A m : m # n => (By(Standing!Without(ly[c], n), m) <=> By(ly[c], m))
      BY <3>2, WithoutOne
    <3> QED BY <3>1, <3>3
  <2>2. CASE ls = Freed(ly, n)
    <3>1. ls[c] = Standing!Relabel(ly[c], n)
      BY <2>2 DEF Freed
    <3> QED BY <1>0, <3>1, RelabelOne
  <2> QED BY <2>1, <2>2
<1>2. ls = [c \in Cell |-> ls[c]]
  BY DEF Taken, Freed
<1>3. \A m \in DOMAIN hs : m # 0
  OBVIOUS
<1>4. \A m : WroteIn(ls, m) = {c \in Cell : By(ls[c], m)} /\ WroteIn(ly, m) = {c \in Cell : By(ly[c], m)}
  BY DEF WroteIn, By
<1>5. ls \in [Cell -> Seq(Layer)]
  BY <1>1, <1>2
<1> QED BY <1>1, <1>3, <1>4, <1>5 DEF GoesOn

LEMMA CompensationIsTyped ==
    ASSUME NEW a, Kept(a), NEW id \in LP!Pending(a)
    PROVE  /\ Compensation(a, id) \in Seq(Effect)
           /\ Cells(Compensation(a, id)) \subseteq
                {c \in Cells(a.pendingTurns[id].effects) : c \notin Cells(Later(a, id))}
<1> DEFINE effects == a.pendingTurns[id].effects
           places == {i \in DOMAIN effects : ~Superseded(Later(a, id), effects[i])}
<1>1. effects \in Seq(Effect)
  BY KeptFacts
<1>2. Compensation(a, id) = Those(effects, places)
  <2>1. [i \in DOMAIN effects |->
            IF Superseded(Later(a, id), effects[i]) THEN <<>> ELSE <<effects[i]>>]
          = [i \in DOMAIN effects |-> IF i \in places THEN <<effects[i]>> ELSE <<>>]
    OBVIOUS
  <2> QED BY <2>1 DEF Compensation, Those
<1>3. \A i \in places : effects[i].cell \in Cells(effects) /\ effects[i].cell \notin Cells(Later(a, id))
  BY DEF Superseded, On, Cells
<1> HIDE DEF effects, places
<1>4. /\ Those(effects, places) \in Seq(Effect)
      /\ \A j \in DOMAIN Those(effects, places) : \E i \in DOMAIN effects \cap places :
            Those(effects, places)[j] = effects[i]
  BY <1>1, ThosePlaces
<1>5. Cells(Those(effects, places)) \subseteq {c \in Cells(effects) : c \notin Cells(Later(a, id))}
  BY <1>3, <1>4 DEF Cells
<1> QED BY <1>2, <1>4, <1>5 DEF effects

LEMMA CompensatedIsTyped ==
    ASSUME NEW t \in [Cell -> Value], NEW effects \in Seq(Effect)
    PROVE  /\ Compensated(t, effects) \in [Cell -> Value]
           /\ \A c \in Cell : c \notin Cells(effects) => Compensated(t, effects)[c] = t[c]
<1>1. ASSUME NEW c \in Cell, On(effects, c) # {}
      PROVE  effects[Youngest(On(effects, c))].before \in Value
  <2>1. On(effects, c) = OfCell(effects, c)
    BY DEF On, OfCell
  <2>2. PICK n \in Nat : DOMAIN effects = 1 .. n
    OBVIOUS
  <2>3. Youngest(OfCell(effects, c)) \in DOMAIN effects
    BY <1>1, <2>1, <2>2, YoungestIsOne
  <2>4. effects[Youngest(OfCell(effects, c))] \in Effect
    BY <2>3
  <2> QED BY <2>1, <2>4 DEF Effect
<1>2. \A c \in Cell : c \notin Cells(effects) => On(effects, c) = {}
  BY DEF On, Cells
<1>3. \A c \in Cell : (IF On(effects, c) = {} THEN t[c]
                       ELSE effects[Youngest(On(effects, c))].before) \in Value
  BY <1>1
<1> QED BY <1>2, <1>3 DEF Compensated

(* handle.rollback(), refused or installed, of a handle that is pending    *)
(* when the plan is made.                                                  *)
LEMMA RollbackKeeps ==
    ASSUME NEW a, NEW hs, NEW q, Live(a, hs, q, layers, touched), tree \in [Cell -> Value],
           NEW n \in DOMAIN hs, NEW id, hs[n] = [turn |-> id, lifecycle |-> "pending"],
           \A x : [handles EXCEPT ![n] = x] = [hs EXCEPT ![n] = x],
           Rollback(n, id, a, q)
    PROVE  Live(authority', handles', queue', layers', touched) /\ tree' \in [Cell -> Value]
<1> DEFINE read == Ledger!ObserveQueuedEffects(a, id, QueuedLaterEffects(q))
<1>1. /\ hs[n].turn = id /\ hs[n].lifecycle = "pending" /\ id \in Nat /\ Queue(q) /\ Kept(a)
      /\ layers \in [Cell -> Seq(Layer)] /\ DOMAIN hs \subseteq Nat \ {0}
  BY HandlesAre DEF Live
<1>2. ASSUME NEW b, Live(b, hs, q, layers, touched), NEW effects \in Seq(Effect),
             Installed(n, id, b, q, effects)
      PROVE  Live(authority', handles', queue', layers', touched) /\ tree' \in [Cell -> Value]
  <2>1. /\ handles' = Settle(hs, n, "rejected")
        /\ authority' = Ledger!DiscardPending(b, id)
        /\ queue' = EnqueueCompensation(q, effects)
        /\ tree' = Compensated(tree, effects)
        /\ layers' = Taken(layers, n)
    BY <1>1, <1>2 DEF Installed, Forgotten, Taken, Settle
  <2>2. SettledOne(b, authority', hs[n].turn)
    BY <1>1, <1>2, <2>1, DiscardPendingSettles DEF Live
  <2>3. GoesOn(hs, n, layers, layers')
    BY <1>1, <2>1, HistoryGoesOn
  <2>4. Live(authority', handles', q, layers', touched)
    BY <1>1, <1>2, <2>1, <2>2, <2>3, LiveSettle
  <2>5. CompensateHolds(q, queue')
    BY <1>1, <1>2, <2>1, CompensationOnQueue
  <2>6. Live(authority', handles', queue', layers', touched)
    BY <2>4, <2>5, LiveQueue
  <2>7. tree' \in [Cell -> Value]
    BY <1>2, <2>1, CompensatedIsTyped
  <2> QED BY <2>6, <2>7
<1>3. CASE id = NoTurn /\ Installed(n, id, a, q, <<>>)
  <2>1. <<>> \in Seq(Effect)
    OBVIOUS
  <2> QED BY <1>2, <1>3, <2>1
<1>4. Live(read, hs, q, layers, touched)
  <2>1. /\ QueuedLaterEffects(q) \in Seq(Effect)
        /\ Cells(QueuedLaterEffects(q)) \subseteq CellsFrom(q, Authoring)
    BY <1>1, QueuedLaterOfQueue DEF CellsFrom, Foreign, Authoring
  <2>2. Grew(a, read, Cells(QueuedLaterEffects(q)))
    BY <1>1, <2>1, ObserveQueuedGrows
  <2> HIDE DEF read
  <2> QED BY <2>1, <2>2, LiveGrew
<1> HIDE DEF read
<1>5. CASE Refused(n, id, read, q)
  <2>1. /\ handles' = [hs EXCEPT ![n] = hs[n]] /\ authority' = read /\ queue' = q
        /\ tree' = tree /\ layers' = layers
    BY <1>5 DEF Refused
  <2>2. handles' = hs
    <3>1. hs = [hs EXCEPT ![n] = hs[n]]
      BY <1>4, HandlesAre
    <3> QED BY <2>1, <3>1
  <2> QED BY <1>4, <2>1, <2>2
<1>6. CASE id # NoTurn /\ Installed(n, id, read, q, Compensation(read, id))
  <2>1. Kept(read) /\ id \in LP!Pending(read)
    BY <1>1, <1>4, <1>6 DEF Live, Owned
  <2>2. Compensation(read, id) \in Seq(Effect)
    BY <2>1, CompensationIsTyped
  <2> QED BY <1>2, <1>4, <1>6, <2>2
<1> QED BY <1>3, <1>5, <1>6 DEF Rollback, read

-----------------------------------------------------------------------------
(* The actions                                                             *)

LEMMA Usable ==
    ASSUME RuntimeInv, ~destroyed
    PROVE  /\ tree \in [Cell -> Value] /\ destroyed = FALSE
           /\ Live(authority, handles, queue, layers, touched)
           /\ Running <=> Runs(handles)
           /\ Current \in Nat /\ (Running => Current \in DOMAIN handles)
<1>1. /\ tree \in [Cell -> Value] /\ destroyed = FALSE
      /\ Live(authority, handles, queue, layers, touched)
  BY DEF RuntimeInv
<1>2. Running <=> Runs(handles)
  BY DEF Running, Runs, Last
<1>3. Len(handles) \in Nat /\ (handles # <<>> => Len(handles) \in DOMAIN handles)
  BY <1>1, HandlesAre
<1> QED BY <1>1, <1>2, <1>3 DEF Current, Running

LEMMA StillUsable ==
    ASSUME tree' \in [Cell -> Value], destroyed' = FALSE,
           Live(authority', handles', queue', layers', touched')
    PROVE  RuntimeInv'
BY DEF RuntimeInv, Live

LEMMA InitKeeps == Init => RuntimeInv
<1> SUFFICES ASSUME Init PROVE RuntimeInv
  OBVIOUS
<1>1. /\ tree \in [Cell -> Value] /\ destroyed = FALSE
      /\ handles = <<>> /\ queue = <<>> /\ touched = <<>>
      /\ layers = [c \in Cell |-> <<>>]
  BY InitiallyAssumption DEF Init
<1>2. Kept(authority) /\ LP!Pending(authority) = {}
  BY InitialIsKept DEF Init
<1>3. /\ <<>> \in Seq(Handle) /\ <<>> \in Seq(SUBSET Cell) /\ <<>> \in Seq(Layer)
      /\ Len(<<>>) = 0 /\ DOMAIN <<>> = {}
  OBVIOUS
<1>4. Queue(<<>>)
  BY EmptyQueue DEF CompensateHolds
<1>5. layers \in [Cell -> Seq(Layer)]
  BY <1>1, <1>3
<1>6. Shaped(handles, queue, layers, touched)
  BY <1>1, <1>3, <1>4, <1>5 DEF Shaped
<1>7. ~Runs(handles) /\ DOMAIN handles = {}
  BY <1>1, <1>3 DEF Runs
<1>8. /\ TurnsDiffer(handles) /\ OnlyLastRuns(handles)
      /\ PendingAccounted(authority, handles, queue, layers, touched)
      /\ RunningAccounted(handles, queue, layers, touched)
  BY <1>7 DEF TurnsDiffer, OnlyLastRuns, PendingAccounted, RunningAccounted
<1>9. Owned(authority, handles)
  BY <1>2, <1>7 DEF Owned
<1> QED BY <1>1, <1>2, <1>6, <1>8, <1>9 DEF RuntimeInv, Live

LEMMA WriteKeeps ==
    ASSUME RuntimeInv, NEW c \in Cell, NEW v \in Value, NEW intent \in Intent,
           NEW source \in Authoring, NEW by,
           by = IF source = "authored" /\ Running THEN Current ELSE 0,
           Write(c, v, intent, source, by)
    PROVE  RuntimeInv'
<1>1. /\ ~destroyed /\ destroyed' = destroyed /\ authority' = authority /\ handles' = handles
      /\ tree' = [tree EXCEPT ![c] = v]
      /\ queue' = Enqueue(queue, [cell |-> c, before |-> tree[c], after |-> v,
                                  intent |-> intent, source |-> source])
      /\ Stand(c, v, intent, by) /\ Touch(c, by)
  BY DEF Write
<1>2. /\ tree \in [Cell -> Value] /\ destroyed = FALSE
      /\ Live(authority, handles, queue, layers, touched) /\ (Running <=> Runs(handles))
  BY <1>1, Usable
<1>3. PICK e : e = [cell |-> c, before |-> tree[c], after |-> v, intent |-> intent,
                    source |-> source]
  OBVIOUS
<1>4. e \in Entry
  BY <1>2, <1>3 DEF Entry, Authoring
<1>5. /\ e.cell = c /\ e.after = v /\ e.intent = intent /\ e.source = source
  BY <1>3
<1>6. by = Author(handles, e)
  BY <1>2, <1>5 DEF Current, Author
<1>7. layers' = Layered(layers, e, by)
  BY <1>1, <1>5 DEF Stand, Layered
<1>8. touched' = TouchedBy(handles, touched, e, by)
  BY <1>1, <1>5 DEF Touch, TouchedBy
<1>11. e.source \in Authoring /\ e.intent \in Intent
  BY <1>5
<1>9. Live(authority, handles, Enqueue(queue, e), layers', touched')
  BY <1>11, <1>2, <1>4, <1>5, <1>6, <1>7, <1>8, LiveWrite
<1>10. tree' \in [Cell -> Value]
  BY <1>1, <1>2
<1> QED BY <1>1, <1>2, <1>3, <1>9, <1>10, StillUsable

LEMMA WritesKeep == ASSUME RuntimeInv, AuthoredWrite \/ RealizedWrite PROVE RuntimeInv'
<1>1. ASSUME NEW c \in Cell, NEW v \in Value, NEW intent \in Intent,
             Write(c, v, intent, "authored", IF Running THEN Current ELSE Standing!Settled)
      PROVE  RuntimeInv'
  <2>1. PICK by : by = IF Running THEN Current ELSE Standing!Settled
    OBVIOUS
  <2>2. by = IF "authored" = "authored" /\ Running THEN Current ELSE 0
    BY <2>1 DEF Standing!Settled
  <2>3. "authored" \in Authoring
    BY DEF Authoring
  <2>4. Write(c, v, intent, "authored", by)
    BY <1>1, <2>1
  <2> QED BY <2>2, <2>3, <2>4, WriteKeeps
<1>2. ASSUME NEW c \in Cell, NEW v \in Value, NEW intent \in Intent,
             Write(c, v, intent, "realized", Standing!Settled)
      PROVE  RuntimeInv'
  <2>1. "realized" \in Authoring /\ Standing!Settled = 0
    BY DEF Authoring, Standing!Settled
  <2>2. 0 = IF "realized" = "authored" /\ Running THEN Current ELSE 0
    OBVIOUS
  <2>3. Write(c, v, intent, "realized", 0)
    BY <1>2, <2>1
  <2> QED BY <2>1, <2>2, <2>3, WriteKeeps
<1> QED BY <1>1, <1>2 DEF AuthoredWrite, RealizedWrite

LEMMA FlushKeeps == ASSUME RuntimeInv, Flush PROVE RuntimeInv'
<1>1. /\ ~destroyed /\ destroyed' = destroyed /\ tree' = tree /\ handles' = handles
      /\ layers' = layers /\ touched' = touched /\ queue' = <<>>
      /\ authority' = FlushOrdinary(authority, queue)
  BY DEF Flush, history
<1>2. /\ tree \in [Cell -> Value] /\ destroyed = FALSE
      /\ Live(authority, handles, queue, layers, touched)
  BY <1>1, Usable
<1>3. Kept(authority) /\ Queue(queue)
  BY <1>2, HandlesAre DEF Live
<1>4. Grew(authority, authority', CellsFrom(queue, Authoring))
  BY <1>1, <1>3, FlushOrdinaryGrows
<1>5. Live(authority', handles, queue, layers, touched)
  BY <1>2, <1>4, LiveGrew
<1>6. Live(authority', handles, <<>>, layers, touched)
  BY <1>5, EmptyQueue, LiveQueue
<1> QED BY <1>1, <1>2, <1>6, StillUsable

LEMMA OpenKeeps == ASSUME RuntimeInv, Open PROVE RuntimeInv'
<1>1. /\ ~destroyed /\ ~Running /\ destroyed' = destroyed /\ tree' = tree
      /\ handles' = Append(handles, [turn |-> NoTurn, lifecycle |-> "running"])
      /\ touched' = Append(touched, {})
      /\ layers' = layers /\ queue' = <<>> /\ authority' = Opened(authority, queue)
  BY DEF Open
<1>2. /\ tree \in [Cell -> Value] /\ destroyed = FALSE /\ ~Runs(handles)
      /\ Live(authority, handles, queue, layers, touched)
  BY <1>1, Usable
<1>3. Kept(authority) /\ Queue(queue)
  BY <1>2, HandlesAre DEF Live
<1>4. Grew(authority, authority', CellsFrom(queue, Authoring))
  BY <1>1, <1>3, OpenedGrows
<1>5. Live(authority', handles, queue, layers, touched)
  BY <1>2, <1>4, LiveGrew
<1>6. Live(authority', handles, <<>>, layers, touched)
  BY <1>5, EmptyQueue, LiveQueue
<1>7. Live(authority', handles', <<>>, layers, touched')
  BY <1>1, <1>2, <1>6, LiveOpen
<1> QED BY <1>1, <1>2, <1>7, StillUsable

LEMMA ReturnKeeps == ASSUME RuntimeInv, CallbackReturns PROVE RuntimeInv'
<1> DEFINE staged == Materialized(authority, queue)
<1>1. /\ Running /\ authority' = staged.authority
      /\ handles' = [handles EXCEPT ![Current] = [turn |-> staged.turn, lifecycle |-> "pending"]]
      /\ queue' = <<>> /\ tree' = tree /\ destroyed' = destroyed
      /\ layers' = layers /\ touched' = touched
  BY DEF CallbackReturns, history
<1>2. ~destroyed
  <2>1. SUFFICES ASSUME destroyed PROVE FALSE
    OBVIOUS
  <2>2. Len(handles) \in DOMAIN handles
    BY <1>1 DEF RuntimeInv, Shaped, Running
  <2> QED BY <1>1, <2>1, <2>2 DEF RuntimeInv, Running, Last
<1>3. /\ tree \in [Cell -> Value] /\ destroyed = FALSE /\ Runs(handles)
      /\ Live(authority, handles, queue, layers, touched)
  BY <1>1, <1>2, Usable
<1>4. Kept(authority) /\ Queue(queue)
  BY <1>3, HandlesAre DEF Live
<1>5. Staged(authority, staged.authority, staged.turn, queue)
  BY <1>1, <1>4, MaterializedStages
<1> HIDE DEF staged
<1>6. Live(authority', handles', <<>>, layers, touched)
  BY <1>1, <1>3, <1>5, LiveStaged DEF Current
<1> QED BY <1>1, <1>3, <1>6, StillUsable

LEMMA ThrowKeeps == ASSUME RuntimeInv, CallbackThrows PROVE RuntimeInv'
<1> DEFINE staged == Materialized(authority, queue)
           n == Current
<1>1. /\ Running /\ Rollback(n, staged.turn, staged.authority, <<>>)
      /\ destroyed' = destroyed /\ touched' = touched
  BY DEF CallbackThrows
<1>2. ~destroyed
  <2>1. SUFFICES ASSUME destroyed PROVE FALSE
    OBVIOUS
  <2>2. Len(handles) \in DOMAIN handles
    BY <1>1 DEF RuntimeInv, Shaped, Running
  <2> QED BY <1>1, <2>1, <2>2 DEF RuntimeInv, Running, Last
<1>3. /\ tree \in [Cell -> Value] /\ destroyed = FALSE /\ Runs(handles)
      /\ Live(authority, handles, queue, layers, touched) /\ n \in DOMAIN handles
  BY <1>1, <1>2, Usable
<1>4. Kept(authority) /\ Queue(queue)
  BY <1>3, HandlesAre DEF Live
<1>5. Staged(authority, staged.authority, staged.turn, queue)
  BY <1>1, <1>4, MaterializedStages
<1>6. PICK id, a : id = staged.turn /\ a = staged.authority
  OBVIOUS
<1>7. PICK hs : hs = [handles EXCEPT ![n] = [turn |-> id, lifecycle |-> "pending"]]
  OBVIOUS
<1> HIDE DEF staged
<1>8. Live(a, hs, <<>>, layers, touched)
  BY <1>3, <1>5, <1>6, <1>7, LiveStaged DEF Current
<1>9. n \in DOMAIN hs /\ hs[n] = [turn |-> id, lifecycle |-> "pending"]
  BY <1>3, <1>7
<1>10. \A x : [handles EXCEPT ![n] = x] = [hs EXCEPT ![n] = x]
  BY <1>3, <1>7
<1>11. Rollback(n, id, a, <<>>)
  BY <1>1, <1>6
<1> HIDE DEF n
<1>12. Live(authority', handles', queue', layers', touched) /\ tree' \in [Cell -> Value]
  BY <1>3, <1>8, <1>9, <1>10, <1>11, RollbackKeeps
<1> QED BY <1>1, <1>3, <1>12, StillUsable

LEMMA HandleRollbackKeeps ==
    ASSUME RuntimeInv, NEW n \in DOMAIN handles, HandleRollback(n) PROVE RuntimeInv'
<1>1. /\ ~destroyed /\ handles[n].lifecycle = "pending"
      /\ Rollback(n, handles[n].turn, authority, queue)
      /\ destroyed' = destroyed /\ touched' = touched
  BY DEF HandleRollback, Settleable
<1>2. /\ tree \in [Cell -> Value] /\ destroyed = FALSE
      /\ Live(authority, handles, queue, layers, touched)
  BY <1>1, Usable
<1>3. handles[n] = [turn |-> handles[n].turn, lifecycle |-> "pending"]
  BY <1>1, <1>2, HandlesAre
<1>4. PICK id : id = handles[n].turn
  OBVIOUS
<1>5. handles[n] = [turn |-> id, lifecycle |-> "pending"]
  BY <1>3, <1>4
<1>6. Rollback(n, id, authority, queue)
  BY <1>1, <1>4
<1>7. Live(authority', handles', queue', layers', touched) /\ tree' \in [Cell -> Value]
  BY <1>2, <1>5, <1>6, RollbackKeeps
<1> QED BY <1>1, <1>2, <1>7, StillUsable

LEMMA HandleConfirmKeeps ==
    ASSUME RuntimeInv, NEW n \in DOMAIN handles, HandleConfirm(n) PROVE RuntimeInv'
<1>1. /\ ~destroyed /\ handles[n].lifecycle = "pending"
      /\ handles' = [handles EXCEPT ![n].lifecycle = "confirmed"]
      /\ authority' = Ledger!ConfirmPending(authority, handles[n].turn)
      /\ layers' = Freed(layers, n)
      /\ tree' = tree /\ queue' = queue /\ destroyed' = destroyed /\ touched' = touched
  BY DEF HandleConfirm, Settleable, Freed
<1>2. /\ tree \in [Cell -> Value] /\ destroyed = FALSE
      /\ Live(authority, handles, queue, layers, touched)
  BY <1>1, Usable
<1>3. /\ Kept(authority) /\ layers \in [Cell -> Seq(Layer)] /\ DOMAIN handles \subseteq Nat \ {0}
      /\ handles[n] = [turn |-> handles[n].turn, lifecycle |-> "pending"]
  BY <1>1, <1>2, HandlesAre DEF Live
<1>4. handles' = Settle(handles, n, "confirmed")
  <2>1. PICK id : id = handles[n].turn
    OBVIOUS
  <2>2. handles[n] = [turn |-> id, lifecycle |-> "pending"]
    BY <1>3, <2>1
  <2>3. [handles[n] EXCEPT !.lifecycle = "confirmed"] = [turn |-> id, lifecycle |-> "confirmed"]
    BY <2>2
  <2> QED BY <1>1, <2>1, <2>3 DEF Settle
<1>5. SettledOne(authority, authority', handles[n].turn)
  BY <1>1, <1>3, ConfirmPendingSettles
<1>6. GoesOn(handles, n, layers, layers')
  BY <1>1, <1>3, HistoryGoesOn
<1>7. Live(authority', handles', queue, layers', touched)
  <2>1. handles[n].lifecycle = "pending"
    BY <1>1
  <2>2. PICK life \in {"confirmed", "rejected"} : life = "confirmed"
    OBVIOUS
  <2>3. Live(authority', Settle(handles, n, life), queue, layers', touched)
    BY <1>2, <1>5, <1>6, <2>1, LiveSettle
  <2> QED BY <1>4, <2>2, <2>3
<1> QED BY <1>1, <1>2, <1>7, StillUsable

LEMMA DestroyKeeps == ASSUME RuntimeInv, Destroy PROVE RuntimeInv'
<1>1. /\ ~destroyed /\ ~Running /\ destroyed' = TRUE
      /\ authority' = Ledger!ReleaseOnDestroy(authority)
      /\ tree' = tree /\ queue' = queue /\ handles' = handles
      /\ layers' = layers /\ touched' = touched
  BY DEF Destroy, history
<1>2. /\ tree \in [Cell -> Value] /\ ~Runs(handles)
      /\ Live(authority, handles, queue, layers, touched)
  BY <1>1, Usable
<1>3. Kept(authority') /\ LP!Pending(authority') = {}
  BY <1>1, <1>2, DestroyEmpties DEF Live
<1>4. ~\E n \in DOMAIN handles : handles[n].lifecycle = "running"
  <2>1. \A n \in DOMAIN handles : handles # <<>>
    BY <1>2, HandlesAre
  <2> QED BY <1>2, <2>1 DEF Live, OnlyLastRuns, Runs
<1> QED BY <1>1, <1>2, <1>3, <1>4 DEF RuntimeInv, Live

LEMMA StepKeeps == RuntimeInv /\ [Next]_vars => RuntimeInv'
<1> SUFFICES ASSUME RuntimeInv, [Next]_vars PROVE RuntimeInv'
  OBVIOUS
<1>1. CASE AuthoredWrite \/ RealizedWrite
  BY <1>1, WritesKeep
<1>2. CASE Flush
  BY <1>2, FlushKeeps
<1>3. CASE Open
  BY <1>3, OpenKeeps
<1>4. CASE CallbackReturns
  BY <1>4, ReturnKeeps
<1>5. CASE CallbackThrows
  BY <1>5, ThrowKeeps
<1>6. ASSUME NEW n \in DOMAIN handles, HandleRollback(n) PROVE RuntimeInv'
  BY <1>6, HandleRollbackKeeps
<1>7. ASSUME NEW n \in DOMAIN handles, HandleConfirm(n) PROVE RuntimeInv'
  BY <1>7, HandleConfirmKeeps
<1>8. CASE Destroy
  BY <1>8, DestroyKeeps
<1>9. CASE UNCHANGED vars
  <2>1. /\ tree' = tree /\ queue' = queue /\ authority' = authority /\ handles' = handles
        /\ destroyed' = destroyed /\ layers' = layers /\ touched' = touched
    BY <1>9 DEF vars, program, history
  <2> QED BY <2>1 DEF RuntimeInv
<1> QED BY <1>1, <1>2, <1>3, <1>4, <1>5, <1>6, <1>7, <1>8, <1>9 DEF Next

LEMMA RuntimeIsKept == Spec => []RuntimeInv
<1>1. Init => RuntimeInv
  BY InitKeeps
<1>2. RuntimeInv /\ [Next]_vars => RuntimeInv'
  BY StepKeeps
<1> QED BY <1>1, <1>2, PTL DEF Spec

-----------------------------------------------------------------------------
(* The theorems                                                            *)

LEMMA SameInvariants ==
    ASSUME NEW a
    PROVE  /\ LP!Typed(a) => Ledger!Typed(a)
           /\ LP!Chronological(a) => Ledger!Chronological(a)
           /\ LP!Distinct(a) => Ledger!Distinct(a)
<1>1. LP!Typed(a) => Ledger!Typed(a)
  BY SameReads DEF LP!Typed, Ledger!Typed, LP!Fields, Ledger!Fields, LP!InitialAuthority,
     Ledger!InitialAuthority, LP!IsMap, Ledger!IsMap, LP!Turn, Ledger!Turn,
     LP!LedgerEntry, Ledger!LedgerEntry, LP!EmptyMap, Ledger!EmptyMap
<1>2. LP!Chronological(a) => Ledger!Chronological(a)
  BY SameReads DEF LP!Chronological, Ledger!Chronological
<1>3. LP!Distinct(a) => Ledger!Distinct(a)
  BY SameReads DEF LP!Distinct, Ledger!Distinct
<1> QED BY <1>1, <1>2, <1>3

(* What the runtime holds always has its type: no handler leaves a queue   *)
(* entry, a captured turn or a compensation malformed, or the ledger in a  *)
(* state its own methods do not reach.                                     *)
THEOREM TypeCorrect == Spec => []TypeOK
<1>1. RuntimeInv => TypeOK
  <2> SUFFICES ASSUME RuntimeInv PROVE TypeOK
    OBVIOUS
  <2>1. LP!Typed(authority)
    BY KeptFacts DEF RuntimeInv
  <2>2. Ledger!TypeOK
    BY <2>1, SameInvariants DEF RuntimeInv, Ledger!TypeOK
  <2> QED BY <2>2 DEF RuntimeInv, Shaped, Queue, Handle, TypeOK
<1> QED BY <1>1, RuntimeIsKept, PTL

(* The ledger's chronology and its distinct stamps hold under this caller, *)
(* whatever it does between two calls and however many it makes in one     *)
(* handler.                                                                *)
THEOREM LedgerAlwaysStaysSound == Spec => []LedgerStaysSound
<1>1. RuntimeInv => LedgerStaysSound
  <2> SUFFICES ASSUME RuntimeInv PROVE LedgerStaysSound
    OBVIOUS
  <2>1. LP!Chronological(authority) /\ LP!Distinct(authority)
    BY DEF RuntimeInv, Kept, LP!Sound
  <2>2. Ledger!Chronological(authority) /\ Ledger!Distinct(authority)
    BY <2>1, SameInvariants
  <2> QED BY <2>2 DEF LedgerStaysSound, Ledger!ChronologyIsShared, Ledger!StampsAreDistinct
<1> QED BY <1>1, RuntimeIsKept, PTL

(* Until the tree is destroyed the pending turns of the ledger and the     *)
(* handles that can settle one are in correspondence, through callbacks    *)
(* that return nothing, callbacks that throw, refused rollbacks and        *)
(* settlements inside other callbacks.                                     *)
THEOREM HandlesAlwaysOwnTurns == Spec => []HandlesOwnTurns
<1>1. RuntimeInv => HandlesOwnTurns
  <2> SUFFICES ASSUME RuntimeInv PROVE HandlesOwnTurns
    OBVIOUS
  <2>1. ASSUME NEW n \in DOMAIN handles, handles[n].lifecycle = "running"
        PROVE  n = Current /\ ~destroyed
    BY <2>1 DEF RuntimeInv, Live, OnlyLastRuns, Current
  <2>2. ASSUME ~destroyed, NEW id \in 1 .. authority.nextTurnId - 1
        PROVE  id \in PendingTurns <=> \E n \in DOMAIN handles :
                   handles[n] = [turn |-> id, lifecycle |-> "pending"]
    <3>1. Live(authority, handles, queue, layers, touched)
      BY <2>2, Usable
    <3>2. PendingTurns = LP!Pending(authority)
      BY SameReads DEF PendingTurns
    <3>3. id # NoTurn
      <4>1. authority.nextTurnId \in Nat
        BY <3>1, KeptFacts DEF Live
      <4> QED BY <4>1 DEF NoTurn
    <3>4. ASSUME NEW n \in DOMAIN handles, handles[n] = [turn |-> id, lifecycle |-> "pending"]
          PROVE  id \in LP!Pending(authority)
      <4>1. handles[n].turn = id /\ handles[n].lifecycle = "pending"
        BY <3>4
      <4> QED BY <3>1, <3>3, <4>1 DEF Live, Owned
    <3>5. id \in LP!Pending(authority) => \E n \in DOMAIN handles :
              handles[n] = [turn |-> id, lifecycle |-> "pending"]
      BY <3>1 DEF Live, Owned
    <3> QED BY <3>2, <3>4, <3>5
  <2>3. TurnsDiffer(handles)
    BY DEF RuntimeInv
  <2> QED BY <2>1, <2>2, <2>3 DEF HandlesOwnTurns, TurnsDiffer
<1> QED BY <1>1, RuntimeIsKept, PTL

(* What a plan reads against a turn, by its cells.                         *)
LEMMA LaterCells ==
    ASSUME NEW a, Kept(a), NEW id
    PROVE  Cells(Later(a, id)) = Against(a, id)
<1>1. LP!LaterEffects(a, id) \in Seq(Effect)
  BY KeptFacts
<1>2. LP!Retained(a, id) \in Seq(Effect)
  BY KeptFacts DEF LP!Keyed
<1>3. Later(a, id) = LP!LaterEffects(a, id) \o LP!Retained(a, id)
  BY SameEvidence, SameReads DEF Later
<1> QED BY <1>1, <1>2, <1>3, CellsOfBoth DEF Against

LEMMA ConflictIsShared ==
    ASSUME NEW a, Kept(a), NEW id \in LP!Pending(a), NEW own, NEW others,
           Accounted(a, id, own, others), Conflict(a, id)
    PROVE  own \cap others # {}
<1> DEFINE effects == a.pendingTurns[id].effects
<1>1. PICK i \in DOMAIN effects : \/ LaterPendingOverlap(a, id, effects[i])
                                  \/ DerivedFrom(Later(a, id), effects[i])
  BY DEF Conflict
<1>2. effects[i].cell \in own
  BY DEF Accounted, Cells
<1> HIDE DEF effects
<1>3. CASE LaterPendingOverlap(a, id, effects[i])
  <2>1. PICK later \in LP!Pending(a) :
            later > id /\ On(a.pendingTurns[later].effects, effects[i].cell) # {}
    BY <1>3, SameReads DEF LaterPendingOverlap
  <2>2. effects[i].cell \in Cells(a.pendingTurns[later].effects)
    BY <2>1 DEF On, Cells
  <2>3. effects[i].cell \in others
    BY <2>1, <2>2 DEF Accounted
  <2> QED BY <1>2, <2>3
<1>4. CASE DerivedFrom(Later(a, id), effects[i])
  <2>1. effects[i].cell \in Cells(Later(a, id))
    BY <1>4 DEF DerivedFrom, On, Cells
  <2>2. effects[i].cell \in others
    BY <2>1, LaterCells DEF Accounted
  <2> QED BY <1>2, <2>2
<1> QED BY <1>1, <1>3, <1>4

(* What a rollback reads of the queue changes no responsibility, and every *)
(* waiting write of another is in what was read.                           *)
LEMMA ReadIsLive ==
    ASSUME NEW a, NEW hs, NEW q, Live(a, hs, q, layers, touched), NEW id
    PROVE  LET read == Ledger!ObserveQueuedEffects(a, id, QueuedLaterEffects(q))
           IN  /\ Live(read, hs, q, layers, touched) /\ LP!Pending(read) = LP!Pending(a)
               /\ id \in LP!Pending(a) => CellsFrom(q, Foreign) \subseteq Against(read, id)
<1> DEFINE queued == QueuedLaterEffects(q)
           read == Ledger!ObserveQueuedEffects(a, id, queued)
<1>1. Queue(q) /\ Kept(a)
  BY HandlesAre DEF Live
<1>2. queued \in Seq(Effect) /\ Cells(queued) = CellsFrom(q, Foreign)
  BY <1>1, QueuedLaterOfQueue
<1>3. Cells(queued) \subseteq CellsFrom(q, Authoring)
  BY <1>2 DEF CellsFrom, Foreign, Authoring
<1> HIDE DEF queued
<1>4. /\ Grew(a, read, Cells(queued))
      /\ id \in LP!Pending(a) => Heeds(LP!Retained(read, id), queued)
  BY <1>1, <1>2, ObserveQueuedGrows
<1> HIDE DEF read
<1>5. Live(read, hs, q, layers, touched)
  BY <1>3, <1>4, LiveGrew
<1>6. LP!Pending(read) = LP!Pending(a)
  BY <1>4 DEF Grew, LP!Pending
<1>7. ASSUME id \in LP!Pending(a) PROVE Cells(queued) \subseteq Against(read, id)
  <2>1. Heeds(LP!Retained(read, id), queued)
    BY <1>4, <1>7
  <2>2. Cells(queued) \subseteq Cells(LP!Retained(read, id))
    BY <2>1 DEF Heeds, Cells
  <2> QED BY <2>2 DEF Against
<1> QED BY <1>2, <1>5, <1>6, <1>7 DEF read, queued

(* No rollback is refused for nothing: whenever one would be, now or after *)
(* any further waiting, somebody else has written a cell of the turn since *)
(* the transaction began.  Evidence from the queue, from recorded turns    *)
(* and from realizations never names a cell that only the transaction      *)
(* itself wrote.                                                           *)
THEOREM RefusalIsAlwaysJustified == Spec => []RefusalIsJustified
<1>1. RuntimeInv => RefusalIsJustified
  <2> SUFFICES ASSUME RuntimeInv PROVE RefusalIsJustified
    OBVIOUS
  <2> DEFINE read(id) == Ledger!ObserveQueuedEffects(authority, id, QueuedLaterEffects(queue))
  <2>1. ASSUME NEW n \in DOMAIN handles, handles[n].turn \in PendingTurns,
               Conflict(read(handles[n].turn), handles[n].turn)
        PROVE  Wrote(n) \cap touched[n] # {}
    <3>1. PICK id : id = handles[n].turn
      OBVIOUS
    <3>2. PICK b : b = read(id)
      OBVIOUS
    <3>3. id \in LP!Pending(authority)
      BY <2>1, <3>1, SameReads DEF PendingTurns
    <3>4. ~destroyed
      BY <3>3 DEF RuntimeInv
    <3>5. Live(authority, handles, queue, layers, touched)
      BY <3>4, Usable
    <3>6. Live(b, handles, queue, layers, touched) /\ LP!Pending(b) = LP!Pending(authority)
      BY <3>2, <3>5, ReadIsLive
    <3>7. Conflict(b, id)
      BY <2>1, <3>1, <3>2
    <3> HIDE DEF read
    <3>8. Accounted(b, id, WroteIn(layers, n), touched[n]) /\ Kept(b) /\ id \in LP!Pending(b)
      BY <3>1, <3>3, <3>6 DEF Live, PendingAccounted
    <3>9. WroteIn(layers, n) \cap touched[n] # {}
      BY <3>7, <3>8, ConflictIsShared
    <3> QED BY <3>9 DEF Wrote, WroteIn
  <2> QED BY <2>1 DEF RefusalIsJustified
<1> QED BY <1>1, RuntimeIsKept, PTL

(* Waiting(i): entry i waits in the queue for somebody else.               *)
Waiting(i) ==
    queue[i].source = "realized" \/ (queue[i].source = "authored" /\ ~Running)

(* What a rollback takes back is not what the queue waits to tell of.      *)
LEMMA RollbackSpares ==
    ASSUME RuntimeInv, NEW n \in DOMAIN handles, HandleRollback(n),
           handles'[n].lifecycle = "rejected", NEW i \in DOMAIN queue, Waiting(i)
    PROVE  tree'[queue[i].cell] = tree[queue[i].cell]
<1> DEFINE id == handles[n].turn
           read == Ledger!ObserveQueuedEffects(authority, id, QueuedLaterEffects(queue))
           c == queue[i].cell
<1>1. ~destroyed /\ handles[n].lifecycle = "pending" /\ Rollback(n, id, authority, queue)
  BY DEF HandleRollback, Settleable
<1>2. tree \in [Cell -> Value] /\ Live(authority, handles, queue, layers, touched)
  BY <1>1, Usable
<1>3. c \in Cell /\ c \in CellsFrom(queue, Foreign)
  <2>1. Queue(queue) /\ queue[i] \in Entry
    BY <1>2, HandlesAre, QueueEntries
  <2>2. queue[i].source \in Foreign
    BY DEF Waiting, Foreign
  <2> QED BY <2>1, <2>2 DEF CellsFrom, Entry
<1> HIDE DEF c
<1>4. ASSUME NEW b, NEW effects \in Seq(Effect), c \notin Cells(effects),
             Installed(n, id, b, queue, effects)
      PROVE  tree'[c] = tree[c]
  <2>1. tree' = Compensated(tree, effects)
    BY <1>4 DEF Installed
  <2> QED BY <1>2, <1>3, <1>4, <2>1, CompensatedIsTyped
<1>5. CASE id = NoTurn /\ Installed(n, id, authority, queue, <<>>)
  <2>1. <<>> \in Seq(Effect) /\ c \notin Cells(<<>>)
    BY DEF Cells
  <2> QED BY <1>4, <1>5, <2>1 DEF c
<1>6. CASE id # NoTurn /\ Installed(n, id, read, queue, Compensation(read, id))
  <2>1. id \in LP!Pending(authority)
    BY <1>1, <1>2, <1>6 DEF Live, Owned
  <2>2. /\ Live(read, handles, queue, layers, touched) /\ LP!Pending(read) = LP!Pending(authority)
        /\ CellsFrom(queue, Foreign) \subseteq Against(read, id)
    BY <1>2, <2>1, ReadIsLive
  <2> HIDE DEF read, id
  <2>3. Kept(read) /\ id \in LP!Pending(read)
    BY <2>1, <2>2 DEF Live
  <2>4. c \in Cells(Later(read, id))
    BY <1>3, <2>2, <2>3, LaterCells
  <2>5. Compensation(read, id) \in Seq(Effect) /\ c \notin Cells(Compensation(read, id))
    BY <2>3, <2>4, CompensationIsTyped
  <2> QED BY <1>4, <1>6, <2>5 DEF c
<1>7. CASE Refused(n, id, read, queue)
  <2>1. handles' = [handles EXCEPT ![n] = [turn |-> id, lifecycle |-> "pending"]]
    BY <1>7 DEF Refused
  <2>2. handles'[n].lifecycle = "pending"
    BY <2>1
  <2> QED BY <2>2
<1> QED BY <1>1, <1>5, <1>6, <1>7 DEF Rollback

(* Only handle.rollback() of transaction n rejects it once it is pending.  *)
LEMMA OnlyRollbackRejects ==
    ASSUME RuntimeInv, Next, NEW n \in DOMAIN handles, handles[n].lifecycle = "pending",
           handles'[n].lifecycle = "rejected"
    PROVE  HandleRollback(n)
<1>1. ASSUME NEW m \in DOMAIN handles, NEW x, handles' = [handles EXCEPT ![m] = x]
      PROVE  m = n
  BY <1>1
<1>2. CASE AuthoredWrite \/ RealizedWrite
  <2>1. handles' = handles
    BY <1>2 DEF AuthoredWrite, RealizedWrite, Write
  <2> QED BY <2>1
<1>3. CASE Flush \/ Destroy
  <2>1. handles' = handles
    BY <1>3 DEF Flush, Destroy
  <2> QED BY <2>1
<1>4. CASE Open
  <2>1. handles' = Append(handles, [turn |-> NoTurn, lifecycle |-> "running"])
    BY <1>4 DEF Open
  <2>2. handles'[n] = handles[n]
    BY <2>1 DEF RuntimeInv, Shaped
  <2> QED BY <2>2
<1>5. CASE CallbackReturns \/ CallbackThrows
  <2>1. Running
    BY <1>5 DEF CallbackReturns, CallbackThrows
  <2>2. Len(handles) \in DOMAIN handles
    BY <2>1 DEF RuntimeInv, Shaped, Running
  <2>3. Current \in DOMAIN handles /\ Current # n
    BY <2>1, <2>2 DEF Running, Last, Current
  <2>4. \E x : handles' = [handles EXCEPT ![Current] = x]
    BY <1>5 DEF CallbackReturns, CallbackThrows, Rollback, Refused, Installed
  <2> QED BY <1>1, <2>3, <2>4
<1>6. ASSUME NEW m \in DOMAIN handles, HandleRollback(m) PROVE HandleRollback(n)
  <2>1. \E x : handles' = [handles EXCEPT ![m] = x]
    BY <1>6 DEF HandleRollback, Rollback, Refused, Installed
  <2>2. m = n
    BY <1>1, <2>1
  <2> QED BY <1>6, <2>2
<1>7. ASSUME NEW m \in DOMAIN handles, HandleConfirm(m) PROVE FALSE
  <2>1. handles' = [handles EXCEPT ![m].lifecycle = "confirmed"]
    BY <1>7 DEF HandleConfirm
  <2>2. handles[m] \in Handle
    BY DEF RuntimeInv, Shaped
  <2>3. m # n => handles'[n] = handles[n]
    BY <2>1
  <2>4. m = n => handles'[n].lifecycle = "confirmed"
    BY <2>1, <2>2 DEF Handle
  <2> QED BY <2>3, <2>4
<1> QED BY <1>2, <1>3, <1>4, <1>5, <1>6, <1>7 DEF Next

(* While a write of somebody else waits undelivered, no rollback changes   *)
(* its cell, even if the write has already come back to the old value and  *)
(* will never be delivered: being equal grants no right to roll back.      *)
THEOREM QueuedWriterIsAlwaysRespected == Spec => QueuedWriterIsRespected
<1>1. RuntimeInv /\ [Next]_vars =>
         [ \A n \in DOMAIN handles \cap DOMAIN handles' :
              handles[n].lifecycle = "pending" /\ handles'[n].lifecycle = "rejected"
                => \A i \in DOMAIN queue :
                      queue[i].source = "realized" \/ (queue[i].source = "authored" /\ ~Running)
                        => tree'[queue[i].cell] = tree[queue[i].cell] ]_vars
  <2> SUFFICES ASSUME RuntimeInv, Next, NEW n \in DOMAIN handles,
                      handles[n].lifecycle = "pending", handles'[n].lifecycle = "rejected",
                      NEW i \in DOMAIN queue, Waiting(i)
               PROVE  tree'[queue[i].cell] = tree[queue[i].cell]
    BY DEF Waiting
  <2>1. HandleRollback(n)
    BY OnlyRollbackRejects
  <2> QED BY <2>1, RollbackSpares
<1> QED BY <1>1, RuntimeIsKept, PTL DEF Spec, QueuedWriterIsRespected
=============================================================================
