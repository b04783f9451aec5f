---------------------- MODULE TransactionAuthorityProofs ----------------------
(***************************************************************************)
(* The ledger for any number of turns, effects and subjects: its one       *)
(* chronology, what it retains and what it reports, the evidence it        *)
(* latches, and that a plan read from it is the list of what landed since  *)
(* the turn opened, as in RollbackEvidence.  Each method is shown to       *)
(* preserve the invariants of the object, for every object that satisfies  *)
(* them, so that the same lemmas serve a caller that runs several methods  *)
(* in one synchronous call.                                                *)
(***************************************************************************)
EXTENDS TransactionAuthority, Foundations, TLAPS

-----------------------------------------------------------------------------
(* Maps                                                                    *)

LEMMA KeepMap ==
    ASSUME NEW f, NEW S, NEW V, IsMap(f, V)
    PROVE  /\ DOMAIN Keep(f, S) = DOMAIN f \cap S
           /\ IsMap(Keep(f, S), V)
           /\ \A x \in DOMAIN f \cap S : Keep(f, S)[x] = f[x]
BY DEF Keep, IsMap

LEMMA DeleteKeyMap ==
    ASSUME NEW f, NEW V, IsMap(f, V), NEW x
    PROVE  /\ DOMAIN DeleteKey(f, x) = DOMAIN f \ {x}
           /\ IsMap(DeleteKey(f, x), V)
           /\ \A y \in DOMAIN f \ {x} : DeleteKey(f, x)[y] = f[y]
BY DEF DeleteKey, IsMap

LEMMA EmptyMapIsMap ==
    ASSUME NEW V
    PROVE  DOMAIN EmptyMap = {} /\ IsMap(EmptyMap, V)
BY DEF EmptyMap, IsMap

-----------------------------------------------------------------------------
(* What each primitive step writes, and what it leaves alone.              *)

FieldNames == {"nextTurnId", "pendingTurns", "confirmedTurns", "confirmedAtSeq",
    "pendingOpenedAtSeq", "queuedEvidence", "claims", "dependencyLedger",
    "ledgerSeq", "historyRetain", "evictedConfirmed"}

LEMMA FieldsAre == Fields = FieldNames
BY DEF Fields, InitialAuthority, FieldNames

LEMMA ReleaseConfirmedFrame ==
    ASSUME NEW a, DOMAIN a = Fields
    PROVE  LET b == ReleaseConfirmedBeyondObligation(a)
               keep == RequiredOrRecent(a)
           IN  /\ DOMAIN b = Fields
               /\ b.confirmedTurns = Keep(a.confirmedTurns, keep)
               /\ b.confirmedAtSeq = Keep(a.confirmedAtSeq, keep)
               /\ b.evictedConfirmed = (a.evictedConfirmed \/ keep # Confirmed(a))
               /\ b.nextTurnId = a.nextTurnId /\ b.pendingTurns = a.pendingTurns
               /\ b.pendingOpenedAtSeq = a.pendingOpenedAtSeq
               /\ b.claims = a.claims /\ b.queuedEvidence = a.queuedEvidence
               /\ b.dependencyLedger = a.dependencyLedger /\ b.ledgerSeq = a.ledgerSeq
               /\ b.historyRetain = a.historyRetain
BY FieldsAre DEF FieldNames, ReleaseConfirmedBeyondObligation

LEMMA InsertConfirmedFrame ==
    ASSUME NEW a, DOMAIN a = Fields, NEW id, NEW turn
    PROVE  LET b == InsertConfirmed(a, id, turn)
           IN  /\ DOMAIN b = Fields
               /\ b.ledgerSeq = a.ledgerSeq + 1
               /\ b.confirmedAtSeq = SetKey(a.confirmedAtSeq, id, a.ledgerSeq + 1)
               /\ b.confirmedTurns = SetKey(a.confirmedTurns, id, turn)
               /\ b.nextTurnId = a.nextTurnId /\ b.pendingTurns = a.pendingTurns
               /\ b.pendingOpenedAtSeq = a.pendingOpenedAtSeq
               /\ b.claims = a.claims /\ b.queuedEvidence = a.queuedEvidence
               /\ b.dependencyLedger = a.dependencyLedger
               /\ b.historyRetain = a.historyRetain
               /\ b.evictedConfirmed = a.evictedConfirmed
BY FieldsAre DEF FieldNames, InsertConfirmed

LEMMA ForgetPendingFrame ==
    ASSUME NEW a, DOMAIN a = Fields, NEW id
    PROVE  LET b == ForgetPending(a, id)
           IN  /\ DOMAIN b = Fields
               /\ b.pendingTurns = DeleteKey(a.pendingTurns, id)
               /\ b.pendingOpenedAtSeq = DeleteKey(a.pendingOpenedAtSeq, id)
               /\ b.claims = DeleteKey(a.claims, id)
               /\ b.queuedEvidence = DeleteKey(a.queuedEvidence, id)
               /\ b.nextTurnId = a.nextTurnId /\ b.ledgerSeq = a.ledgerSeq
               /\ b.confirmedTurns = a.confirmedTurns
               /\ b.confirmedAtSeq = a.confirmedAtSeq
               /\ b.dependencyLedger = a.dependencyLedger
               /\ b.historyRetain = a.historyRetain
               /\ b.evictedConfirmed = a.evictedConfirmed
BY FieldsAre DEF FieldNames, ForgetPending

LEMMA LedgerQuietFrame ==
    ASSUME NEW a, DOMAIN a = Fields
    PROVE  LET b == ReleaseLedgerIfQuiet(a)
           IN  /\ DOMAIN b = Fields
               /\ b.nextTurnId = a.nextTurnId /\ b.pendingTurns = a.pendingTurns
               /\ b.confirmedTurns = a.confirmedTurns
               /\ b.confirmedAtSeq = a.confirmedAtSeq /\ b.claims = a.claims
               /\ b.queuedEvidence = a.queuedEvidence
               /\ b.historyRetain = a.historyRetain
               /\ b.evictedConfirmed = a.evictedConfirmed
               /\ Pending(a) = {} => /\ b.dependencyLedger = <<>> /\ b.ledgerSeq = 0
                                     /\ b.pendingOpenedAtSeq = EmptyMap
               /\ Pending(a) # {} => b = a
BY FieldsAre DEF FieldNames, ReleaseLedgerIfQuiet

LEMMA CreatePendingFrame ==
    ASSUME NEW a, DOMAIN a = Fields, NEW turn
    PROVE  LET b == CreatePending(a, turn)
           IN  /\ DOMAIN b = Fields
               /\ b.nextTurnId = a.nextTurnId + 1
               /\ b.pendingTurns = SetKey(a.pendingTurns, a.nextTurnId, turn)
               /\ b.pendingOpenedAtSeq = SetKey(a.pendingOpenedAtSeq, a.nextTurnId, a.ledgerSeq)
               /\ b.claims \in {a.claims, SetKey(a.claims, a.nextTurnId, turn.subjects)}
               /\ b.ledgerSeq = a.ledgerSeq
               /\ b.confirmedTurns = a.confirmedTurns
               /\ b.confirmedAtSeq = a.confirmedAtSeq
               /\ b.dependencyLedger = a.dependencyLedger
               /\ b.historyRetain = a.historyRetain
               /\ b.evictedConfirmed = a.evictedConfirmed
BY FieldsAre DEF FieldNames, CreatePending

LEMMA CreatePendingClaims ==
    ASSUME NEW a, DOMAIN a = Fields, NEW turn
    PROVE  LET b == CreatePending(a, turn)
           IN  /\ b.claims = IF turn.subjects = {} THEN a.claims
                             ELSE SetKey(a.claims, a.nextTurnId, turn.subjects)
               /\ b.queuedEvidence = a.queuedEvidence
BY FieldsAre DEF FieldNames, CreatePending

LEMMA ObserveLaterFrame ==
    ASSUME NEW a, DOMAIN a = Fields, NEW effects, Pending(a) # {}, effects # <<>>
    PROVE  LET b == ObserveLaterEffects(a, effects)
           IN  /\ DOMAIN b = Fields
               /\ b.ledgerSeq = a.ledgerSeq + 1
               /\ b.dependencyLedger = a.dependencyLedger \o
                    [i \in DOMAIN effects |-> [seq |-> a.ledgerSeq + 1, effect |-> effects[i]]]
               /\ b.nextTurnId = a.nextTurnId /\ b.pendingTurns = a.pendingTurns
               /\ b.confirmedTurns = a.confirmedTurns
               /\ b.confirmedAtSeq = a.confirmedAtSeq
               /\ b.pendingOpenedAtSeq = a.pendingOpenedAtSeq /\ b.claims = a.claims
               /\ b.queuedEvidence = a.queuedEvidence
               /\ b.historyRetain = a.historyRetain
               /\ b.evictedConfirmed = a.evictedConfirmed
BY FieldsAre DEF FieldNames, ObserveLaterEffects

LEMMA ObserveQueuedFrame ==
    ASSUME NEW a, DOMAIN a = Fields, NEW id, NEW queued
    PROVE  LET b == ObserveQueuedEffects(a, id, queued)
           IN  /\ DOMAIN b = Fields
               /\ b.nextTurnId = a.nextTurnId /\ b.pendingTurns = a.pendingTurns
               /\ b.confirmedTurns = a.confirmedTurns
               /\ b.confirmedAtSeq = a.confirmedAtSeq
               /\ b.pendingOpenedAtSeq = a.pendingOpenedAtSeq /\ b.claims = a.claims
               /\ b.dependencyLedger = a.dependencyLedger /\ b.ledgerSeq = a.ledgerSeq
               /\ DOMAIN b.queuedEvidence \subseteq DOMAIN a.queuedEvidence \cup Pending(a)
               /\ b.historyRetain = a.historyRetain
               /\ b.evictedConfirmed = a.evictedConfirmed
<1> DEFINE evidence == SetKey(a.queuedEvidence, id,
                              PutAll(Retained(a, id), queued))
<1> HIDE DEF evidence
<1>1. ObserveQueuedEffects(a, id, queued) \in {a, [a EXCEPT !.queuedEvidence = evidence]}
  BY DEF ObserveQueuedEffects, evidence
<1>2. DOMAIN evidence = DOMAIN a.queuedEvidence \cup {id}
  BY DEF evidence, SetKey
<1>3. id \notin Pending(a) => ObserveQueuedEffects(a, id, queued) = a
  BY DEF ObserveQueuedEffects
<1> QED BY <1>1, <1>2, <1>3, FieldsAre DEF FieldNames

-----------------------------------------------------------------------------
(* The object is well formed                                               *)

LEMMA InitialTyped == Typed(InitialAuthority)
<1> DEFINE a == InitialAuthority
<1>1. DOMAIN a = Fields
  BY DEF Fields
<1>2. /\ a.nextTurnId = 1 /\ a.ledgerSeq = 0 /\ a.historyRetain = 0
      /\ a.evictedConfirmed \in BOOLEAN /\ a.dependencyLedger = <<>>
      /\ a.pendingTurns = EmptyMap /\ a.confirmedTurns = EmptyMap
      /\ a.pendingOpenedAtSeq = EmptyMap /\ a.confirmedAtSeq = EmptyMap
      /\ a.claims = EmptyMap
  BY DEF InitialAuthority
<1>3. <<>> \in Seq(LedgerEntry)
  OBVIOUS
<1>4. Pending(a) = {} /\ Confirmed(a) = {}
  BY <1>2 DEF Pending, Confirmed, EmptyMap
<1>5. /\ IsMap(EmptyMap, Turn) /\ IsMap(EmptyMap, Nat)
      /\ IsMap(EmptyMap, SUBSET Subject)
  BY EmptyMapIsMap
<1> HIDE DEF a
<1>6. Typed(a)
  BY <1>1, <1>2, <1>3, <1>4, <1>5 DEF Typed
<1> QED BY <1>6 DEF a

LEMMA ReleaseConfirmedTyped ==
    ASSUME NEW a, Typed(a)
    PROVE  Typed(ReleaseConfirmedBeyondObligation(a))
<1> DEFINE b == ReleaseConfirmedBeyondObligation(a)
           keep == RequiredOrRecent(a)
<1>1. DOMAIN a = Fields /\ IsMap(a.confirmedTurns, Turn) /\ IsMap(a.confirmedAtSeq, Nat)
  BY DEF Typed
<1>2. /\ IsMap(Keep(a.confirmedTurns, keep), Turn)
      /\ IsMap(Keep(a.confirmedAtSeq, keep), Nat)
      /\ DOMAIN Keep(a.confirmedTurns, keep) = DOMAIN a.confirmedTurns \cap keep
  BY <1>1, KeepMap
<1>3. Confirmed(b) \subseteq Confirmed(a)
  BY <1>1, <1>2, ReleaseConfirmedFrame DEF Confirmed
<1> QED BY <1>1, <1>2, <1>3, ReleaseConfirmedFrame DEF Typed, Pending

LEMMA InsertConfirmedTyped ==
    ASSUME NEW a, Typed(a), NEW id \in (1 .. a.nextTurnId - 1) \ Pending(a),
           NEW turn \in Turn
    PROVE  Typed(InsertConfirmed(a, id, turn))
<1> DEFINE b == InsertConfirmed(a, id, turn)
<1>1. /\ DOMAIN a = Fields /\ a.ledgerSeq + 1 \in Nat
      /\ IsMap(a.confirmedTurns, Turn) /\ IsMap(a.confirmedAtSeq, Nat)
  BY DEF Typed
<1>2. /\ IsMap(SetKey(a.confirmedTurns, id, turn), Turn)
      /\ IsMap(SetKey(a.confirmedAtSeq, id, a.ledgerSeq + 1), Nat)
      /\ DOMAIN SetKey(a.confirmedTurns, id, turn) = DOMAIN a.confirmedTurns \cup {id}
  BY <1>1 DEF SetKey, IsMap
<1>3. Confirmed(b) = Confirmed(a) \cup {id}
  BY <1>1, <1>2, InsertConfirmedFrame DEF Confirmed
<1> QED BY <1>1, <1>2, <1>3, InsertConfirmedFrame DEF Typed, Pending

LEMMA ForgetPendingTyped ==
    ASSUME NEW a, Typed(a), NEW id
    PROVE  Typed(ForgetPending(a, id)) /\ Pending(ForgetPending(a, id)) = Pending(a) \ {id}
<1> DEFINE b == ForgetPending(a, id)
<1>1. /\ DOMAIN a = Fields
      /\ IsMap(a.pendingTurns, Turn) /\ IsMap(a.pendingOpenedAtSeq, Nat)
      /\ IsMap(a.claims, SUBSET Subject)
  BY DEF Typed
<1>2. /\ IsMap(DeleteKey(a.pendingTurns, id), Turn)
      /\ IsMap(DeleteKey(a.pendingOpenedAtSeq, id), Nat)
      /\ IsMap(DeleteKey(a.claims, id), SUBSET Subject)
      /\ DOMAIN DeleteKey(a.pendingTurns, id) = DOMAIN a.pendingTurns \ {id}
  BY <1>1 DEF DeleteKey, IsMap
<1>3. Pending(b) = Pending(a) \ {id}
  BY <1>1, <1>2, ForgetPendingFrame DEF Pending
<1> QED BY <1>1, <1>2, <1>3, ForgetPendingFrame DEF Typed, Confirmed

LEMMA LedgerQuietTyped ==
    ASSUME NEW a, Typed(a)
    PROVE  /\ Typed(ReleaseLedgerIfQuiet(a))
           /\ Pending(ReleaseLedgerIfQuiet(a)) = Pending(a)
           /\ Confirmed(ReleaseLedgerIfQuiet(a)) = Confirmed(a)
<1> DEFINE b == ReleaseLedgerIfQuiet(a)
<1>1. DOMAIN a = Fields
  BY DEF Typed
<1>2. CASE Pending(a) = {}
  <2>1. <<>> \in Seq(LedgerEntry) /\ IsMap(EmptyMap, Nat)
    BY EmptyMapIsMap
  <2>2. Pending(b) = Pending(a) /\ Confirmed(b) = Confirmed(a)
    BY <1>1, LedgerQuietFrame DEF Pending, Confirmed
  <2>3. /\ b.dependencyLedger = <<>> /\ b.ledgerSeq = 0
        /\ b.pendingOpenedAtSeq = EmptyMap
    BY <1>1, <1>2, LedgerQuietFrame
  <2>4. /\ DOMAIN b = Fields
        /\ b.nextTurnId = a.nextTurnId /\ b.pendingTurns = a.pendingTurns
        /\ b.confirmedTurns = a.confirmedTurns
        /\ b.confirmedAtSeq = a.confirmedAtSeq /\ b.claims = a.claims
        /\ b.historyRetain = a.historyRetain
        /\ b.evictedConfirmed = a.evictedConfirmed
    BY <1>1, LedgerQuietFrame
  <2> HIDE DEF b
  <2>5. Typed(b)
    BY <2>1, <2>2, <2>3, <2>4 DEF Typed
  <2> QED BY <2>2, <2>5 DEF b
<1>3. CASE Pending(a) # {}
  BY <1>1, <1>3, LedgerQuietFrame
<1> QED BY <1>2, <1>3

LEMMA CreatePendingTyped ==
    ASSUME NEW a, Typed(a), NEW turn \in Turn
    PROVE  /\ Typed(CreatePending(a, turn))
           /\ Pending(CreatePending(a, turn)) = Pending(a) \cup {a.nextTurnId}
<1> DEFINE b == CreatePending(a, turn)
<1>0. DOMAIN a = Fields
  BY DEF Typed
<1>1. /\ DOMAIN a = Fields /\ a.ledgerSeq \in Nat /\ turn.subjects \in SUBSET Subject
      /\ IsMap(a.pendingTurns, Turn) /\ IsMap(a.pendingOpenedAtSeq, Nat)
      /\ IsMap(a.claims, SUBSET Subject)
  BY DEF Typed, Turn
<1>6. /\ DOMAIN b = Fields
      /\ b.pendingTurns = SetKey(a.pendingTurns, a.nextTurnId, turn)
      /\ b.pendingOpenedAtSeq = SetKey(a.pendingOpenedAtSeq, a.nextTurnId, a.ledgerSeq)
      /\ b.ledgerSeq = a.ledgerSeq /\ b.nextTurnId = a.nextTurnId + 1
      /\ b.claims \in {a.claims, SetKey(a.claims, a.nextTurnId, turn.subjects)}
      /\ b.confirmedTurns = a.confirmedTurns
      /\ b.confirmedAtSeq = a.confirmedAtSeq
      /\ b.dependencyLedger = a.dependencyLedger
      /\ b.historyRetain = a.historyRetain
      /\ b.evictedConfirmed = a.evictedConfirmed
  BY <1>0, CreatePendingFrame, Zenon
<1>2. /\ IsMap(SetKey(a.pendingTurns, a.nextTurnId, turn), Turn)
      /\ IsMap(SetKey(a.pendingOpenedAtSeq, a.nextTurnId, a.ledgerSeq), Nat)
      /\ IsMap(SetKey(a.claims, a.nextTurnId, turn.subjects), SUBSET Subject)
      /\ DOMAIN SetKey(a.pendingTurns, a.nextTurnId, turn)
            = DOMAIN a.pendingTurns \cup {a.nextTurnId}
  BY <1>1 DEF SetKey, IsMap
<1>3. Pending(b) = Pending(a) \cup {a.nextTurnId} /\ Confirmed(b) = Confirmed(a)
  <2> HIDE DEF b
  <2> QED BY <1>2, <1>6 DEF Pending, Confirmed
<1>4. IsMap(b.claims, SUBSET Subject)
  <2> HIDE DEF b
  <2> QED BY <1>1, <1>2, <1>6
<1>5. /\ a.nextTurnId \notin Confirmed(a)
      /\ Pending(b) \cup Confirmed(b) \subseteq 1 .. b.nextTurnId - 1
      /\ b.nextTurnId \in Nat \ {0}
  <2>2. a.nextTurnId \in Nat \ {0} /\ Pending(a) \cup Confirmed(a) \subseteq 1 .. a.nextTurnId - 1
    BY DEF Typed
  <2> HIDE DEF b
  <2> QED BY <1>3, <1>6, <2>2
<1>7. Typed(b)
  <2> HIDE DEF b
  <2> QED BY <1>2, <1>3, <1>4, <1>5, <1>6 DEF Typed
<1> QED BY <1>3, <1>7

LEMMA ObserveLaterTyped ==
    ASSUME NEW a, Typed(a), NEW effects \in Seq(Effect)
    PROVE  Typed(ObserveLaterEffects(a, effects))
<1> DEFINE b == ObserveLaterEffects(a, effects)
           entries == [i \in DOMAIN effects |->
                          [seq |-> a.ledgerSeq + 1, effect |-> effects[i]]]
<1>1. DOMAIN a = Fields /\ a.ledgerSeq \in Nat /\ a.dependencyLedger \in Seq(LedgerEntry)
  BY DEF Typed
<1>2. CASE Pending(a) = {} \/ effects = <<>>
  BY <1>2 DEF ObserveLaterEffects
<1>3. CASE Pending(a) # {} /\ effects # <<>>
  <2>0. \A i \in 1 .. Len(effects) :
            [seq |-> a.ledgerSeq + 1, effect |-> effects[i]] \in LedgerEntry
    BY <1>1 DEF LedgerEntry
  <2>1. entries \in Seq(LedgerEntry)
    BY <2>0
  <2>2. a.dependencyLedger \o entries \in Seq(LedgerEntry)
    BY <1>1, <2>1
  <2> HIDE DEF entries
  <2>3. Pending(b) = Pending(a) /\ Confirmed(b) = Confirmed(a)
    BY <1>1, <1>3, ObserveLaterFrame DEF Pending, Confirmed
  <2>4. b.dependencyLedger \in Seq(LedgerEntry)
    BY <1>1, <1>3, <2>2, ObserveLaterFrame DEF entries
  <2>5. /\ DOMAIN b = Fields
        /\ b.nextTurnId = a.nextTurnId /\ b.pendingTurns = a.pendingTurns
        /\ b.confirmedTurns = a.confirmedTurns
        /\ b.confirmedAtSeq = a.confirmedAtSeq
        /\ b.pendingOpenedAtSeq = a.pendingOpenedAtSeq /\ b.claims = a.claims
        /\ b.historyRetain = a.historyRetain
        /\ b.evictedConfirmed = a.evictedConfirmed
        /\ b.ledgerSeq = a.ledgerSeq + 1
    BY <1>1, <1>3, ObserveLaterFrame
  <2> HIDE DEF b
  <2>6. Typed(b)
    BY <1>1, <2>3, <2>4, <2>5 DEF Typed
  <2> QED BY <2>6 DEF b
<1> QED BY <1>2, <1>3

LEMMA ObserveQueuedTyped ==
    ASSUME NEW a, Typed(a), NEW id, NEW queued
    PROVE  Typed(ObserveQueuedEffects(a, id, queued))
<1> DEFINE b == ObserveQueuedEffects(a, id, queued)
<1>1. DOMAIN a = Fields
  BY DEF Typed
<1>2. Pending(b) = Pending(a) /\ Confirmed(b) = Confirmed(a)
  BY <1>1, ObserveQueuedFrame DEF Pending, Confirmed
<1> QED BY <1>1, <1>2, ObserveQueuedFrame DEF Typed

-----------------------------------------------------------------------------
(* The clock is shared: every step of every method keeps a younger         *)
(* confirmed turn stamped after an older pending one was opened, and every *)
(* stamp that is compared distinct.                                        *)

Sound(a) == Typed(a) /\ Chronological(a) /\ Distinct(a)

LEMMA LedgerEntries ==
    ASSUME NEW a, Typed(a)
    PROVE  \A i \in DOMAIN a.dependencyLedger : a.dependencyLedger[i].seq \in Nat
<1> DEFINE ledger == a.dependencyLedger
<1>1. ledger \in Seq(LedgerEntry)
  BY DEF Typed
<1>2. \A i \in DOMAIN ledger : ledger[i] \in LedgerEntry
  BY <1>1
<1> QED BY <1>2 DEF LedgerEntry

LEMMA InitialSound == Sound(InitialAuthority)
<1>1. Pending(InitialAuthority) = {} /\ Confirmed(InitialAuthority) = {}
  BY DEF InitialAuthority, EmptyMap, Pending, Confirmed
<1>2. /\ DOMAIN InitialAuthority.pendingOpenedAtSeq = {}
      /\ DOMAIN InitialAuthority.confirmedAtSeq = {}
      /\ InitialAuthority.dependencyLedger = <<>>
  BY DEF InitialAuthority, EmptyMap
<1> QED BY <1>1, <1>2, InitialTyped DEF Sound, Chronological, Distinct

(* Dropping confirmed records only removes cases.                          *)
LEMMA ReleaseConfirmedSound ==
    ASSUME NEW a, Sound(a)
    PROVE  Sound(ReleaseConfirmedBeyondObligation(a))
<1> DEFINE b == ReleaseConfirmedBeyondObligation(a)
           keep == RequiredOrRecent(a)
<1>1. /\ DOMAIN a = Fields
      /\ IsMap(a.confirmedTurns, Turn) /\ IsMap(a.confirmedAtSeq, Nat)
  BY DEF Sound, Typed
<1>2. /\ b.pendingTurns = a.pendingTurns
      /\ b.pendingOpenedAtSeq = a.pendingOpenedAtSeq
      /\ b.dependencyLedger = a.dependencyLedger /\ b.ledgerSeq = a.ledgerSeq
      /\ b.confirmedTurns = Keep(a.confirmedTurns, keep)
      /\ b.confirmedAtSeq = Keep(a.confirmedAtSeq, keep)
  BY <1>1, ReleaseConfirmedFrame
<1>3. DOMAIN a.confirmedAtSeq = Confirmed(a)
  BY DEF Sound, Chronological
<1>4. /\ Pending(b) = Pending(a)
      /\ Confirmed(b) = Confirmed(a) \cap keep
      /\ DOMAIN b.confirmedAtSeq = Confirmed(a) \cap keep
      /\ \A c \in Confirmed(b) : b.confirmedAtSeq[c] = a.confirmedAtSeq[c]
  BY <1>1, <1>2, <1>3 DEF Pending, Confirmed, Keep
<1>5. Typed(b)
  BY ReleaseConfirmedTyped DEF Sound
<1> HIDE DEF b
<1>6. Chronological(b)
  BY <1>2, <1>4 DEF Sound, Chronological
<1>7. Distinct(b)
  BY <1>2, <1>4 DEF Sound, Distinct
<1> QED BY <1>5, <1>6, <1>7 DEF Sound, b

(* A turn inserted now takes a tick nobody has.                            *)
LEMMA InsertConfirmedSound ==
    ASSUME NEW a, Sound(a), NEW id \in (1 .. a.nextTurnId - 1) \ Pending(a),
           NEW turn \in Turn
    PROVE  Sound(InsertConfirmed(a, id, turn))
<1> DEFINE b == InsertConfirmed(a, id, turn)
<1>1. DOMAIN a = Fields /\ a.ledgerSeq \in Nat
  BY DEF Sound, Typed
<1>2. /\ b.pendingTurns = a.pendingTurns
      /\ b.pendingOpenedAtSeq = a.pendingOpenedAtSeq
      /\ b.dependencyLedger = a.dependencyLedger /\ b.ledgerSeq = a.ledgerSeq + 1
      /\ b.confirmedTurns = SetKey(a.confirmedTurns, id, turn)
      /\ b.confirmedAtSeq = SetKey(a.confirmedAtSeq, id, a.ledgerSeq + 1)
  BY <1>1, InsertConfirmedFrame
<1>3. /\ Pending(b) = Pending(a) /\ Confirmed(b) = Confirmed(a) \cup {id}
      /\ DOMAIN b.confirmedAtSeq = DOMAIN a.confirmedAtSeq \cup {id}
      /\ b.confirmedAtSeq[id] = a.ledgerSeq + 1
      /\ \A c \in DOMAIN a.confirmedAtSeq \ {id} : b.confirmedAtSeq[c] = a.confirmedAtSeq[c]
  BY <1>2 DEF Pending, Confirmed, SetKey
<1>4. /\ DOMAIN a.pendingOpenedAtSeq = Pending(a)
      /\ DOMAIN a.confirmedAtSeq = Confirmed(a)
      /\ \A p \in Pending(a) : a.pendingOpenedAtSeq[p] \in Nat /\ a.pendingOpenedAtSeq[p] <= a.ledgerSeq
      /\ \A c \in Confirmed(a) : a.confirmedAtSeq[c] \in Nat
      /\ \A p \in Pending(a), c \in Confirmed(a) :
            c > p => /\ a.pendingOpenedAtSeq[p] < a.confirmedAtSeq[c]
                     /\ a.confirmedAtSeq[c] <= a.ledgerSeq
  BY DEF Sound, Typed, IsMap, Chronological
<1>5. \A i \in DOMAIN a.dependencyLedger : /\ a.dependencyLedger[i].seq \in Nat
                                          /\ a.dependencyLedger[i].seq <= a.ledgerSeq
  BY LedgerEntries DEF Sound, Chronological
<1>6. Typed(b)
  BY InsertConfirmedTyped DEF Sound
<1> HIDE DEF b
<1>7. Chronological(b)
  BY <1>1, <1>2, <1>3, <1>4, <1>5 DEF Chronological
<1>8. Distinct(b)
  BY <1>1, <1>2, <1>3, <1>4, <1>5 DEF Sound, Distinct
<1> QED BY <1>6, <1>7, <1>8 DEF Sound, b

LEMMA ForgetPendingSound ==
    ASSUME NEW a, Sound(a), NEW id
    PROVE  Sound(ForgetPending(a, id))
<1> DEFINE b == ForgetPending(a, id)
<1>1. DOMAIN a = Fields
  BY DEF Sound, Typed
<1>2. /\ b.pendingTurns = DeleteKey(a.pendingTurns, id)
      /\ b.pendingOpenedAtSeq = DeleteKey(a.pendingOpenedAtSeq, id)
      /\ b.confirmedTurns = a.confirmedTurns /\ b.confirmedAtSeq = a.confirmedAtSeq
      /\ b.dependencyLedger = a.dependencyLedger /\ b.ledgerSeq = a.ledgerSeq
  BY <1>1, ForgetPendingFrame
<1>3. DOMAIN a.pendingOpenedAtSeq = Pending(a)
  BY DEF Sound, Chronological
<1>4. /\ Pending(b) = Pending(a) \ {id} /\ Confirmed(b) = Confirmed(a)
      /\ DOMAIN b.pendingOpenedAtSeq = Pending(a) \ {id}
      /\ \A p \in Pending(b) : b.pendingOpenedAtSeq[p] = a.pendingOpenedAtSeq[p]
  BY <1>2, <1>3 DEF Pending, Confirmed, DeleteKey
<1>5. Typed(b)
  BY ForgetPendingTyped DEF Sound
<1> HIDE DEF b
<1>6. Chronological(b)
  BY <1>2, <1>4 DEF Sound, Chronological
<1>7. Distinct(b)
  BY <1>2, <1>4 DEF Sound, Distinct
<1> QED BY <1>5, <1>6, <1>7 DEF Sound, b

(* The clock goes back to zero only when nobody's opening is measured.     *)
LEMMA LedgerQuietSound ==
    ASSUME NEW a, Sound(a)
    PROVE  Sound(ReleaseLedgerIfQuiet(a))
<1> DEFINE b == ReleaseLedgerIfQuiet(a)
<1>1. DOMAIN a = Fields /\ DOMAIN a.confirmedAtSeq = Confirmed(a)
  BY DEF Sound, Typed, Chronological
<1>2. CASE Pending(a) # {}
  BY <1>1, <1>2, LedgerQuietFrame
<1>3. CASE Pending(a) = {}
  <2>1. /\ b.dependencyLedger = <<>>
        /\ b.pendingOpenedAtSeq = EmptyMap /\ b.confirmedAtSeq = a.confirmedAtSeq
    BY <1>1, <1>3, LedgerQuietFrame
  <2>2. Typed(b) /\ Pending(b) = {} /\ Confirmed(b) = Confirmed(a)
    BY <1>3, LedgerQuietTyped DEF Sound
  <2>3. DOMAIN b.pendingOpenedAtSeq = {} /\ DOMAIN b.dependencyLedger = {}
    BY <2>1 DEF EmptyMap
  <2> HIDE DEF b
  <2>4. Chronological(b) /\ Distinct(b)
    BY <1>1, <2>1, <2>2, <2>3 DEF Chronological, Distinct
  <2> QED BY <2>2, <2>4 DEF Sound, b
<1> QED BY <1>2, <1>3

(* A turn opens younger than every confirmed one.                          *)
LEMMA CreatePendingSound ==
    ASSUME NEW a, Sound(a), NEW turn \in Turn
    PROVE  Sound(CreatePending(a, turn))
<1> DEFINE b == CreatePending(a, turn)
<1>1. /\ DOMAIN a = Fields /\ a.ledgerSeq \in Nat /\ a.nextTurnId \in Nat
      /\ Pending(a) \cup Confirmed(a) \subseteq 1 .. a.nextTurnId - 1
      /\ DOMAIN a.pendingOpenedAtSeq = Pending(a)
  BY DEF Sound, Typed, Chronological
<1>2. /\ b.pendingOpenedAtSeq = SetKey(a.pendingOpenedAtSeq, a.nextTurnId, a.ledgerSeq)
      /\ b.confirmedTurns = a.confirmedTurns /\ b.confirmedAtSeq = a.confirmedAtSeq
      /\ b.dependencyLedger = a.dependencyLedger /\ b.ledgerSeq = a.ledgerSeq
  BY <1>1, CreatePendingFrame
<1>3. Typed(b) /\ Pending(b) = Pending(a) \cup {a.nextTurnId}
  BY CreatePendingTyped DEF Sound
<1>4. /\ Confirmed(b) = Confirmed(a)
      /\ DOMAIN b.pendingOpenedAtSeq = Pending(b)
      /\ b.pendingOpenedAtSeq[a.nextTurnId] = a.ledgerSeq
      /\ \A p \in Pending(a) : b.pendingOpenedAtSeq[p] = a.pendingOpenedAtSeq[p]
  BY <1>1, <1>2, <1>3 DEF Confirmed, SetKey
<1>5. \A c \in Confirmed(b) : ~(c > a.nextTurnId)
  BY <1>1, <1>4
<1> HIDE DEF b
<1>6. Chronological(b)
  BY <1>1, <1>2, <1>3, <1>4, <1>5 DEF Sound, Chronological
<1>7. Distinct(b)
  BY <1>2, <1>3, <1>4, <1>5 DEF Sound, Distinct
<1> QED BY <1>3, <1>6, <1>7 DEF Sound, b

(* A realization takes a tick nobody has, for all its effects together.    *)
LEMMA ObserveLaterSound ==
    ASSUME NEW a, Sound(a), NEW effects \in Seq(Effect)
    PROVE  Sound(ObserveLaterEffects(a, effects))
<1> DEFINE b == ObserveLaterEffects(a, effects)
<1>1. CASE Pending(a) = {} \/ effects = <<>>
  BY <1>1 DEF ObserveLaterEffects
<1>2. CASE Pending(a) # {} /\ effects # <<>>
  <2> DEFINE old == a.dependencyLedger
             entries == [i \in DOMAIN effects |->
                            [seq |-> a.ledgerSeq + 1, effect |-> effects[i]]]
  <2>1. /\ DOMAIN a = Fields /\ a.ledgerSeq \in Nat /\ old \in Seq(LedgerEntry)
        /\ DOMAIN a.confirmedAtSeq = Confirmed(a)
        /\ \A c \in Confirmed(a) : a.confirmedAtSeq[c] \in Nat
    BY DEF Sound, Typed, IsMap, Chronological
  <2>2. /\ b.pendingTurns = a.pendingTurns /\ b.confirmedTurns = a.confirmedTurns
        /\ b.confirmedAtSeq = a.confirmedAtSeq
        /\ b.pendingOpenedAtSeq = a.pendingOpenedAtSeq
        /\ b.ledgerSeq = a.ledgerSeq + 1
        /\ b.dependencyLedger = old \o entries
    BY <1>2, <2>1, ObserveLaterFrame
  <2>3. /\ \A i \in DOMAIN entries : entries[i].seq = a.ledgerSeq + 1
        /\ DOMAIN entries = 1 .. Len(effects) /\ Len(effects) \in Nat
    OBVIOUS
  <2> HIDE DEF entries
  <2>4. \A i \in DOMAIN b.dependencyLedger :
           \/ i \in DOMAIN old /\ b.dependencyLedger[i] = old[i]
           \/ b.dependencyLedger[i].seq = a.ledgerSeq + 1
    <3> SUFFICES ASSUME NEW i \in DOMAIN (old \o entries)
                 PROVE  \/ i \in DOMAIN old /\ (old \o entries)[i] = old[i]
                        \/ (old \o entries)[i].seq = a.ledgerSeq + 1
      BY <2>2
    <3>1. /\ Len(old) \in Nat /\ DOMAIN old = 1 .. Len(old) /\ Len(entries) = Len(effects)
      BY <2>1, <2>3 DEF entries
    <3>2. i \in 1 .. Len(old) + Len(effects)
      BY <2>1, <2>3, <3>1 DEF entries
    <3>3. CASE i <= Len(old)
      BY <2>1, <3>1, <3>2, <3>3 DEF entries
    <3>4. CASE i > Len(old)
      <4>1. (old \o entries)[i] = entries[i - Len(old)] /\ i - Len(old) \in DOMAIN entries
        BY <2>1, <2>3, <3>1, <3>2, <3>4 DEF entries
      <4> QED BY <2>3, <4>1
    <3> QED BY <3>1, <3>2, <3>3, <3>4
  <2>5. \A i \in DOMAIN old : old[i].seq \in Nat /\ old[i].seq <= a.ledgerSeq
    BY LedgerEntries DEF Sound, Chronological
  <2>6. Typed(b)
    BY ObserveLaterTyped DEF Sound
  <2>7. Pending(b) = Pending(a) /\ Confirmed(b) = Confirmed(a)
    BY <2>2 DEF Pending, Confirmed
  <2>8. \A p \in Pending(a) : a.pendingOpenedAtSeq[p] \in Nat
    BY DEF Sound, Typed, IsMap, Chronological
  <2> HIDE DEF b, old
  <2>9. Chronological(b)
    BY <2>1, <2>2, <2>4, <2>5, <2>7, <2>8 DEF Sound, Chronological
  <2>10. Distinct(b)
    BY <2>1, <2>2, <2>4, <2>5, <2>7, <2>8 DEF Sound, Chronological, Distinct, old
  <2> QED BY <2>6, <2>9, <2>10 DEF Sound, b
<1> QED BY <1>1, <1>2

LEMMA ObserveQueuedSound ==
    ASSUME NEW a, Sound(a), NEW id, NEW queued
    PROVE  Sound(ObserveQueuedEffects(a, id, queued))
<1> DEFINE b == ObserveQueuedEffects(a, id, queued)
<1>1. DOMAIN a = Fields
  BY DEF Sound, Typed
<1>2. /\ b.pendingTurns = a.pendingTurns /\ b.confirmedTurns = a.confirmedTurns
      /\ b.confirmedAtSeq = a.confirmedAtSeq
      /\ b.pendingOpenedAtSeq = a.pendingOpenedAtSeq
      /\ b.dependencyLedger = a.dependencyLedger /\ b.ledgerSeq = a.ledgerSeq
  BY <1>1, ObserveQueuedFrame
<1>3. Typed(b) /\ Pending(b) = Pending(a) /\ Confirmed(b) = Confirmed(a)
  BY <1>2, ObserveQueuedTyped DEF Sound, Pending, Confirmed
<1> HIDE DEF b
<1>4. Chronological(b) /\ Distinct(b)
  BY <1>2, <1>3 DEF Sound, Chronological, Distinct
<1> QED BY <1>3, <1>4 DEF Sound, b

-----------------------------------------------------------------------------
(* Methods that call other methods                                         *)

LEMMA RecordConfirmedSound ==
    ASSUME NEW a, Sound(a), NEW turn \in Turn
    PROVE  Sound(RecordConfirmed(a, turn))
<1> DEFINE b == [a EXCEPT !.nextTurnId = @ + 1]
           c == InsertConfirmed(b, a.nextTurnId, turn)
<1>1. DOMAIN a = Fields
  BY DEF Sound, Typed
<1>2. /\ DOMAIN b = Fields /\ b.nextTurnId = a.nextTurnId + 1
      /\ b.pendingTurns = a.pendingTurns /\ b.confirmedTurns = a.confirmedTurns
      /\ b.confirmedAtSeq = a.confirmedAtSeq
      /\ b.pendingOpenedAtSeq = a.pendingOpenedAtSeq /\ b.claims = a.claims
      /\ b.dependencyLedger = a.dependencyLedger /\ b.ledgerSeq = a.ledgerSeq
      /\ b.historyRetain = a.historyRetain
      /\ b.evictedConfirmed = a.evictedConfirmed
  BY <1>1, FieldsAre DEF FieldNames
<1>3. /\ a.nextTurnId \in Nat \ {0}
      /\ Pending(a) \cup Confirmed(a) \subseteq 1 .. a.nextTurnId - 1
      /\ Pending(b) = Pending(a) /\ Confirmed(b) = Confirmed(a)
  BY <1>2 DEF Sound, Typed, Pending, Confirmed
<1>4. /\ b.nextTurnId \in Nat \ {0}
      /\ Pending(b) \cup Confirmed(b) \subseteq 1 .. b.nextTurnId - 1
      /\ a.nextTurnId \in (1 .. b.nextTurnId - 1) \ Pending(b)
  BY <1>2, <1>3
<1> HIDE DEF b
<1>5. Typed(b)
  BY <1>2, <1>3, <1>4 DEF Sound, Typed
<1>6. Chronological(b) /\ Distinct(b)
  BY <1>2, <1>3 DEF Sound, Chronological, Distinct
<1>7. Sound(c)
  BY <1>4, <1>5, <1>6, InsertConfirmedSound DEF Sound
<1> HIDE DEF c
<1>8. Sound(ReleaseConfirmedBeyondObligation(c))
  BY <1>7, ReleaseConfirmedSound
<1> QED BY <1>8 DEF RecordConfirmed, b, c

LEMMA ConfirmPendingSound ==
    ASSUME NEW a, Sound(a), NEW id
    PROVE  Sound(ConfirmPending(a, id))
<1>1. CASE id \notin Pending(a)
  BY <1>1 DEF ConfirmPending
<1>2. CASE id \in Pending(a)
  <2> DEFINE b == ForgetPending(a, id)
             turn == a.pendingTurns[id]
             c == InsertConfirmed(b, id, turn)
             d == ReleaseLedgerIfQuiet(c)
  <2>1. Sound(b) /\ Pending(b) = Pending(a) \ {id} /\ b.nextTurnId = a.nextTurnId
    BY ForgetPendingSound, ForgetPendingTyped, ForgetPendingFrame DEF Sound, Typed
  <2>2. id \in (1 .. b.nextTurnId - 1) \ Pending(b) /\ turn \in Turn
    BY <1>2, <2>1 DEF Sound, Typed, IsMap, Pending
  <2> HIDE DEF b, turn
  <2>3. Sound(c)
    BY <2>1, <2>2, InsertConfirmedSound
  <2> HIDE DEF c
  <2>4. Sound(d)
    BY <2>3, LedgerQuietSound
  <2> HIDE DEF d
  <2>5. Sound(ReleaseConfirmedBeyondObligation(d))
    BY <2>4, ReleaseConfirmedSound
  <2> QED BY <1>2, <2>5 DEF ConfirmPending, b, turn, c, d
<1> QED BY <1>1, <1>2

LEMMA DiscardPendingSound ==
    ASSUME NEW a, Sound(a), NEW id
    PROVE  Sound(DiscardPending(a, id))
<1> DEFINE b == ForgetPending(a, id)
           c == ReleaseLedgerIfQuiet(b)
<1>1. Sound(b)
  BY ForgetPendingSound
<1> HIDE DEF b
<1>2. Sound(c)
  BY <1>1, LedgerQuietSound
<1> HIDE DEF c
<1>3. Sound(ReleaseConfirmedBeyondObligation(c))
  BY <1>2, ReleaseConfirmedSound
<1> QED BY <1>3 DEF DiscardPending, b, c

LEMMA SetHistoryRetentionSound ==
    ASSUME NEW a, Sound(a), NEW retain \in Nat
    PROVE  Sound(SetHistoryRetention(a, retain))
<1> DEFINE b == [a EXCEPT !.historyRetain = retain]
<1>1. DOMAIN a = Fields
  BY DEF Sound, Typed
<1>2. /\ DOMAIN b = Fields /\ b.nextTurnId = a.nextTurnId
      /\ b.pendingTurns = a.pendingTurns /\ b.confirmedTurns = a.confirmedTurns
      /\ b.confirmedAtSeq = a.confirmedAtSeq
      /\ b.pendingOpenedAtSeq = a.pendingOpenedAtSeq /\ b.claims = a.claims
      /\ b.dependencyLedger = a.dependencyLedger /\ b.ledgerSeq = a.ledgerSeq
      /\ b.historyRetain = retain
      /\ b.evictedConfirmed = a.evictedConfirmed
  BY <1>1, FieldsAre DEF FieldNames
<1>3. Pending(b) = Pending(a) /\ Confirmed(b) = Confirmed(a)
  BY <1>2 DEF Pending, Confirmed
<1> HIDE DEF b
<1>4. Typed(b)
  BY <1>2, <1>3 DEF Sound, Typed
<1>5. Chronological(b) /\ Distinct(b)
  BY <1>2, <1>3 DEF Sound, Chronological, Distinct
<1>6. Sound(ReleaseConfirmedBeyondObligation(b))
  BY <1>4, <1>5, ReleaseConfirmedSound DEF Sound
<1> QED BY <1>6 DEF SetHistoryRetention, b

LEMMA ReleaseOnDestroySound ==
    ASSUME NEW a, Sound(a)
    PROVE  Sound(ReleaseOnDestroy(a))
<1> DEFINE b == [a EXCEPT !.confirmedTurns = EmptyMap, !.confirmedAtSeq = EmptyMap]
           c == [b EXCEPT !.pendingTurns = EmptyMap, !.pendingOpenedAtSeq = EmptyMap,
                          !.queuedEvidence = EmptyMap, !.claims = EmptyMap]
<1>1. DOMAIN a = Fields
  BY DEF Sound, Typed
<1>2. /\ DOMAIN b = Fields /\ b.nextTurnId = a.nextTurnId
      /\ b.pendingTurns = a.pendingTurns /\ b.confirmedTurns = EmptyMap
      /\ b.confirmedAtSeq = EmptyMap
      /\ b.pendingOpenedAtSeq = a.pendingOpenedAtSeq /\ b.claims = a.claims
      /\ b.dependencyLedger = a.dependencyLedger /\ b.ledgerSeq = a.ledgerSeq
      /\ b.historyRetain = a.historyRetain
      /\ b.evictedConfirmed = a.evictedConfirmed
  BY <1>1, FieldsAre DEF FieldNames
<1>3. /\ DOMAIN EmptyMap = {} /\ IsMap(EmptyMap, Turn) /\ IsMap(EmptyMap, Nat)
      /\ IsMap(EmptyMap, SUBSET Subject)
  BY EmptyMapIsMap
<1>4. Pending(b) = Pending(a) /\ Confirmed(b) = {}
  BY <1>2, <1>3 DEF Pending, Confirmed
<1> HIDE DEF b
<1>5. Typed(b)
  BY <1>2, <1>3, <1>4 DEF Sound, Typed
<1>6. Chronological(b) /\ Distinct(b)
  BY <1>2, <1>3, <1>4 DEF Sound, Chronological, Distinct
<1>7. /\ DOMAIN c = Fields /\ c.nextTurnId = b.nextTurnId
      /\ c.pendingTurns = EmptyMap /\ c.confirmedTurns = EmptyMap
      /\ c.confirmedAtSeq = EmptyMap
      /\ c.pendingOpenedAtSeq = EmptyMap /\ c.claims = EmptyMap
      /\ c.dependencyLedger = b.dependencyLedger /\ c.ledgerSeq = b.ledgerSeq
      /\ c.historyRetain = b.historyRetain
      /\ c.evictedConfirmed = b.evictedConfirmed
  BY <1>2, FieldsAre DEF FieldNames
<1>8. Pending(c) = {} /\ Confirmed(c) = {}
  BY <1>3, <1>7 DEF Pending, Confirmed
<1> HIDE DEF c
<1>9. Typed(c)
  BY <1>3, <1>5, <1>7, <1>8 DEF Typed
<1>10. Chronological(c) /\ Distinct(c)
  BY <1>3, <1>6, <1>7, <1>8 DEF Chronological, Distinct
<1>11. Sound(ReleaseLedgerIfQuiet(c))
  BY <1>9, <1>10, LedgerQuietSound DEF Sound
<1> QED BY <1>5, <1>6, <1>11 DEF ReleaseOnDestroy, Sound, b, c

-----------------------------------------------------------------------------
(* Obligations survive every method                                        *)

LEMMA KeepsIsTransitive ==
    ASSUME NEW a, NEW b, NEW c, KeepsObligations(a, b), KeepsObligations(b, c),
           Pending(a) \cap Pending(c) \subseteq Pending(b)
    PROVE  KeepsObligations(a, c)
BY DEF KeepsObligations

LEMMA ReleaseConfirmedKeeps ==
    ASSUME NEW a, Sound(a)
    PROVE  /\ KeepsObligations(a, ReleaseConfirmedBeyondObligation(a))
           /\ Pending(ReleaseConfirmedBeyondObligation(a)) = Pending(a)
<1> DEFINE b == ReleaseConfirmedBeyondObligation(a)
           keep == RequiredOrRecent(a)
<1>1. DOMAIN a = Fields /\ DOMAIN a.confirmedAtSeq = Confirmed(a)
  BY DEF Sound, Typed, Chronological
<1>2. /\ b.pendingTurns = a.pendingTurns
      /\ b.confirmedTurns = Keep(a.confirmedTurns, keep)
      /\ b.confirmedAtSeq = Keep(a.confirmedAtSeq, keep)
  BY <1>1, ReleaseConfirmedFrame
<1>3. /\ Pending(b) = Pending(a) /\ Confirmed(b) = Confirmed(a) \cap keep
      /\ \A c \in Confirmed(b) : /\ b.confirmedTurns[c] = a.confirmedTurns[c]
                                 /\ b.confirmedAtSeq[c] = a.confirmedAtSeq[c]
  BY <1>1, <1>2 DEF Pending, Confirmed, Keep
<1>4. \A p \in Pending(a), c \in Confirmed(a) : c > p => c \in keep
  BY DEF RequiredOrRecent
<1> HIDE DEF b, keep
<1>5. KeepsObligations(a, b)
  BY <1>3, <1>4 DEF KeepsObligations
<1> QED BY <1>3, <1>5 DEF b

LEMMA InsertConfirmedKeeps ==
    ASSUME NEW a, Sound(a), NEW id, id \notin Confirmed(a), NEW turn
    PROVE  /\ KeepsObligations(a, InsertConfirmed(a, id, turn))
           /\ Pending(InsertConfirmed(a, id, turn)) = Pending(a)
<1> DEFINE b == InsertConfirmed(a, id, turn)
<1>1. DOMAIN a = Fields /\ DOMAIN a.confirmedAtSeq = Confirmed(a)
  BY DEF Sound, Typed, Chronological
<1>2. /\ b.pendingTurns = a.pendingTurns
      /\ b.confirmedTurns = SetKey(a.confirmedTurns, id, turn)
      /\ b.confirmedAtSeq = SetKey(a.confirmedAtSeq, id, a.ledgerSeq + 1)
  BY <1>1, InsertConfirmedFrame
<1>3. /\ Pending(b) = Pending(a) /\ Confirmed(b) = Confirmed(a) \cup {id}
      /\ \A c \in Confirmed(a) : /\ b.confirmedTurns[c] = a.confirmedTurns[c]
                                 /\ b.confirmedAtSeq[c] = a.confirmedAtSeq[c]
  BY <1>1, <1>2 DEF Pending, Confirmed, SetKey
<1> HIDE DEF b
<1>4. KeepsObligations(a, b)
  BY <1>3 DEF KeepsObligations
<1> QED BY <1>3, <1>4 DEF b

LEMMA ForgetPendingKeeps ==
    ASSUME NEW a, Sound(a), NEW id
    PROVE  KeepsObligations(a, ForgetPending(a, id))
<1> DEFINE b == ForgetPending(a, id)
<1>1. DOMAIN a = Fields
  BY DEF Sound, Typed
<1>2. b.confirmedTurns = a.confirmedTurns /\ b.confirmedAtSeq = a.confirmedAtSeq
  BY <1>1, ForgetPendingFrame
<1> QED BY <1>2 DEF KeepsObligations, Confirmed

LEMMA LedgerQuietKeeps ==
    ASSUME NEW a, Sound(a)
    PROVE  /\ KeepsObligations(a, ReleaseLedgerIfQuiet(a))
           /\ Pending(ReleaseLedgerIfQuiet(a)) = Pending(a)
<1>1. DOMAIN a = Fields
  BY DEF Sound, Typed
<1> QED BY <1>1, LedgerQuietFrame DEF KeepsObligations, Pending, Confirmed

LEMMA RecordConfirmedKeeps ==
    ASSUME NEW a, Sound(a), NEW turn \in Turn
    PROVE  KeepsObligations(a, RecordConfirmed(a, turn))
<1> DEFINE b == [a EXCEPT !.nextTurnId = @ + 1]
           c == InsertConfirmed(b, a.nextTurnId, turn)
           d == ReleaseConfirmedBeyondObligation(c)
<1>1. DOMAIN a = Fields
  BY DEF Sound, Typed
<1>2. /\ DOMAIN b = Fields /\ b.nextTurnId = a.nextTurnId + 1
      /\ b.pendingTurns = a.pendingTurns /\ b.confirmedTurns = a.confirmedTurns
      /\ b.confirmedAtSeq = a.confirmedAtSeq
      /\ b.pendingOpenedAtSeq = a.pendingOpenedAtSeq /\ b.claims = a.claims
      /\ b.dependencyLedger = a.dependencyLedger /\ b.ledgerSeq = a.ledgerSeq
      /\ b.historyRetain = a.historyRetain
      /\ b.evictedConfirmed = a.evictedConfirmed
  BY <1>1, FieldsAre DEF FieldNames
<1>3. /\ a.nextTurnId \in Nat \ {0}
      /\ Pending(a) \cup Confirmed(a) \subseteq 1 .. a.nextTurnId - 1
      /\ Pending(b) = Pending(a) /\ Confirmed(b) = Confirmed(a)
  BY <1>2 DEF Sound, Typed, Pending, Confirmed
<1>4. /\ b.nextTurnId \in Nat \ {0}
      /\ Pending(b) \cup Confirmed(b) \subseteq 1 .. b.nextTurnId - 1
      /\ a.nextTurnId \in (1 .. b.nextTurnId - 1) \ Pending(b)
      /\ a.nextTurnId \notin Confirmed(b)
  BY <1>2, <1>3
<1>5. KeepsObligations(a, b)
  BY <1>2, <1>3 DEF KeepsObligations
<1> HIDE DEF b
<1>6. Sound(b)
  BY <1>2, <1>3, <1>4 DEF Sound, Typed, Chronological, Distinct
<1>7. Sound(c) /\ KeepsObligations(b, c) /\ Pending(c) = Pending(b)
  BY <1>4, <1>6, InsertConfirmedSound, InsertConfirmedKeeps
<1> HIDE DEF c
<1>8. KeepsObligations(c, d) /\ Pending(d) = Pending(c)
  BY <1>7, ReleaseConfirmedKeeps
<1> HIDE DEF d
<1>9. KeepsObligations(a, c)
  BY <1>3, <1>5, <1>7, KeepsIsTransitive
<1>10. KeepsObligations(a, d)
  BY <1>3, <1>7, <1>8, <1>9, KeepsIsTransitive
<1> QED BY <1>10 DEF RecordConfirmed, b, c, d

LEMMA ConfirmPendingKeeps ==
    ASSUME NEW a, Sound(a), NEW id \in Pending(a)
    PROVE  KeepsObligations(a, ConfirmPending(a, id))
<1> DEFINE b == ForgetPending(a, id)
           turn == a.pendingTurns[id]
           c == InsertConfirmed(b, id, turn)
           d == ReleaseLedgerIfQuiet(c)
           e == ReleaseConfirmedBeyondObligation(d)
<1>1. /\ Sound(b) /\ KeepsObligations(a, b)
      /\ Pending(b) = Pending(a) \ {id} /\ b.nextTurnId = a.nextTurnId
      /\ Confirmed(b) = Confirmed(a)
  <2>0. DOMAIN a = Fields /\ Typed(a)
    BY DEF Sound, Typed
  <2>1. Sound(b) /\ KeepsObligations(a, b)
    BY ForgetPendingSound, ForgetPendingKeeps
  <2>2. Pending(b) = Pending(a) \ {id}
    BY <2>0, ForgetPendingTyped
  <2>3. b.nextTurnId = a.nextTurnId /\ b.confirmedTurns = a.confirmedTurns
    BY <2>0, ForgetPendingFrame
  <2> QED BY <2>1, <2>2, <2>3 DEF Confirmed
<1>2. /\ id \in (1 .. b.nextTurnId - 1) \ Pending(b) /\ turn \in Turn
      /\ id \notin Confirmed(b)
  BY <1>1 DEF Sound, Typed, IsMap, Pending
<1> HIDE DEF b, turn
<1>3. Sound(c) /\ KeepsObligations(b, c) /\ Pending(c) = Pending(b)
  BY <1>1, <1>2, InsertConfirmedSound, InsertConfirmedKeeps
<1> HIDE DEF c
<1>4. Sound(d) /\ KeepsObligations(c, d) /\ Pending(d) = Pending(c)
  BY <1>3, LedgerQuietSound, LedgerQuietKeeps
<1> HIDE DEF d
<1>5. KeepsObligations(d, e) /\ Pending(e) = Pending(d)
  BY <1>4, ReleaseConfirmedKeeps
<1> HIDE DEF e
<1>6. KeepsObligations(a, c)
  BY <1>1, <1>3, KeepsIsTransitive
<1>7. KeepsObligations(a, d)
  BY <1>3, <1>4, <1>6, KeepsIsTransitive
<1>8. KeepsObligations(a, e)
  BY <1>4, <1>5, <1>7, KeepsIsTransitive
<1> QED BY <1>8 DEF ConfirmPending, b, turn, c, d, e

LEMMA DiscardPendingKeeps ==
    ASSUME NEW a, Sound(a), NEW id \in Pending(a)
    PROVE  KeepsObligations(a, DiscardPending(a, id))
<1> DEFINE b == ForgetPending(a, id)
           c == ReleaseLedgerIfQuiet(b)
           d == ReleaseConfirmedBeyondObligation(c)
<1>1. Sound(b) /\ KeepsObligations(a, b)
  BY ForgetPendingSound, ForgetPendingKeeps
<1> HIDE DEF b
<1>2. Sound(c) /\ KeepsObligations(b, c) /\ Pending(c) = Pending(b)
  BY <1>1, LedgerQuietSound, LedgerQuietKeeps
<1> HIDE DEF c
<1>3. KeepsObligations(c, d) /\ Pending(d) = Pending(c)
  BY <1>2, ReleaseConfirmedKeeps
<1> HIDE DEF d
<1>4. KeepsObligations(a, c)
  BY <1>1, <1>2, KeepsIsTransitive
<1>5. KeepsObligations(a, d)
  BY <1>2, <1>3, <1>4, KeepsIsTransitive
<1> QED BY <1>5 DEF DiscardPending, b, c, d

LEMMA SetHistoryRetentionKeeps ==
    ASSUME NEW a, Sound(a), NEW retain \in Nat
    PROVE  KeepsObligations(a, SetHistoryRetention(a, retain))
<1> DEFINE b == [a EXCEPT !.historyRetain = retain]
           c == ReleaseConfirmedBeyondObligation(b)
<1>1. DOMAIN a = Fields
  BY DEF Sound, Typed
<1>2. /\ DOMAIN b = Fields /\ b.nextTurnId = a.nextTurnId
      /\ b.pendingTurns = a.pendingTurns /\ b.confirmedTurns = a.confirmedTurns
      /\ b.confirmedAtSeq = a.confirmedAtSeq
      /\ b.pendingOpenedAtSeq = a.pendingOpenedAtSeq /\ b.claims = a.claims
      /\ b.dependencyLedger = a.dependencyLedger /\ b.ledgerSeq = a.ledgerSeq
      /\ b.historyRetain = retain
      /\ b.evictedConfirmed = a.evictedConfirmed
  BY <1>1, FieldsAre DEF FieldNames
<1>3. Pending(b) = Pending(a) /\ Confirmed(b) = Confirmed(a)
  BY <1>2 DEF Pending, Confirmed
<1> HIDE DEF b
<1>4. Sound(b)
  BY <1>2, <1>3 DEF Sound, Typed, Chronological, Distinct
<1>5. KeepsObligations(a, b)
  BY <1>2, <1>3 DEF KeepsObligations
<1>6. KeepsObligations(b, c) /\ Pending(c) = Pending(b)
  BY <1>4, ReleaseConfirmedKeeps
<1> HIDE DEF c
<1>7. KeepsObligations(a, c)
  BY <1>3, <1>5, <1>6, KeepsIsTransitive
<1> QED BY <1>7 DEF SetHistoryRetention, b, c

(* After teardown nothing is pending, so nothing is owed.                  *)
LEMMA NothingPendingAfterDestroy ==
    ASSUME NEW a, Sound(a)
    PROVE  Pending(ReleaseOnDestroy(a)) = {}
<1> DEFINE b == [a EXCEPT !.confirmedTurns = EmptyMap, !.confirmedAtSeq = EmptyMap]
           c == [b EXCEPT !.pendingTurns = EmptyMap, !.pendingOpenedAtSeq = EmptyMap,
                          !.queuedEvidence = EmptyMap, !.claims = EmptyMap]
<1>1. DOMAIN a = Fields
  BY DEF Sound, Typed
<1>2. DOMAIN b = Fields /\ b.pendingTurns = a.pendingTurns
  BY <1>1, FieldsAre DEF FieldNames
<1>3. DOMAIN c = Fields /\ c.pendingTurns = EmptyMap
  BY <1>2, FieldsAre DEF FieldNames
<1> HIDE DEF c
<1>4. Pending(c) = {} /\ ReleaseLedgerIfQuiet(c).pendingTurns = c.pendingTurns
  BY <1>3, LedgerQuietFrame DEF Pending, EmptyMap
<1> QED BY <1>2, <1>4 DEF ReleaseOnDestroy, Pending, b, c

-----------------------------------------------------------------------------
(* Theorems about the specification                                        *)

(* The inductive invariant: the object is sound, whoever called what.      *)
LEMMA AuthorityIsSound == Spec => [](Sound(authority) /\ destroyed \in BOOLEAN)
<1> DEFINE Inv == Sound(authority) /\ destroyed \in BOOLEAN
<1>1. Init => Inv
  BY InitialSound DEF Init
<1>2. Inv /\ [Next]_vars => Inv'
  <2> SUFFICES ASSUME Inv, [Next]_vars PROVE Inv'
    OBVIOUS
  <2>0. \A effects \in EffectLists \cup QueuedLists, subjects \in SUBSET Subject :
            /\ effects \in Seq(Effect)
            /\ [subjects |-> subjects, effects |-> effects] \in Turn
    BY EffectListsAssumption DEF Turn
  <2>1. CASE DoRecordConfirmed
    BY <2>0, <2>1, RecordConfirmedSound DEF DoRecordConfirmed
  <2>2. CASE DoCreatePending
    BY <2>0, <2>2, CreatePendingSound DEF DoCreatePending
  <2>3. CASE DoObserveLaterEffects
    BY <2>0, <2>3, ObserveLaterSound DEF DoObserveLaterEffects
  <2>4. CASE DoObserveQueuedEffects
    BY <2>4, ObserveQueuedSound DEF DoObserveQueuedEffects
  <2>5. CASE DoConfirmPending
    BY <2>5, ConfirmPendingSound DEF DoConfirmPending
  <2>6. CASE DoDiscardPending
    BY <2>6, DiscardPendingSound DEF DoDiscardPending
  <2>7. CASE DoSetHistoryRetention
    <3>1. 0 .. MaxRetain \subseteq Nat
      BY BoundsAssumption
    <3> QED BY <2>7, <3>1, SetHistoryRetentionSound DEF DoSetHistoryRetention
  <2>8. CASE DoDestroy
    BY <2>8, ReleaseOnDestroySound DEF DoDestroy
  <2>9. CASE UNCHANGED vars
    BY <2>9 DEF vars
  <2> QED BY <2>1, <2>2, <2>3, <2>4, <2>5, <2>6, <2>7, <2>8, <2>9 DEF Next
<1> QED BY <1>1, <1>2, PTL DEF Spec

(* The type invariant, for every set of effects and subjects and every     *)
(* bound.                                                                  *)
THEOREM TypeCorrect == Spec => []TypeOK
<1>1. Sound(authority) /\ destroyed \in BOOLEAN => TypeOK
  BY DEF Sound, TypeOK
<1> QED BY <1>1, AuthorityIsSound, PTL

(* Whatever the order of openings, confirmations, realizations, rejections *)
(* and evictions, and across every reset of the clock, a confirmed turn    *)
(* that rollback of an older pending turn consults was stamped after that  *)
(* turn opened and not in the future.                                      *)
THEOREM ChronologyIsAlwaysShared == Spec => []ChronologyIsShared
<1>1. Sound(authority) => ChronologyIsShared
  BY DEF Sound, ChronologyIsShared
<1> QED BY <1>1, AuthorityIsSound, PTL

(* And no two of the stamps that one plan compares are equal, so the merge *)
(* of confirmed turns with realizations has exactly one outcome.           *)
THEOREM StampsAreAlwaysDistinct == Spec => []StampsAreDistinct
<1>1. Sound(authority) => StampsAreDistinct
  BY DEF Sound, StampsAreDistinct
<1> QED BY <1>1, AuthorityIsSound, PTL

(* A pending turn can always be answered for: no call of any method drops  *)
(* or restamps a younger confirmed turn while the older one stays pending. *)
THEOREM ObligationIsAlwaysKept == Spec => ObligationIsKept
<1>1. Sound(authority) /\ [Next]_vars => [KeepsObligations(authority, authority')]_vars
  <2> SUFFICES ASSUME Sound(authority), Next
               PROVE  KeepsObligations(authority, authority')
    OBVIOUS
  <2>0. \A effects \in EffectLists \cup QueuedLists, subjects \in SUBSET Subject :
            [subjects |-> subjects, effects |-> effects] \in Turn
    BY EffectListsAssumption DEF Turn
  <2>1. CASE DoRecordConfirmed
    BY <2>0, <2>1, RecordConfirmedKeeps DEF DoRecordConfirmed
  <2>2. CASE DoCreatePending
    <3>1. DOMAIN authority = Fields
      BY DEF Sound, Typed
    <3>a. PICK turn \in Turn : authority' = CreatePending(authority, turn)
      BY <2>0, <2>2 DEF DoCreatePending
    <3>2. /\ authority'.confirmedTurns = authority.confirmedTurns
          /\ authority'.confirmedAtSeq = authority.confirmedAtSeq
      BY <3>a, <3>1, CreatePendingFrame
    <3> QED BY <3>2 DEF KeepsObligations, Confirmed
  <2>3. CASE DoObserveLaterEffects
    <3>1. DOMAIN authority = Fields
      BY DEF Sound, Typed
    <3>2. PICK effects \in EffectLists : authority' = ObserveLaterEffects(authority, effects)
      BY <2>3 DEF DoObserveLaterEffects
    <3>3. CASE Pending(authority) = {} \/ effects = <<>>
      BY <3>2, <3>3 DEF ObserveLaterEffects, KeepsObligations, Confirmed
    <3>4. CASE Pending(authority) # {} /\ effects # <<>>
      BY <3>1, <3>2, <3>4, ObserveLaterFrame DEF KeepsObligations, Confirmed
    <3> QED BY <3>3, <3>4
  <2>4. CASE DoObserveQueuedEffects
    <3>1. DOMAIN authority = Fields
      BY DEF Sound, Typed
    <3>2. /\ authority'.confirmedTurns = authority.confirmedTurns
          /\ authority'.confirmedAtSeq = authority.confirmedAtSeq
      BY <2>4, <3>1, ObserveQueuedFrame DEF DoObserveQueuedEffects
    <3> QED BY <3>2 DEF KeepsObligations, Confirmed
  <2>5. CASE DoConfirmPending
    BY <2>5, ConfirmPendingKeeps DEF DoConfirmPending
  <2>6. CASE DoDiscardPending
    BY <2>6, DiscardPendingKeeps DEF DoDiscardPending
  <2>7. CASE DoSetHistoryRetention
    <3>1. 0 .. MaxRetain \subseteq Nat
      BY BoundsAssumption
    <3> QED BY <2>7, <3>1, SetHistoryRetentionKeeps DEF DoSetHistoryRetention
  <2>8. CASE DoDestroy
    BY <2>8, NothingPendingAfterDestroy DEF DoDestroy, KeepsObligations
  <2> QED BY <2>1, <2>2, <2>3, <2>4, <2>5, <2>6, <2>7, <2>8 DEF Next
<1> QED BY <1>1, AuthorityIsSound, PTL DEF Spec, ObligationIsKept

-----------------------------------------------------------------------------
(* Retention follows responsibility: what each method leaves behind.       *)

(* Every map entry kept for a turn belongs to a pending turn.              *)
Housekept(a) ==
    /\ DOMAIN a.queuedEvidence \subseteq Pending(a)
    /\ DOMAIN a.claims = {p \in Pending(a) : a.pendingTurns[p].subjects # {}}

(* With no pending turn no realization is remembered.                      *)
Quiet(a) == Pending(a) = {} => a.dependencyLedger = <<>>

(* The confirmed turns no pending turn may have to answer for.             *)
Unobliged(a) == {c \in Confirmed(a) : \A p \in Pending(a) : c < p}
Bounded(a) == Cardinality(Unobliged(a)) <= a.historyRetain

Tidy(a) == Typed(a) /\ Housekept(a) /\ Quiet(a)

LEMMA IdsAreFinite ==
    ASSUME NEW a, Typed(a)
    PROVE  /\ Pending(a) \subseteq Int /\ Confirmed(a) \subseteq Int
           /\ IsFiniteSet(Confirmed(a)) /\ IsFiniteSet(Unobliged(a))
<1>1. Pending(a) \cup Confirmed(a) \subseteq 1 .. a.nextTurnId - 1 /\ a.nextTurnId \in Nat
  BY DEF Typed
<1>2. 1 \in Int /\ a.nextTurnId - 1 \in Int /\ Confirmed(a) \subseteq 1 .. a.nextTurnId - 1
  BY <1>1
<1>3. IsFiniteSet(Confirmed(a))
  BY <1>2, BoundedIsFinite
<1>4. Unobliged(a) \subseteq Confirmed(a)
  BY DEF Unobliged
<1> QED BY <1>1, <1>3, <1>4, FS_Subset

(* Releasing keeps the housekeeping, and leaves no more than was asked for: *)
(* of the records no pending turn needs, only the newest few survive.      *)
LEMMA ReleaseConfirmedTidy ==
    ASSUME NEW a, Tidy(a)
    PROVE  LET b == ReleaseConfirmedBeyondObligation(a) IN Tidy(b) /\ Bounded(b)
<1> DEFINE b == ReleaseConfirmedBeyondObligation(a)
           keep == RequiredOrRecent(a)
<1>1. DOMAIN a = Fields /\ a.historyRetain \in Nat
  BY DEF Tidy, Typed
<1>2. /\ b.pendingTurns = a.pendingTurns /\ b.claims = a.claims
      /\ b.queuedEvidence = a.queuedEvidence
      /\ b.dependencyLedger = a.dependencyLedger
      /\ b.historyRetain = a.historyRetain
      /\ b.confirmedTurns = Keep(a.confirmedTurns, keep)
  BY <1>1, ReleaseConfirmedFrame
<1>3. Pending(b) = Pending(a) /\ Confirmed(b) = Confirmed(a) \cap keep
  BY <1>2 DEF Pending, Confirmed, Keep
<1>4. Typed(b)
  BY ReleaseConfirmedTyped DEF Tidy
<1> HIDE DEF b
<1>5. Housekept(b) /\ Quiet(b)
  BY <1>2, <1>3 DEF Tidy, Housekept, Quiet
<1>6. Bounded(b)
  <2>1. /\ Pending(a) \subseteq Int /\ Confirmed(a) \subseteq Int
        /\ IsFiniteSet(Confirmed(a))
    BY IdsAreFinite DEF Tidy
  <2>2. \A c \in Unobliged(b) : /\ c \in Confirmed(a)
                                /\ Cardinality({d \in Confirmed(a) : d > c}) < a.historyRetain
    <3> SUFFICES ASSUME NEW c \in Unobliged(b)
                 PROVE  /\ c \in Confirmed(a)
                        /\ Cardinality({d \in Confirmed(a) : d > c}) < a.historyRetain
      OBVIOUS
    <3>1. c \in Confirmed(a) /\ c \in RequiredOrRecent(a) /\ \A p \in Pending(a) : c < p
      BY <1>3 DEF Unobliged
    <3>2. \A p \in Pending(a) : ~(c > p)
      BY <2>1, <3>1
    <3> QED BY <3>1, <3>2 DEF RequiredOrRecent
  <2>3. PICK T : T = Unobliged(b)
    OBVIOUS
  <2>4. T \subseteq Confirmed(a)
    BY <2>2, <2>3
  <2>5. Cardinality(T) <= a.historyRetain
    BY <1>1, <2>1, <2>2, <2>3, <2>4, NewestAreFew
  <2> QED BY <1>2, <2>3, <2>5 DEF Bounded
<1> QED BY <1>4, <1>5, <1>6 DEF Tidy, b

(* Forgetting a turn takes all its entries with it.                        *)
LEMMA ForgetPendingHousekept ==
    ASSUME NEW a, Typed(a), Housekept(a), NEW id
    PROVE  LET b == ForgetPending(a, id)
           IN  Typed(b) /\ Housekept(b) /\ Pending(b) = Pending(a) \ {id}
<1> DEFINE b == ForgetPending(a, id)
<1>1. DOMAIN a = Fields
  BY DEF Typed
<1>2. Typed(b) /\ Pending(b) = Pending(a) \ {id}
  BY ForgetPendingTyped
<1>3. /\ b.pendingTurns = DeleteKey(a.pendingTurns, id)
      /\ b.claims = DeleteKey(a.claims, id)
      /\ b.queuedEvidence = DeleteKey(a.queuedEvidence, id)
  BY <1>1, ForgetPendingFrame
<1>4. /\ DOMAIN b.claims = DOMAIN a.claims \ {id}
      /\ DOMAIN b.queuedEvidence = DOMAIN a.queuedEvidence \ {id}
      /\ \A p \in Pending(b) : b.pendingTurns[p] = a.pendingTurns[p]
  BY <1>2, <1>3 DEF DeleteKey, Pending
<1> HIDE DEF b
<1>5. Housekept(b)
  BY <1>2, <1>4 DEF Housekept
<1> QED BY <1>2, <1>5 DEF b

(* Whatever was forgotten, the ledger is emptied once nothing is pending.  *)
LEMMA LedgerQuietTidy ==
    ASSUME NEW a, Typed(a), Housekept(a)
    PROVE  Tidy(ReleaseLedgerIfQuiet(a))
<1> DEFINE b == ReleaseLedgerIfQuiet(a)
<1>1. DOMAIN a = Fields
  BY DEF Typed
<1>2. Typed(b) /\ Pending(b) = Pending(a)
  BY LedgerQuietTyped
<1>3. /\ b.pendingTurns = a.pendingTurns /\ b.claims = a.claims
      /\ b.queuedEvidence = a.queuedEvidence
      /\ Pending(a) = {} => b.dependencyLedger = <<>>
  BY <1>1, LedgerQuietFrame
<1> HIDE DEF b
<1>4. Housekept(b) /\ Quiet(b)
  BY <1>2, <1>3 DEF Housekept, Quiet
<1> QED BY <1>2, <1>4 DEF Tidy, b

LEMMA InsertConfirmedHousekept ==
    ASSUME NEW a, Typed(a), Housekept(a), NEW id \in (1 .. a.nextTurnId - 1) \ Pending(a),
           NEW turn \in Turn
    PROVE  LET b == InsertConfirmed(a, id, turn)
           IN  Typed(b) /\ Housekept(b) /\ (Quiet(a) => Quiet(b))
<1> DEFINE b == InsertConfirmed(a, id, turn)
<1>1. DOMAIN a = Fields
  BY DEF Typed
<1>2. Typed(b)
  BY InsertConfirmedTyped
<1>3. /\ b.pendingTurns = a.pendingTurns /\ b.claims = a.claims
      /\ b.queuedEvidence = a.queuedEvidence
      /\ b.dependencyLedger = a.dependencyLedger
  BY <1>1, InsertConfirmedFrame
<1> HIDE DEF b
<1>4. Housekept(b) /\ (Quiet(a) => Quiet(b))
  BY <1>3 DEF Housekept, Quiet, Pending
<1> QED BY <1>2, <1>4 DEF b

LEMMA RecordConfirmedRetains ==
    ASSUME NEW a, Tidy(a), NEW turn \in Turn
    PROVE  LET b == RecordConfirmed(a, turn) IN Tidy(b) /\ Bounded(b)
<1> DEFINE b == [a EXCEPT !.nextTurnId = @ + 1]
           c == InsertConfirmed(b, a.nextTurnId, turn)
<1>1. DOMAIN a = Fields
  BY DEF Tidy, Typed
<1>2. /\ DOMAIN b = Fields /\ b.nextTurnId = a.nextTurnId + 1
      /\ b.pendingTurns = a.pendingTurns /\ b.confirmedTurns = a.confirmedTurns
      /\ b.confirmedAtSeq = a.confirmedAtSeq
      /\ b.pendingOpenedAtSeq = a.pendingOpenedAtSeq /\ b.claims = a.claims
      /\ b.queuedEvidence = a.queuedEvidence
      /\ b.dependencyLedger = a.dependencyLedger /\ b.ledgerSeq = a.ledgerSeq
      /\ b.historyRetain = a.historyRetain
      /\ b.evictedConfirmed = a.evictedConfirmed
  BY <1>1, FieldsAre DEF FieldNames
<1>3. /\ a.nextTurnId \in Nat \ {0}
      /\ Pending(a) \cup Confirmed(a) \subseteq 1 .. a.nextTurnId - 1
      /\ Pending(b) = Pending(a) /\ Confirmed(b) = Confirmed(a)
  BY <1>2 DEF Tidy, Typed, Pending, Confirmed
<1>4. /\ b.nextTurnId \in Nat \ {0}
      /\ Pending(b) \cup Confirmed(b) \subseteq 1 .. b.nextTurnId - 1
      /\ a.nextTurnId \in (1 .. b.nextTurnId - 1) \ Pending(b)
  BY <1>2, <1>3
<1> HIDE DEF b
<1>5. Typed(b) /\ Housekept(b) /\ Quiet(b)
  BY <1>2, <1>3, <1>4 DEF Tidy, Typed, Housekept, Quiet
<1>6. Tidy(c)
  BY <1>4, <1>5, InsertConfirmedHousekept DEF Tidy
<1> HIDE DEF c
<1>7. LET d == ReleaseConfirmedBeyondObligation(c) IN Tidy(d) /\ Bounded(d)
  BY <1>6, ReleaseConfirmedTidy
<1> QED BY <1>7 DEF RecordConfirmed, b, c

(* Opening a turn claims its subjects, and obliges no confirmed turn that  *)
(* was not obliged before: every one of them is older.                     *)
LEMMA CreatePendingRetains ==
    ASSUME NEW a, Tidy(a), Bounded(a), NEW turn \in Turn
    PROVE  LET b == CreatePending(a, turn) IN Tidy(b) /\ Bounded(b)
<1> DEFINE b == CreatePending(a, turn)
<1>1. DOMAIN a = Fields /\ Typed(a) /\ a.historyRetain \in Nat
  BY DEF Tidy, Typed
<1>2. /\ Typed(b) /\ Pending(b) = Pending(a) \cup {a.nextTurnId}
  BY <1>1, CreatePendingTyped
<1>3. /\ b.pendingTurns = SetKey(a.pendingTurns, a.nextTurnId, turn)
      /\ b.confirmedTurns = a.confirmedTurns
      /\ b.historyRetain = a.historyRetain
  BY <1>1, CreatePendingFrame
<1>4. /\ b.claims = IF turn.subjects = {} THEN a.claims
                    ELSE SetKey(a.claims, a.nextTurnId, turn.subjects)
      /\ b.queuedEvidence = a.queuedEvidence
  BY <1>1, CreatePendingClaims
<1>5. a.nextTurnId \notin Pending(a)
  BY <1>1 DEF Typed
<1>6. /\ b.pendingTurns[a.nextTurnId] = turn
      /\ \A p \in Pending(a) : b.pendingTurns[p] = a.pendingTurns[p]
      /\ DOMAIN b.claims = DOMAIN a.claims \cup
                              (IF turn.subjects = {} THEN {} ELSE {a.nextTurnId})
  <2> HIDE DEF b
  <2>1. DOMAIN SetKey(a.claims, a.nextTurnId, turn.subjects) = DOMAIN a.claims \cup {a.nextTurnId}
    BY DEF SetKey
  <2> QED BY <1>3, <1>4, <1>5, <2>1 DEF SetKey, Pending
<1> HIDE DEF b
<1>7. Housekept(b)
  <2>1. DOMAIN b.queuedEvidence \subseteq Pending(b)
    BY <1>2, <1>4 DEF Tidy, Housekept
  <2>2. DOMAIN a.claims = {p \in Pending(a) : a.pendingTurns[p].subjects # {}}
    BY DEF Tidy, Housekept
  <2>3. ASSUME NEW p
        PROVE  p \in DOMAIN b.claims <=> p \in Pending(b) /\ b.pendingTurns[p].subjects # {}
    <3>1. CASE p = a.nextTurnId
      BY <3>1, <1>2, <1>5, <1>6, <2>2
    <3>2. CASE p # a.nextTurnId
      BY <3>2, <1>2, <1>6, <2>2
    <3> QED BY <3>1, <3>2
  <2> QED BY <2>1, <2>3 DEF Housekept
<1>8. Quiet(b)
  BY <1>2 DEF Quiet
<1>9. Unobliged(b) \subseteq Unobliged(a)
  BY <1>2, <1>3 DEF Unobliged, Confirmed
<1>10. Bounded(b)
  <2>1. IsFiniteSet(Unobliged(a)) /\ IsFiniteSet(Unobliged(b))
    BY <1>1, <1>2, IdsAreFinite
  <2>2. /\ Cardinality(Unobliged(b)) <= Cardinality(Unobliged(a))
        /\ Cardinality(Unobliged(a)) \in Nat /\ Cardinality(Unobliged(b)) \in Nat
    BY <1>9, <2>1, FS_Subset, FS_CardinalityType
  <2> QED BY <1>1, <1>3, <2>2 DEF Bounded
<1> QED BY <1>2, <1>7, <1>8, <1>10 DEF Tidy, b

LEMMA ObserveLaterRetains ==
    ASSUME NEW a, Tidy(a), Bounded(a), NEW effects \in Seq(Effect)
    PROVE  LET b == ObserveLaterEffects(a, effects) IN Tidy(b) /\ Bounded(b)
<1> DEFINE b == ObserveLaterEffects(a, effects)
<1>1. DOMAIN a = Fields /\ Typed(b)
  BY ObserveLaterTyped DEF Tidy, Typed
<1>2. CASE Pending(a) = {} \/ effects = <<>>
  BY <1>2 DEF ObserveLaterEffects
<1>3. CASE Pending(a) # {} /\ effects # <<>>
  <2>1. /\ b.pendingTurns = a.pendingTurns /\ b.confirmedTurns = a.confirmedTurns
        /\ b.claims = a.claims /\ b.queuedEvidence = a.queuedEvidence
        /\ b.historyRetain = a.historyRetain
    BY <1>1, <1>3, ObserveLaterFrame
  <2> HIDE DEF b
  <2>2. Pending(b) = Pending(a) /\ Unobliged(b) = Unobliged(a)
    BY <2>1 DEF Pending, Confirmed, Unobliged
  <2>3. Housekept(b) /\ Quiet(b) /\ Bounded(b)
    BY <1>3, <2>1, <2>2 DEF Tidy, Housekept, Quiet, Bounded
  <2> QED BY <1>1, <2>3 DEF Tidy, b
<1> QED BY <1>2, <1>3

LEMMA ObserveQueuedRetains ==
    ASSUME NEW a, Tidy(a), Bounded(a), NEW id, NEW queued
    PROVE  LET b == ObserveQueuedEffects(a, id, queued) IN Tidy(b) /\ Bounded(b)
<1> DEFINE b == ObserveQueuedEffects(a, id, queued)
<1>1. DOMAIN a = Fields /\ Typed(b)
  BY ObserveQueuedTyped DEF Tidy, Typed
<1>2. /\ b.pendingTurns = a.pendingTurns /\ b.confirmedTurns = a.confirmedTurns
      /\ b.claims = a.claims /\ b.dependencyLedger = a.dependencyLedger
      /\ DOMAIN b.queuedEvidence \subseteq DOMAIN a.queuedEvidence \cup Pending(a)
      /\ b.historyRetain = a.historyRetain
  BY <1>1, ObserveQueuedFrame
<1> HIDE DEF b
<1>3. Pending(b) = Pending(a) /\ Unobliged(b) = Unobliged(a)
  BY <1>2 DEF Pending, Confirmed, Unobliged
<1>4. Housekept(b) /\ Quiet(b) /\ Bounded(b)
  BY <1>2, <1>3 DEF Tidy, Housekept, Quiet, Bounded
<1> QED BY <1>1, <1>4 DEF Tidy, b

LEMMA ConfirmPendingRetains ==
    ASSUME NEW a, Tidy(a), NEW id \in Pending(a)
    PROVE  LET b == ConfirmPending(a, id) IN Tidy(b) /\ Bounded(b)
<1> DEFINE b == ForgetPending(a, id)
           turn == a.pendingTurns[id]
           c == InsertConfirmed(b, id, turn)
           d == ReleaseLedgerIfQuiet(c)
<1>0. DOMAIN a = Fields /\ Typed(a) /\ Housekept(a)
  BY DEF Tidy, Typed
<1>1. /\ Typed(b) /\ Housekept(b) /\ Pending(b) = Pending(a) \ {id}
      /\ b.nextTurnId = a.nextTurnId
  BY <1>0, ForgetPendingHousekept, ForgetPendingFrame
<1>2. id \in (1 .. b.nextTurnId - 1) \ Pending(b) /\ turn \in Turn
  BY <1>0, <1>1 DEF Typed, IsMap, Pending
<1> HIDE DEF b, turn
<1>3. Typed(c) /\ Housekept(c)
  BY <1>1, <1>2, InsertConfirmedHousekept
<1> HIDE DEF c
<1>4. Tidy(d)
  BY <1>3, LedgerQuietTidy
<1> HIDE DEF d
<1>5. LET e == ReleaseConfirmedBeyondObligation(d) IN Tidy(e) /\ Bounded(e)
  BY <1>4, ReleaseConfirmedTidy
<1> QED BY <1>5 DEF ConfirmPending, b, turn, c, d

LEMMA DiscardPendingRetains ==
    ASSUME NEW a, Tidy(a), NEW id \in Pending(a)
    PROVE  LET b == DiscardPending(a, id) IN Tidy(b) /\ Bounded(b)
<1> DEFINE b == ForgetPending(a, id)
           c == ReleaseLedgerIfQuiet(b)
<1>1. Typed(b) /\ Housekept(b)
  BY ForgetPendingHousekept DEF Tidy
<1> HIDE DEF b
<1>2. Tidy(c)
  BY <1>1, LedgerQuietTidy
<1> HIDE DEF c
<1>3. LET d == ReleaseConfirmedBeyondObligation(c) IN Tidy(d) /\ Bounded(d)
  BY <1>2, ReleaseConfirmedTidy
<1> QED BY <1>3 DEF DiscardPending, b, c

(* Asking for less history lets go of the rest at once.                    *)
LEMMA SetHistoryRetentionRetains ==
    ASSUME NEW a, Tidy(a), NEW retain \in Nat
    PROVE  LET b == SetHistoryRetention(a, retain) IN Tidy(b) /\ Bounded(b)
<1> DEFINE b == [a EXCEPT !.historyRetain = retain]
<1>1. DOMAIN a = Fields
  BY DEF Tidy, Typed
<1>2. /\ DOMAIN b = Fields /\ b.nextTurnId = a.nextTurnId
      /\ b.pendingTurns = a.pendingTurns /\ b.confirmedTurns = a.confirmedTurns
      /\ b.confirmedAtSeq = a.confirmedAtSeq
      /\ b.pendingOpenedAtSeq = a.pendingOpenedAtSeq /\ b.claims = a.claims
      /\ b.queuedEvidence = a.queuedEvidence
      /\ b.dependencyLedger = a.dependencyLedger /\ b.ledgerSeq = a.ledgerSeq
      /\ b.historyRetain = retain
      /\ b.evictedConfirmed = a.evictedConfirmed
  BY <1>1, FieldsAre DEF FieldNames
<1>3. Pending(b) = Pending(a) /\ Confirmed(b) = Confirmed(a)
  BY <1>2 DEF Pending, Confirmed
<1> HIDE DEF b
<1>4. Tidy(b)
  BY <1>2, <1>3 DEF Tidy, Typed, Housekept, Quiet
<1>5. LET c == ReleaseConfirmedBeyondObligation(b) IN Tidy(c) /\ Bounded(c)
  BY <1>4, ReleaseConfirmedTidy
<1> QED BY <1>5 DEF SetHistoryRetention, b

LEMMA ReleaseOnDestroyRetains ==
    ASSUME NEW a, Tidy(a)
    PROVE  LET b == ReleaseOnDestroy(a) IN Tidy(b) /\ Bounded(b)
<1> DEFINE b == [a EXCEPT !.confirmedTurns = EmptyMap, !.confirmedAtSeq = EmptyMap]
           c == [b EXCEPT !.pendingTurns = EmptyMap, !.pendingOpenedAtSeq = EmptyMap,
                          !.queuedEvidence = EmptyMap, !.claims = EmptyMap]
           d == ReleaseLedgerIfQuiet(c)
<1>1. DOMAIN a = Fields
  BY DEF Tidy, Typed
<1>2. /\ DOMAIN b = Fields /\ b.nextTurnId = a.nextTurnId
      /\ b.pendingTurns = a.pendingTurns /\ b.confirmedTurns = EmptyMap
      /\ b.confirmedAtSeq = EmptyMap
      /\ b.pendingOpenedAtSeq = a.pendingOpenedAtSeq /\ b.claims = a.claims
      /\ b.queuedEvidence = a.queuedEvidence
      /\ b.dependencyLedger = a.dependencyLedger /\ b.ledgerSeq = a.ledgerSeq
      /\ b.historyRetain = a.historyRetain
      /\ b.evictedConfirmed = a.evictedConfirmed
  BY <1>1, FieldsAre DEF FieldNames
<1>3. /\ DOMAIN EmptyMap = {} /\ IsMap(EmptyMap, Turn) /\ IsMap(EmptyMap, Nat)
      /\ IsMap(EmptyMap, SUBSET Subject)
  BY EmptyMapIsMap
<1>4. Pending(b) = Pending(a) /\ Confirmed(b) = {}
  BY <1>2, <1>3 DEF Pending, Confirmed
<1> HIDE DEF b
<1>5. Tidy(b)
  BY <1>2, <1>3, <1>4 DEF Tidy, Typed, Housekept, Quiet
<1>6. ASSUME NEW z, Confirmed(z) = {}, z.historyRetain \in Nat
      PROVE  Bounded(z)
  <2>1. Unobliged(z) = {}
    BY <1>6 DEF Unobliged
  <2> QED BY <1>6, <2>1, FS_EmptySet DEF Bounded
<1>7. /\ DOMAIN c = Fields /\ c.nextTurnId = b.nextTurnId
      /\ c.pendingTurns = EmptyMap /\ c.confirmedTurns = EmptyMap
      /\ c.confirmedAtSeq = EmptyMap
      /\ c.pendingOpenedAtSeq = EmptyMap /\ c.claims = EmptyMap
      /\ c.queuedEvidence = EmptyMap
      /\ c.dependencyLedger = b.dependencyLedger /\ c.ledgerSeq = b.ledgerSeq
      /\ c.historyRetain = b.historyRetain
      /\ c.evictedConfirmed = b.evictedConfirmed
  BY <1>2, FieldsAre DEF FieldNames
<1>8. Pending(c) = {} /\ Confirmed(c) = {}
  BY <1>3, <1>7 DEF Pending, Confirmed
<1> HIDE DEF c
<1>9. Typed(c) /\ Housekept(c)
  BY <1>3, <1>5, <1>7, <1>8 DEF Tidy, Typed, Housekept
<1>10. Tidy(d) /\ Confirmed(d) = {}
  BY <1>8, <1>9, LedgerQuietTidy, LedgerQuietTyped
<1> HIDE DEF d
<1>11. Bounded(b) /\ Bounded(d)
  <2>1. b.historyRetain \in Nat /\ d.historyRetain \in Nat
    BY <1>5, <1>10 DEF Tidy, Typed
  <2> QED BY <1>4, <1>6, <1>10, <2>1
<1>12. Tidy(IF Pending(a) = {} THEN b ELSE d) /\ Bounded(IF Pending(a) = {} THEN b ELSE d)
  BY <1>5, <1>10, <1>11
<1> QED BY <1>12 DEF ReleaseOnDestroy, b, c, d

(* The inductive invariant behind retention, over every method.            *)
LEMMA TidyAlways == Spec => [](Tidy(authority) /\ Bounded(authority))
<1> DEFINE Inv == Tidy(authority) /\ Bounded(authority)
<1>1. Init => Inv
  <2> SUFFICES ASSUME Init PROVE Inv
    OBVIOUS
  <2>1. authority = InitialAuthority /\ Typed(authority)
    BY InitialTyped DEF Init
  <2>2. /\ Pending(authority) = {} /\ Confirmed(authority) = {}
        /\ DOMAIN authority.claims = {} /\ DOMAIN authority.queuedEvidence = {}
        /\ authority.dependencyLedger = <<>> /\ authority.historyRetain = 0
    BY <2>1 DEF InitialAuthority, EmptyMap, Pending, Confirmed
  <2>3. Unobliged(authority) = {}
    BY <2>2 DEF Unobliged
  <2>4. Bounded(authority)
    BY <2>2, <2>3, FS_EmptySet DEF Bounded
  <2> QED BY <2>1, <2>2, <2>4 DEF Tidy, Housekept, Quiet
<1>2. Inv /\ [Next]_vars => Inv'
  <2> SUFFICES ASSUME Inv, [Next]_vars PROVE Inv'
    OBVIOUS
  <2>0. \A effects \in EffectLists \cup QueuedLists, subjects \in SUBSET Subject :
            /\ effects \in Seq(Effect)
            /\ [subjects |-> subjects, effects |-> effects] \in Turn
    BY EffectListsAssumption DEF Turn
  <2>1. CASE DoRecordConfirmed
    BY <2>0, <2>1, RecordConfirmedRetains DEF DoRecordConfirmed
  <2>2. CASE DoCreatePending
    BY <2>0, <2>2, CreatePendingRetains DEF DoCreatePending
  <2>3. CASE DoObserveLaterEffects
    BY <2>0, <2>3, ObserveLaterRetains DEF DoObserveLaterEffects
  <2>4. CASE DoObserveQueuedEffects
    BY <2>4, ObserveQueuedRetains DEF DoObserveQueuedEffects
  <2>5. CASE DoConfirmPending
    BY <2>5, ConfirmPendingRetains DEF DoConfirmPending
  <2>6. CASE DoDiscardPending
    BY <2>6, DiscardPendingRetains DEF DoDiscardPending
  <2>7. CASE DoSetHistoryRetention
    <3>1. 0 .. MaxRetain \subseteq Nat
      BY BoundsAssumption
    <3> QED BY <2>7, <3>1, SetHistoryRetentionRetains DEF DoSetHistoryRetention
  <2>8. CASE DoDestroy
    BY <2>8, ReleaseOnDestroyRetains DEF DoDestroy
  <2>9. CASE UNCHANGED vars
    BY <2>9 DEF vars
  <2> QED BY <2>1, <2>2, <2>3, <2>4, <2>5, <2>6, <2>7, <2>8, <2>9 DEF Next
<1> QED BY <1>1, <1>2, PTL DEF Spec

(* Once a turn settles nothing of it stays, in the object's maps, in the   *)
(* claims it took or in the ledger, and of the confirmed turns that no     *)
(* pending one can ask about only as many survive as history asks for:     *)
(* for any number of turns, whatever the retention and however it is reset. *)
THEOREM RetentionAlwaysFollowsResponsibility == Spec => []RetentionFollowsResponsibility
<1>1. Tidy(authority) /\ Bounded(authority) => RetentionFollowsResponsibility
  BY DEF Tidy, Housekept, Quiet, Bounded, Unobliged, RetentionFollowsResponsibility
<1> QED BY <1>1, TidyAlways, PTL

-----------------------------------------------------------------------------
(* Truncation is reported: the flag is raised by whatever drops a record,  *)
(* and never lowered, so a method made of several steps reports it too.    *)

Reports(a, b) ==
    a.evictedConfirmed \/ ~(Confirmed(a) \subseteq Confirmed(b)) => b.evictedConfirmed

LEMMA ReportsIsTransitive ==
    ASSUME NEW a, NEW b, NEW c, Reports(a, b), Reports(b, c)
    PROVE  Reports(a, c)
BY DEF Reports

LEMMA ReleaseConfirmedReports ==
    ASSUME NEW a, DOMAIN a = Fields
    PROVE  /\ Reports(a, ReleaseConfirmedBeyondObligation(a))
           /\ DOMAIN ReleaseConfirmedBeyondObligation(a) = Fields
<1> DEFINE b == ReleaseConfirmedBeyondObligation(a)
           keep == RequiredOrRecent(a)
<1>1. /\ DOMAIN b = Fields
      /\ b.confirmedTurns = Keep(a.confirmedTurns, keep)
      /\ b.evictedConfirmed = (a.evictedConfirmed \/ keep # Confirmed(a))
  BY ReleaseConfirmedFrame
<1>2. Confirmed(b) = Confirmed(a) \cap keep
  BY <1>1 DEF Confirmed, Keep
<1> HIDE DEF b, keep
<1>3. Reports(a, b)
  BY <1>1, <1>2, Zenon DEF Reports
<1> QED BY <1>1, <1>3 DEF b

LEMMA InsertConfirmedReports ==
    ASSUME NEW a, DOMAIN a = Fields, NEW id, NEW turn
    PROVE  /\ Reports(a, InsertConfirmed(a, id, turn))
           /\ DOMAIN InsertConfirmed(a, id, turn) = Fields
<1> DEFINE b == InsertConfirmed(a, id, turn)
<1>1. /\ DOMAIN b = Fields
      /\ b.confirmedTurns = SetKey(a.confirmedTurns, id, turn)
      /\ b.evictedConfirmed = a.evictedConfirmed
  BY InsertConfirmedFrame
<1>2. Confirmed(a) \subseteq Confirmed(b)
  BY <1>1 DEF Confirmed, SetKey
<1> HIDE DEF b
<1>3. Reports(a, b)
  BY <1>1, <1>2, Zenon DEF Reports
<1> QED BY <1>1, <1>3 DEF b

LEMMA ForgetPendingReports ==
    ASSUME NEW a, DOMAIN a = Fields, NEW id
    PROVE  /\ Reports(a, ForgetPending(a, id))
           /\ DOMAIN ForgetPending(a, id) = Fields
<1> DEFINE b == ForgetPending(a, id)
<1>1. /\ DOMAIN b = Fields /\ b.confirmedTurns = a.confirmedTurns
      /\ b.evictedConfirmed = a.evictedConfirmed
  BY ForgetPendingFrame
<1> HIDE DEF b
<1>2. Reports(a, b)
  BY <1>1, Zenon DEF Reports, Confirmed
<1> QED BY <1>1, <1>2 DEF b

LEMMA LedgerQuietReports ==
    ASSUME NEW a, DOMAIN a = Fields
    PROVE  /\ Reports(a, ReleaseLedgerIfQuiet(a))
           /\ DOMAIN ReleaseLedgerIfQuiet(a) = Fields
<1> DEFINE b == ReleaseLedgerIfQuiet(a)
<1>1. /\ DOMAIN b = Fields /\ b.confirmedTurns = a.confirmedTurns
      /\ b.evictedConfirmed = a.evictedConfirmed
  BY LedgerQuietFrame
<1> HIDE DEF b
<1>2. Reports(a, b)
  BY <1>1, Zenon DEF Reports, Confirmed
<1> QED BY <1>1, <1>2 DEF b

LEMMA RecordConfirmedReports ==
    ASSUME NEW a, DOMAIN a = Fields, NEW turn
    PROVE  Reports(a, RecordConfirmed(a, turn))
<1> DEFINE b == [a EXCEPT !.nextTurnId = @ + 1]
           c == InsertConfirmed(b, a.nextTurnId, turn)
           d == ReleaseConfirmedBeyondObligation(c)
<1>1. /\ DOMAIN b = Fields /\ b.confirmedTurns = a.confirmedTurns
      /\ b.evictedConfirmed = a.evictedConfirmed
  BY FieldsAre DEF FieldNames
<1> HIDE DEF b
<1>2. Reports(a, b)
  BY <1>1, Zenon DEF Reports, Confirmed
<1>3. Reports(b, c) /\ DOMAIN c = Fields
  BY <1>1, InsertConfirmedReports
<1> HIDE DEF c
<1>4. Reports(c, d)
  BY <1>3, ReleaseConfirmedReports
<1> HIDE DEF d
<1>5. Reports(a, c)
  BY <1>2, <1>3, ReportsIsTransitive
<1>6. Reports(a, d)
  BY <1>4, <1>5, ReportsIsTransitive
<1> QED BY <1>6 DEF RecordConfirmed, b, c, d

LEMMA ConfirmPendingReports ==
    ASSUME NEW a, DOMAIN a = Fields, NEW id \in Pending(a)
    PROVE  Reports(a, ConfirmPending(a, id))
<1> DEFINE b == ForgetPending(a, id)
           c == InsertConfirmed(b, id, a.pendingTurns[id])
           d == ReleaseLedgerIfQuiet(c)
           e == ReleaseConfirmedBeyondObligation(d)
<1>1. Reports(a, b) /\ DOMAIN b = Fields
  BY ForgetPendingReports
<1> HIDE DEF b
<1>2. Reports(b, c) /\ DOMAIN c = Fields
  BY <1>1, InsertConfirmedReports
<1> HIDE DEF c
<1>3. Reports(c, d) /\ DOMAIN d = Fields
  BY <1>2, LedgerQuietReports
<1> HIDE DEF d
<1>4. Reports(d, e)
  BY <1>3, ReleaseConfirmedReports
<1> HIDE DEF e
<1>5. Reports(a, c)
  BY <1>1, <1>2, ReportsIsTransitive
<1>6. Reports(a, d)
  BY <1>3, <1>5, ReportsIsTransitive
<1>7. Reports(a, e)
  BY <1>4, <1>6, ReportsIsTransitive
<1> QED BY <1>7 DEF ConfirmPending, b, c, d, e

LEMMA DiscardPendingReports ==
    ASSUME NEW a, DOMAIN a = Fields, NEW id \in Pending(a)
    PROVE  Reports(a, DiscardPending(a, id))
<1> DEFINE b == ForgetPending(a, id)
           c == ReleaseLedgerIfQuiet(b)
           d == ReleaseConfirmedBeyondObligation(c)
<1>1. Reports(a, b) /\ DOMAIN b = Fields
  BY ForgetPendingReports
<1> HIDE DEF b
<1>2. Reports(b, c) /\ DOMAIN c = Fields
  BY <1>1, LedgerQuietReports
<1> HIDE DEF c
<1>3. Reports(c, d)
  BY <1>2, ReleaseConfirmedReports
<1> HIDE DEF d
<1>4. Reports(a, c)
  BY <1>1, <1>2, ReportsIsTransitive
<1>5. Reports(a, d)
  BY <1>3, <1>4, ReportsIsTransitive
<1> QED BY <1>5 DEF DiscardPending, b, c, d

LEMMA SetHistoryRetentionReports ==
    ASSUME NEW a, DOMAIN a = Fields, NEW retain
    PROVE  Reports(a, SetHistoryRetention(a, retain))
<1> DEFINE b == [a EXCEPT !.historyRetain = retain]
           c == ReleaseConfirmedBeyondObligation(b)
<1>1. /\ DOMAIN b = Fields /\ b.confirmedTurns = a.confirmedTurns
      /\ b.evictedConfirmed = a.evictedConfirmed
  BY FieldsAre DEF FieldNames
<1> HIDE DEF b
<1>2. Reports(a, b)
  BY <1>1, Zenon DEF Reports, Confirmed
<1>3. Reports(b, c)
  BY <1>1, ReleaseConfirmedReports
<1> HIDE DEF c
<1>4. Reports(a, c)
  BY <1>2, <1>3, ReportsIsTransitive
<1> QED BY <1>4 DEF SetHistoryRetention, b, c

(* A reader of history is told: on a live tree a confirmed record is only  *)
(* ever dropped by a call that leaves the truncation flag raised, whatever *)
(* is pending and whatever retention was configured before or is now.      *)
THEOREM TruncationIsAlwaysReported == Spec => TruncationIsReported
<1> DEFINE Told == ~destroyed' => Reports(authority, authority')
<1>1. Sound(authority) /\ [Next]_vars => [Told]_vars
  <2> SUFFICES ASSUME Sound(authority), Next PROVE Told
    OBVIOUS
  <2>0. DOMAIN authority = Fields
    BY DEF Sound, Typed
  <2>1. CASE DoRecordConfirmed
    BY <2>0, <2>1, RecordConfirmedReports DEF DoRecordConfirmed
  <2>2. CASE DoCreatePending
    <3>1. PICK turn : authority' = CreatePending(authority, turn)
      BY <2>2 DEF DoCreatePending
    <3>2. /\ authority'.confirmedTurns = authority.confirmedTurns
          /\ authority'.evictedConfirmed = authority.evictedConfirmed
      BY <2>0, <3>1, CreatePendingFrame
    <3> QED BY <3>2, Zenon DEF Reports, Confirmed
  <2>3. CASE DoObserveLaterEffects
    <3>1. PICK effects : authority' = ObserveLaterEffects(authority, effects)
      BY <2>3 DEF DoObserveLaterEffects
    <3>2. CASE Pending(authority) = {} \/ effects = <<>>
      BY <3>1, <3>2, Zenon DEF ObserveLaterEffects, Reports
    <3>3. CASE Pending(authority) # {} /\ effects # <<>>
      <4>1. /\ authority'.confirmedTurns = authority.confirmedTurns
            /\ authority'.evictedConfirmed = authority.evictedConfirmed
        BY <2>0, <3>1, <3>3, ObserveLaterFrame
      <4> QED BY <4>1, Zenon DEF Reports, Confirmed
    <3> QED BY <3>2, <3>3
  <2>4. CASE DoObserveQueuedEffects
    <3>1. PICK id, queued : authority' = ObserveQueuedEffects(authority, id, queued)
      BY <2>4 DEF DoObserveQueuedEffects
    <3>2. /\ authority'.confirmedTurns = authority.confirmedTurns
          /\ authority'.evictedConfirmed = authority.evictedConfirmed
      BY <2>0, <3>1, ObserveQueuedFrame
    <3> QED BY <3>2, Zenon DEF Reports, Confirmed
  <2>5. CASE DoConfirmPending
    BY <2>0, <2>5, ConfirmPendingReports DEF DoConfirmPending
  <2>6. CASE DoDiscardPending
    BY <2>0, <2>6, DiscardPendingReports DEF DoDiscardPending
  <2>7. CASE DoSetHistoryRetention
    BY <2>0, <2>7, SetHistoryRetentionReports DEF DoSetHistoryRetention
  <2>8. CASE DoDestroy
    BY <2>8 DEF DoDestroy
  <2> QED BY <2>1, <2>2, <2>3, <2>4, <2>5, <2>6, <2>7, <2>8 DEF Next
<1>2. Told => (~destroyed' /\ ~(Confirmed(authority) \subseteq Confirmed(authority)')
                  => authority'.evictedConfirmed)
  BY Zenon DEF Reports, Confirmed
<1> QED BY <1>1, <1>2, AuthorityIsSound, PTL DEF Spec, TruncationIsReported

-----------------------------------------------------------------------------
(* The evidence of a pending turn, as the ledger reassembles it.  What each *)
(* method does to it is stated once, and is what the abstract ledger does. *)

(* The lists the two stores contribute on one tick, before they are joined. *)
AuthoredLists(a, id, tick) ==
    [c \in 1 .. a.nextTurnId - 1 |->
        IF c \in Confirmed(a) /\ c > id /\ a.confirmedAtSeq[c] = tick
        THEN a.confirmedTurns[c].effects ELSE <<>>]

ObservedLists(a, id, tick) ==
    [i \in DOMAIN a.dependencyLedger |->
        IF a.dependencyLedger[i].seq = tick /\ tick > a.pendingOpenedAtSeq[id]
        THEN <<a.dependencyLedger[i].effect>> ELSE <<>>]

TickLists(a, id) ==
    [tick \in 1 .. a.ledgerSeq |-> AuthoredAt(a, id, tick) \o ObservedAt(a, id, tick)]

LEMMA ListsAreFlattened ==
    ASSUME NEW a, Typed(a), NEW id, NEW tick
    PROVE  /\ AuthoredAt(a, id, tick)
                = FlattenSeq(FirstOf(AuthoredLists(a, id, tick), a.nextTurnId - 1))
           /\ ObservedAt(a, id, tick)
                = FlattenSeq(FirstOf(ObservedLists(a, id, tick), Len(a.dependencyLedger)))
           /\ LaterEffects(a, id) = FlattenSeq(FirstOf(TickLists(a, id), a.ledgerSeq))
<1>1. AuthoredLists(a, id, tick) = FirstOf(AuthoredLists(a, id, tick), a.nextTurnId - 1)
  BY DEF AuthoredLists, FirstOf
<1>2. ObservedLists(a, id, tick) = FirstOf(ObservedLists(a, id, tick), Len(a.dependencyLedger))
  <2>1. DOMAIN a.dependencyLedger = 1 .. Len(a.dependencyLedger)
    BY DEF Typed
  <2> QED BY <2>1 DEF ObservedLists, FirstOf
<1>3. TickLists(a, id) = FirstOf(TickLists(a, id), a.ledgerSeq)
  BY DEF TickLists, FirstOf
<1> QED BY <1>1, <1>2, <1>3 DEF AuthoredAt, ObservedAt, LaterEffects, AuthoredLists, ObservedLists, TickLists

LEMMA LedgerEntriesAreTyped ==
    ASSUME NEW a, Typed(a)
    PROVE  /\ Len(a.dependencyLedger) \in Nat
           /\ DOMAIN a.dependencyLedger = 1 .. Len(a.dependencyLedger)
           /\ \A i \in 1 .. Len(a.dependencyLedger) :
                /\ a.dependencyLedger[i].seq \in Nat
                /\ a.dependencyLedger[i].effect \in Effect
<1> DEFINE ledger == a.dependencyLedger
<1>1. ledger \in Seq(LedgerEntry)
  BY DEF Typed
<1> HIDE DEF ledger
<1>2. Len(ledger) \in Nat /\ DOMAIN ledger = 1 .. Len(ledger)
  BY <1>1
<1>3. \A i \in 1 .. Len(ledger) : ledger[i] \in LedgerEntry
  BY <1>1
<1> QED BY <1>2, <1>3 DEF LedgerEntry, ledger

LEMMA ListsAreTyped ==
    ASSUME NEW a, Typed(a), NEW id, NEW tick
    PROVE  /\ \A c \in 1 .. a.nextTurnId - 1 : AuthoredLists(a, id, tick)[c] \in Seq(Effect)
           /\ \A i \in 1 .. Len(a.dependencyLedger) : ObservedLists(a, id, tick)[i] \in Seq(Effect)
           /\ AuthoredAt(a, id, tick) \in Seq(Effect)
           /\ ObservedAt(a, id, tick) \in Seq(Effect)
<1>1. <<>> \in Seq(Effect)
  OBVIOUS
<1>2. \A c \in 1 .. a.nextTurnId - 1 : AuthoredLists(a, id, tick)[c] \in Seq(Effect)
  <2>1. \A c \in Confirmed(a) : a.confirmedTurns[c].effects \in Seq(Effect)
    BY DEF Typed, IsMap, Confirmed, Turn
  <2> QED BY <1>1, <2>1 DEF AuthoredLists
<1>3. \A i \in 1 .. Len(a.dependencyLedger) : ObservedLists(a, id, tick)[i] \in Seq(Effect)
  <2>1. \A e \in Effect : <<e>> \in Seq(Effect)
    OBVIOUS
  <2> QED BY <1>1, <2>1, LedgerEntriesAreTyped DEF ObservedLists
<1>4. a.nextTurnId - 1 \in Nat /\ Len(a.dependencyLedger) \in Nat
  BY LedgerEntriesAreTyped DEF Typed
<1>5. FlattenSeq(FirstOf(AuthoredLists(a, id, tick), a.nextTurnId - 1)) \in Seq(Effect)
  BY <1>2, <1>4, FlattenType
<1>6. FlattenSeq(FirstOf(ObservedLists(a, id, tick), Len(a.dependencyLedger))) \in Seq(Effect)
  BY <1>3, <1>4, FlattenType
<1> QED BY <1>2, <1>3, <1>5, <1>6, ListsAreFlattened

LEMMA TicksAreTyped ==
    ASSUME NEW a, Typed(a), NEW id
    PROVE  /\ \A tick \in 1 .. a.ledgerSeq : TickLists(a, id)[tick] \in Seq(Effect)
           /\ LaterEffects(a, id) \in Seq(Effect)
<1>1. ASSUME NEW tick \in 1 .. a.ledgerSeq PROVE TickLists(a, id)[tick] \in Seq(Effect)
  <2>1. PICK x \in Seq(Effect) : x = AuthoredAt(a, id, tick)
    BY ListsAreTyped
  <2>2. PICK y \in Seq(Effect) : y = ObservedAt(a, id, tick)
    BY ListsAreTyped
  <2>3. x \o y \in Seq(Effect)
    OBVIOUS
  <2> QED BY <2>1, <2>2, <2>3 DEF TickLists
<1>2. a.ledgerSeq \in Nat
  BY DEF Typed
<1>3. FlattenSeq(FirstOf(TickLists(a, id), a.ledgerSeq)) \in Seq(Effect)
  BY <1>1, <1>2, FlattenType
<1> QED BY <1>1, <1>3, ListsAreFlattened

(* A stretch of ids that confirms nothing younger than the turn on this    *)
(* tick contributes nothing, and so does a ledger with no entry of it.     *)
LEMMA NothingAuthored ==
    ASSUME NEW a, Typed(a), NEW id, NEW tick,
           \A c \in Confirmed(a) : c > id => a.confirmedAtSeq[c] # tick
    PROVE  AuthoredAt(a, id, tick) = <<>>
<1> DEFINE lists == AuthoredLists(a, id, tick)
<1>1. PICK n \in Nat : n = a.nextTurnId - 1
  BY DEF Typed
<1>2. \A c \in 0 + 1 .. n : lists[c] = <<>>
  BY <1>1 DEF AuthoredLists
<1>3. 0 \in 0 .. n /\ \A c \in 1 .. 0 : lists[c] \in Seq(Effect)
  OBVIOUS
<1> HIDE DEF lists
<1>4. FlattenSeq(FirstOf(lists, n)) = FlattenSeq(FirstOf(lists, 0))
  BY <1>2, <1>3, FlattenEmptyStretch
<1> QED BY <1>1, <1>4, FlattenNothing, ListsAreFlattened DEF lists

LEMMA NothingObserved ==
    ASSUME NEW a, Typed(a), NEW id, NEW tick,
           \A i \in DOMAIN a.dependencyLedger :
                a.dependencyLedger[i].seq = tick => ~(tick > a.pendingOpenedAtSeq[id])
    PROVE  ObservedAt(a, id, tick) = <<>>
<1> DEFINE lists == ObservedLists(a, id, tick)
<1>1. PICK n \in Nat : n = Len(a.dependencyLedger)
  BY LedgerEntriesAreTyped
<1>2. \A c \in 0 + 1 .. n : lists[c] = <<>>
  BY <1>1, LedgerEntriesAreTyped DEF ObservedLists
<1>3. 0 \in 0 .. n /\ \A c \in 1 .. 0 : lists[c] \in Seq(Effect)
  OBVIOUS
<1> HIDE DEF lists
<1>4. FlattenSeq(FirstOf(lists, n)) = FlattenSeq(FirstOf(lists, 0))
  BY <1>2, <1>3, FlattenEmptyStretch
<1> QED BY <1>1, <1>4, FlattenNothing, ListsAreFlattened DEF lists

(* The tick that comes next adds what lands on it at the end.              *)
LEMMA NextTick ==
    ASSUME NEW a, Typed(a), NEW b, Typed(b), NEW id, b.ledgerSeq = a.ledgerSeq + 1,
           \A tick \in 1 .. a.ledgerSeq : /\ AuthoredAt(b, id, tick) = AuthoredAt(a, id, tick)
                                          /\ ObservedAt(b, id, tick) = ObservedAt(a, id, tick)
    PROVE  LaterEffects(b, id) =
               LaterEffects(a, id) \o (AuthoredAt(b, id, a.ledgerSeq + 1)
                                           \o ObservedAt(b, id, a.ledgerSeq + 1))
<1>1. PICK n \in Nat : n = a.ledgerSeq
  BY DEF Typed
<1>2. n + 1 \in 1 .. b.ledgerSeq
  BY <1>1
<1>3. TickLists(b, id)[n + 1] = AuthoredAt(b, id, n + 1) \o ObservedAt(b, id, n + 1)
  BY <1>2 DEF TickLists
<1>4. TickLists(b, id)[n + 1] \in Seq(Effect)
  BY <1>2, TicksAreTyped
<1>5. FlattenSeq(FirstOf(TickLists(b, id), n + 1))
          = FlattenSeq(FirstOf(TickLists(b, id), n)) \o TickLists(b, id)[n + 1]
  BY <1>4, FlattenNext
<1>6. FirstOf(TickLists(b, id), n) = FirstOf(TickLists(a, id), n)
  <2>1. \A tick \in 1 .. n : TickLists(b, id)[tick] = TickLists(a, id)[tick]
    BY <1>1 DEF TickLists
  <2> QED BY <2>1 DEF FirstOf
<1>7. /\ LaterEffects(b, id) = FlattenSeq(FirstOf(TickLists(b, id), n + 1))
      /\ LaterEffects(a, id) = FlattenSeq(FirstOf(TickLists(a, id), n))
  BY <1>1, ListsAreFlattened
<1> QED BY <1>1, <1>3, <1>5, <1>6, <1>7

(* Confirmed records the plan of a turn does not read may come and go.     *)
SamePlan(a, b, id) ==
    /\ b.ledgerSeq = a.ledgerSeq
    /\ b.dependencyLedger = a.dependencyLedger
    /\ b.pendingOpenedAtSeq[id] = a.pendingOpenedAtSeq[id]
    /\ b.nextTurnId = a.nextTurnId
    /\ \A c \in 1 .. a.nextTurnId - 1 : c > id =>
            /\ c \in Confirmed(b) <=> c \in Confirmed(a)
            /\ c \in Confirmed(a) => /\ b.confirmedTurns[c] = a.confirmedTurns[c]
                                     /\ b.confirmedAtSeq[c] = a.confirmedAtSeq[c]

LEMMA SamePlanSameEvidence ==
    ASSUME NEW a, NEW b, NEW id, SamePlan(a, b, id)
    PROVE  LaterEffects(b, id) = LaterEffects(a, id)
<1>1. ASSUME NEW tick
      PROVE  AuthoredAt(b, id, tick) = AuthoredAt(a, id, tick)
  <2>1. \A c \in 1 .. a.nextTurnId - 1 :
            (IF c \in Confirmed(b) /\ c > id /\ b.confirmedAtSeq[c] = tick
             THEN b.confirmedTurns[c].effects ELSE <<>>)
          = (IF c \in Confirmed(a) /\ c > id /\ a.confirmedAtSeq[c] = tick
             THEN a.confirmedTurns[c].effects ELSE <<>>)
    BY DEF SamePlan
  <2>2. AuthoredLists(b, id, tick) = AuthoredLists(a, id, tick)
    BY <2>1 DEF AuthoredLists, SamePlan
  <2> QED BY <2>2 DEF AuthoredAt, AuthoredLists
<1>2. ASSUME NEW tick
      PROVE  ObservedAt(b, id, tick) = ObservedAt(a, id, tick)
  <2>1. ObservedLists(b, id, tick) = ObservedLists(a, id, tick)
    BY DEF ObservedLists, SamePlan
  <2> QED BY <2>1 DEF ObservedAt, ObservedLists
<1>3. TickLists(b, id) = TickLists(a, id)
  BY <1>1, <1>2 DEF TickLists, SamePlan
<1> QED BY <1>3 DEF LaterEffects, TickLists

(* An id handed out but not confirmed, or confirmed at another tick, adds  *)
(* nothing to what a tick holds.                                           *)
LEMMA AuthoredSame ==
    ASSUME NEW a, Typed(a), NEW b, Typed(b), NEW id, NEW tick,
           b.nextTurnId \in {a.nextTurnId, a.nextTurnId + 1},
           \A c \in 1 .. b.nextTurnId - 1 :
               AuthoredLists(b, id, tick)[c] =
                   IF c < a.nextTurnId THEN AuthoredLists(a, id, tick)[c] ELSE <<>>
    PROVE  AuthoredAt(b, id, tick) = AuthoredAt(a, id, tick)
<1>1. PICK n \in Nat : n = a.nextTurnId - 1
  BY DEF Typed
<1>2. PICK m \in Nat : m = b.nextTurnId - 1
  BY DEF Typed
<1>3. m \in {n, n + 1} /\ a.nextTurnId = n + 1 /\ a.nextTurnId \in Nat
  BY <1>1, <1>2 DEF Typed
<1> DEFINE after == AuthoredLists(b, id, tick)
           before == AuthoredLists(a, id, tick)
<1>4. \A c \in 1 .. m : after[c] = IF c < n + 1 THEN before[c] ELSE <<>>
  BY <1>2, <1>3
<1>5. \A c \in 1 .. m : after[c] \in Seq(Effect)
  BY <1>2, ListsAreTyped
<1>6. /\ AuthoredAt(b, id, tick) = FlattenSeq(FirstOf(after, m))
      /\ AuthoredAt(a, id, tick) = FlattenSeq(FirstOf(before, n))
  BY <1>1, <1>2, ListsAreFlattened
<1> HIDE DEF after, before
<1>7. n \in 0 .. m /\ \A c \in n + 1 .. m : after[c] = <<>>
  BY <1>3, <1>4
<1>8. \A c \in 1 .. n : after[c] \in Seq(Effect)
  BY <1>3, <1>5
<1>9. FlattenSeq(FirstOf(after, m)) = FlattenSeq(FirstOf(after, n))
  BY <1>7, <1>8, FlattenEmptyStretch
<1>10. FirstOf(after, n) = FirstOf(before, n)
  <2>1. \A c \in 1 .. n : after[c] = before[c]
    BY <1>3, <1>4
  <2> QED BY <2>1 DEF FirstOf
<1> QED BY <1>6, <1>9, <1>10

(* Handing out an id changes no plan.                                      *)
LEMMA NumberedSameEvidence ==
    ASSUME NEW a, Typed(a), NEW b, Typed(b), NEW id,
           b.nextTurnId = a.nextTurnId + 1, b.ledgerSeq = a.ledgerSeq,
           b.confirmedTurns = a.confirmedTurns, b.confirmedAtSeq = a.confirmedAtSeq,
           b.dependencyLedger = a.dependencyLedger,
           b.pendingOpenedAtSeq[id] = a.pendingOpenedAtSeq[id]
    PROVE  LaterEffects(b, id) = LaterEffects(a, id)
<1>1. ASSUME NEW tick
      PROVE  AuthoredAt(b, id, tick) = AuthoredAt(a, id, tick)
  <2>1. Confirmed(b) = Confirmed(a) /\ a.nextTurnId \notin Confirmed(a)
    BY DEF Typed, Confirmed
  <2>2. \A c \in 1 .. b.nextTurnId - 1 :
            /\ c \in 1 .. a.nextTurnId - 1 <=> c < a.nextTurnId
            /\ ~(c < a.nextTurnId) => c = a.nextTurnId
    BY DEF Typed
  <2>3. \A c \in 1 .. b.nextTurnId - 1 :
            AuthoredLists(b, id, tick)[c] =
                IF c < a.nextTurnId THEN AuthoredLists(a, id, tick)[c] ELSE <<>>
    BY <2>1, <2>2 DEF AuthoredLists
  <2> QED BY <2>3, AuthoredSame
<1>2. ASSUME NEW tick
      PROVE  ObservedAt(b, id, tick) = ObservedAt(a, id, tick)
  <2>1. ObservedLists(b, id, tick) = ObservedLists(a, id, tick)
    BY DEF ObservedLists
  <2> QED BY <2>1 DEF ObservedAt, ObservedLists
<1>3. TickLists(b, id) = TickLists(a, id)
  BY <1>1, <1>2 DEF TickLists
<1> QED BY <1>3 DEF LaterEffects, TickLists

(* A turn confirmed now is, for the turns older than it, what landed last.  *)
LEMMA InsertConfirmedEvidence ==
    ASSUME NEW a, Sound(a), NEW p \in Pending(a),
           NEW id \in (1 .. a.nextTurnId - 1) \ Pending(a), id \notin Confirmed(a),
           NEW turn \in Turn
    PROVE  LaterEffects(InsertConfirmed(a, id, turn), p) =
               LaterEffects(a, p) \o (IF id > p THEN turn.effects ELSE <<>>)
<1> DEFINE b == InsertConfirmed(a, id, turn)
           now == a.ledgerSeq + 1
<1>0. DOMAIN a = Fields /\ Typed(a) /\ a.ledgerSeq \in Nat
  BY DEF Sound, Typed
<1>1. /\ b.ledgerSeq = now
      /\ b.confirmedAtSeq = SetKey(a.confirmedAtSeq, id, now)
      /\ b.confirmedTurns = SetKey(a.confirmedTurns, id, turn)
      /\ b.nextTurnId = a.nextTurnId /\ b.pendingTurns = a.pendingTurns
      /\ b.pendingOpenedAtSeq = a.pendingOpenedAtSeq
      /\ b.dependencyLedger = a.dependencyLedger
  BY <1>0, InsertConfirmedFrame
<1>2. Typed(b)
  BY <1>0, InsertConfirmedTyped
<1>3. DOMAIN a.confirmedAtSeq = Confirmed(a)
  BY DEF Sound, Chronological
<1>4. /\ Confirmed(b) = Confirmed(a) \cup {id}
      /\ b.confirmedAtSeq[id] = now /\ b.confirmedTurns[id] = turn
      /\ \A c \in Confirmed(a) : /\ b.confirmedAtSeq[c] = a.confirmedAtSeq[c]
                                 /\ b.confirmedTurns[c] = a.confirmedTurns[c]
  BY <1>1, <1>3 DEF SetKey, Confirmed
<1>5. \A c \in Confirmed(a) : c > p => a.confirmedAtSeq[c] # now
  <2>1. \A c \in Confirmed(a) : a.confirmedAtSeq[c] \in Nat
    BY <1>0, <1>3 DEF Typed, IsMap
  <2>2. \A c \in Confirmed(a) : c > p => a.confirmedAtSeq[c] <= a.ledgerSeq
    BY DEF Sound, Chronological
  <2> QED BY <1>0, <2>1, <2>2
<1>6. \A i \in DOMAIN a.dependencyLedger : a.dependencyLedger[i].seq # now
  <2>1. \A i \in DOMAIN a.dependencyLedger : a.dependencyLedger[i].seq <= a.ledgerSeq
    BY DEF Sound, Chronological
  <2> QED BY <1>0, <2>1, LedgerEntries
<1>7. turn.effects \in Seq(Effect)
  BY DEF Turn
<1> HIDE DEF b
<1>8. ASSUME NEW tick \in 1 .. a.ledgerSeq
      PROVE  /\ AuthoredAt(b, p, tick) = AuthoredAt(a, p, tick)
             /\ ObservedAt(b, p, tick) = ObservedAt(a, p, tick)
  <2>1. tick # now
    BY <1>0
  <2>2. \A c \in 1 .. b.nextTurnId - 1 : c < a.nextTurnId
    BY <1>0, <1>1 DEF Typed
  <2>3. \A c \in 1 .. b.nextTurnId - 1 :
            AuthoredLists(b, p, tick)[c] = AuthoredLists(a, p, tick)[c]
    BY <1>1, <1>4, <2>1 DEF AuthoredLists
  <2>4. AuthoredAt(b, p, tick) = AuthoredAt(a, p, tick)
    BY <1>0, <1>1, <1>2, <2>2, <2>3, AuthoredSame
  <2>5. ObservedLists(b, p, tick) = ObservedLists(a, p, tick)
    BY <1>1 DEF ObservedLists
  <2> QED BY <2>4, <2>5 DEF ObservedAt, ObservedLists
<1>9. AuthoredAt(b, p, now) = IF id > p THEN turn.effects ELSE <<>>
  <2>1. CASE id > p
    <3> DEFINE lists == AuthoredLists(b, p, now)
    <3>1. PICK n \in Nat : n = b.nextTurnId - 1
      BY <1>2 DEF Typed
    <3>2. id \in 1 .. n /\ lists[id] = turn.effects
      BY <1>1, <1>4, <2>1, <3>1 DEF AuthoredLists
    <3>3. \A c \in 1 .. n : c # id => lists[c] = <<>>
      BY <1>4, <1>5, <3>1 DEF AuthoredLists
    <3>4. AuthoredAt(b, p, now) = FlattenSeq(FirstOf(lists, n))
      BY <1>2, <3>1, ListsAreFlattened
    <3> HIDE DEF lists
    <3>5. FlattenSeq(FirstOf(lists, n)) = lists[id]
      BY <1>7, <3>2, <3>3, FlattenSingle
    <3> QED BY <2>1, <3>2, <3>4, <3>5
  <2>2. CASE ~(id > p)
    <3>1. \A c \in Confirmed(b) : c > p => b.confirmedAtSeq[c] # now
      BY <1>4, <1>5, <2>2
    <3> QED BY <1>2, <2>2, <3>1, NothingAuthored
  <2> QED BY <2>1, <2>2
<1>10. ObservedAt(b, p, now) = <<>>
  BY <1>1, <1>2, <1>6, NothingObserved
<1>11. LaterEffects(b, p) = LaterEffects(a, p) \o (AuthoredAt(b, p, now) \o ObservedAt(b, p, now))
  BY <1>0, <1>1, <1>2, <1>8, NextTick
<1>12. PICK x \in Seq(Effect) : x = IF id > p THEN turn.effects ELSE <<>>
  <2>1. <<>> \in Seq(Effect)
    OBVIOUS
  <2> QED BY <1>7, <2>1
<1>13. x \o <<>> = x
  OBVIOUS
<1> QED BY <1>9, <1>10, <1>11, <1>12, <1>13 DEF b

(* What is observed now is what landed last, for every pending turn.       *)
LEMMA ObserveLaterEvidence ==
    ASSUME NEW a, Sound(a), NEW p \in Pending(a), NEW effects \in Seq(Effect)
    PROVE  LaterEffects(ObserveLaterEffects(a, effects), p) = LaterEffects(a, p) \o effects
<1> DEFINE b == ObserveLaterEffects(a, effects)
           now == a.ledgerSeq + 1
<1>0. /\ DOMAIN a = Fields /\ Typed(a) /\ a.ledgerSeq \in Nat
      /\ LaterEffects(a, p) \in Seq(Effect)
  BY TicksAreTyped DEF Sound, Typed
<1>1. CASE effects = <<>>
  <2>1. PICK x \in Seq(Effect) : x = LaterEffects(a, p)
    BY <1>0
  <2>2. x \o <<>> = x
    OBVIOUS
  <2> QED BY <1>1, <2>1, <2>2 DEF ObserveLaterEffects
<1>2. CASE effects # <<>>
  <2> DEFINE entries == [i \in DOMAIN effects |-> [seq |-> now, effect |-> effects[i]]]
  <2>1. /\ b.ledgerSeq = now
        /\ b.dependencyLedger = a.dependencyLedger \o entries
        /\ b.nextTurnId = a.nextTurnId /\ b.pendingTurns = a.pendingTurns
        /\ b.confirmedTurns = a.confirmedTurns
        /\ b.confirmedAtSeq = a.confirmedAtSeq
        /\ b.pendingOpenedAtSeq = a.pendingOpenedAtSeq
    BY <1>0, <1>2, ObserveLaterFrame
  <2>2. Typed(b)
    BY <1>0, ObserveLaterTyped
  <2>3. PICK m \in Nat : m = Len(a.dependencyLedger)
    BY <1>0, LedgerEntriesAreTyped
  <2>4. PICK k \in Nat : k = Len(effects)
    OBVIOUS
  <2>5. entries \in Seq(LedgerEntry) /\ Len(entries) = k
    <3>1. \A e \in Effect : [seq |-> now, effect |-> e] \in LedgerEntry
      BY <1>0 DEF LedgerEntry
    <3>2. DOMAIN effects = 1 .. k /\ \A i \in 1 .. k : effects[i] \in Effect
      BY <2>4
    <3>3. DOMAIN entries = 1 .. k /\ \A i \in 1 .. k : entries[i] \in LedgerEntry
      BY <3>1, <3>2
    <3>4. entries = [i \in 1 .. k |-> entries[i]]
      BY <3>2
    <3> HIDE DEF entries
    <3> QED BY <3>3, <3>4
  <2>6. \A i \in 1 .. k : entries[i].seq = now /\ entries[i].effect = effects[i]
    BY <2>4
  <2>7. /\ Len(b.dependencyLedger) = m + k
        /\ \A i \in 1 .. m : b.dependencyLedger[i] = a.dependencyLedger[i]
        /\ \A i \in 1 .. k : b.dependencyLedger[m + i] = entries[i]
    <3>1. PICK ledger \in Seq(LedgerEntry) : ledger = a.dependencyLedger
      BY <1>0 DEF Typed
    <3>2. PICK more \in Seq(LedgerEntry) : more = entries
      BY <2>5
    <3> HIDE DEF entries
    <3>3. Len(ledger) = m /\ Len(more) = k
      BY <2>3, <2>5, <3>1, <3>2
    <3>4. /\ Len(ledger \o more) = m + k
          /\ \A i \in 1 .. m : (ledger \o more)[i] = ledger[i]
          /\ \A i \in 1 .. k : (ledger \o more)[m + i] = more[i]
      BY <3>3
    <3> QED BY <2>1, <3>1, <3>2, <3>4
  <2> HIDE DEF b, entries
  <2>8. /\ DOMAIN a.dependencyLedger = 1 .. m
        /\ DOMAIN b.dependencyLedger = 1 .. m + k
    BY <1>0, <2>2, <2>3, <2>7, LedgerEntriesAreTyped
  <2>9. \A i \in 1 .. m : a.dependencyLedger[i].seq # now
    <3>1. \A i \in DOMAIN a.dependencyLedger : a.dependencyLedger[i].seq <= a.ledgerSeq
      BY DEF Sound, Chronological
    <3>2. \A i \in DOMAIN a.dependencyLedger : a.dependencyLedger[i].seq \in Nat
      BY <1>0, LedgerEntries
    <3>3. \A i \in 1 .. m : /\ a.dependencyLedger[i].seq \in Nat
                             /\ a.dependencyLedger[i].seq <= a.ledgerSeq
      BY <2>8, <3>1, <3>2
    <3>4. a.ledgerSeq \in Nat
      BY <1>0
    <3> HIDE DEF now
    <3>5. now = a.ledgerSeq + 1
      BY DEF now
    <3> QED BY <3>3, <3>4, <3>5
  <2>10. \A c \in Confirmed(a) : c > p => a.confirmedAtSeq[c] # now
    <3>1. \A c \in Confirmed(a) : a.confirmedAtSeq[c] \in Nat
      BY <1>0 DEF Typed, IsMap, Sound, Chronological
    <3>2. \A c \in Confirmed(a) : c > p => a.confirmedAtSeq[c] <= a.ledgerSeq
      BY DEF Sound, Chronological
    <3> QED BY <1>0, <3>1, <3>2
  <2>11. now > a.pendingOpenedAtSeq[p]
    <3>1. a.pendingOpenedAtSeq[p] \in Nat /\ a.pendingOpenedAtSeq[p] <= a.ledgerSeq
      BY <1>0 DEF Typed, IsMap, Sound, Chronological
    <3> QED BY <1>0, <3>1
  <2>12. ASSUME NEW tick \in 1 .. a.ledgerSeq
         PROVE  /\ AuthoredAt(b, p, tick) = AuthoredAt(a, p, tick)
                /\ ObservedAt(b, p, tick) = ObservedAt(a, p, tick)
    <3>1. AuthoredLists(b, p, tick) = AuthoredLists(a, p, tick)
      BY <2>1 DEF AuthoredLists, Confirmed
    <3>2. AuthoredAt(b, p, tick) = AuthoredAt(a, p, tick)
      BY <3>1 DEF AuthoredAt, AuthoredLists
    <3> DEFINE after == ObservedLists(b, p, tick)
               before == ObservedLists(a, p, tick)
    <3>3. tick # now
      BY <1>0
    <3>4. \A i \in 1 .. m : after[i] = before[i] /\ after[i] \in Seq(Effect)
      <4>1. \A i \in 1 .. m : i \in 1 .. m + k
        OBVIOUS
      <4>2. \A i \in 1 .. m : after[i] = before[i]
        BY <2>1, <2>7, <2>8, <4>1 DEF ObservedLists
      <4>3. \A i \in 1 .. m : before[i] \in Seq(Effect)
        BY <1>0, <2>3, ListsAreTyped
      <4> QED BY <4>2, <4>3
    <3>5. \A i \in m + 1 .. m + k : after[i] = <<>>
      <4>1. \A i \in m + 1 .. m + k : i - m \in 1 .. k /\ i = m + (i - m) /\ i \in 1 .. m + k
        OBVIOUS
      <4>2. ASSUME NEW i \in m + 1 .. m + k PROVE b.dependencyLedger[i].seq = now
        <5>1. PICK j \in 1 .. k : i = m + j
          BY <4>1
        <5> QED BY <2>6, <2>7, <5>1
      <4> QED BY <2>8, <3>3, <4>1, <4>2 DEF ObservedLists
    <3>6. /\ ObservedAt(b, p, tick) = FlattenSeq(FirstOf(after, m + k))
          /\ ObservedAt(a, p, tick) = FlattenSeq(FirstOf(before, m))
      BY <1>0, <2>2, <2>3, <2>7, ListsAreFlattened
    <3> HIDE DEF after, before
    <3>7. m + k \in Nat /\ m \in 0 .. m + k
      OBVIOUS
    <3>8. FlattenSeq(FirstOf(after, m + k)) = FlattenSeq(FirstOf(after, m))
      BY <3>4, <3>5, <3>7, FlattenEmptyStretch
    <3>9. FirstOf(after, m) = FirstOf(before, m)
      BY <3>4 DEF FirstOf
    <3> QED BY <3>2, <3>6, <3>8, <3>9
  <2>13. AuthoredAt(b, p, now) = <<>>
    BY <2>1, <2>2, <2>10, NothingAuthored DEF Confirmed
  <2>14. ObservedAt(b, p, now) = effects
    <3> DEFINE lists == ObservedLists(b, p, now)
    <3>1. \A i \in 1 .. m : lists[i] = <<>>
      <4>1. \A i \in 1 .. m : i \in 1 .. m + k
        OBVIOUS
      <4> QED BY <2>7, <2>8, <2>9, <4>1 DEF ObservedLists
    <3>2. \A i \in 1 .. Len(effects) : lists[m + i] = <<effects[i]>>
      <4>1. \A i \in 1 .. k : m + i \in 1 .. m + k
        OBVIOUS
      <4> QED BY <2>1, <2>4, <2>6, <2>7, <2>8, <2>11, <4>1 DEF ObservedLists
    <3>3. ObservedAt(b, p, now) = FlattenSeq(FirstOf(lists, m + Len(effects)))
      BY <2>2, <2>4, <2>7, ListsAreFlattened
    <3> HIDE DEF lists
    <3>4. FlattenSeq(FirstOf(lists, m + Len(effects))) = effects
      BY <3>1, <3>2, FlattenOnes
    <3> QED BY <3>3, <3>4
  <2>15. LaterEffects(b, p)
            = LaterEffects(a, p) \o (AuthoredAt(b, p, now) \o ObservedAt(b, p, now))
    BY <1>0, <2>1, <2>2, <2>12, NextTick
  <2>16. <<>> \o effects = effects
    OBVIOUS
  <2> QED BY <2>13, <2>14, <2>15, <2>16 DEF b
<1> QED BY <1>1, <1>2

(* A turn just opened has nothing later than itself.                       *)
LEMMA NewTurnHasNoEvidence ==
    ASSUME NEW a, Typed(a), NEW p,
           \A c \in Confirmed(a) : ~(c > p),
           a.pendingOpenedAtSeq[p] = a.ledgerSeq
    PROVE  LaterEffects(a, p) = <<>>
<1>1. PICK n \in Nat : n = a.ledgerSeq
  BY DEF Typed
<1>2. ASSUME NEW tick \in 1 .. n
      PROVE  TickLists(a, p)[tick] = <<>>
  <2>1. ~(tick > a.pendingOpenedAtSeq[p])
    BY <1>1
  <2>2. AuthoredAt(a, p, tick) = <<>>
    BY NothingAuthored
  <2>3. ObservedAt(a, p, tick) = <<>>
    BY <2>1, NothingObserved
  <2>4. <<>> \o <<>> = <<>>
    OBVIOUS
  <2> QED BY <1>1, <2>2, <2>3, <2>4 DEF TickLists
<1> DEFINE lists == TickLists(a, p)
<1>3. 0 \in 0 .. n /\ (\A i \in 1 .. 0 : lists[i] \in Seq(Effect)) /\ 0 + 1 = 1
  OBVIOUS
<1>4. LaterEffects(a, p) = FlattenSeq(FirstOf(lists, n))
  BY <1>1, ListsAreFlattened
<1>5. \A i \in 0 + 1 .. n : lists[i] = <<>>
  BY <1>2
<1> HIDE DEF lists
<1>6. FlattenSeq(FirstOf(lists, n)) = FlattenSeq(FirstOf(lists, 0))
  BY <1>3, <1>5, FlattenEmptyStretch
<1> QED BY <1>4, <1>6, FlattenNothing

-----------------------------------------------------------------------------
(* The ledger implements the abstract one, step by step                    *)

(* The confirmed records a plan reads survive: no plan changes.            *)
LEMMA KeptSamePlan ==
    ASSUME NEW a, Sound(a), NEW b, Sound(b), NEW p \in Pending(a), p \in Pending(b),
           KeepsObligations(a, b), Confirmed(b) \subseteq Confirmed(a),
           b.ledgerSeq = a.ledgerSeq, b.dependencyLedger = a.dependencyLedger,
           b.pendingOpenedAtSeq[p] = a.pendingOpenedAtSeq[p],
           b.nextTurnId = a.nextTurnId
    PROVE  LaterEffects(b, p) = LaterEffects(a, p)
<1>1. SamePlan(a, b, p)
  BY DEF SamePlan, KeepsObligations
<1> QED BY <1>1, SamePlanSameEvidence

LEMMA ReleaseConfirmedEvidence ==
    ASSUME NEW a, Sound(a), NEW p \in Pending(a)
    PROVE  LaterEffects(ReleaseConfirmedBeyondObligation(a), p) = LaterEffects(a, p)
<1> DEFINE b == ReleaseConfirmedBeyondObligation(a)
<1>1. DOMAIN a = Fields
  BY DEF Sound, Typed
<1>2. /\ b.nextTurnId = a.nextTurnId /\ b.ledgerSeq = a.ledgerSeq
      /\ b.dependencyLedger = a.dependencyLedger
      /\ b.pendingOpenedAtSeq = a.pendingOpenedAtSeq
      /\ b.confirmedTurns = Keep(a.confirmedTurns, RequiredOrRecent(a))
  BY <1>1, ReleaseConfirmedFrame
<1>3. Confirmed(b) \subseteq Confirmed(a)
  BY <1>2 DEF Confirmed, Keep
<1>4. Sound(b) /\ KeepsObligations(a, b) /\ Pending(b) = Pending(a)
  BY ReleaseConfirmedSound, ReleaseConfirmedKeeps
<1> HIDE DEF b
<1>5. LaterEffects(b, p) = LaterEffects(a, p)
  BY <1>2, <1>3, <1>4, KeptSamePlan
<1> QED BY <1>5 DEF b

LEMMA ForgetPendingEvidence ==
    ASSUME NEW a, Sound(a), NEW id, NEW p \in Pending(a) \ {id}
    PROVE  /\ LaterEffects(ForgetPending(a, id), p) = LaterEffects(a, p)
           /\ ForgetPending(a, id).pendingTurns[p] = a.pendingTurns[p]
<1> DEFINE b == ForgetPending(a, id)
<1>1. DOMAIN a = Fields /\ DOMAIN a.pendingOpenedAtSeq = Pending(a)
  BY DEF Sound, Typed, Chronological
<1>2. /\ b.nextTurnId = a.nextTurnId /\ b.ledgerSeq = a.ledgerSeq
      /\ b.dependencyLedger = a.dependencyLedger
      /\ b.pendingTurns = DeleteKey(a.pendingTurns, id)
      /\ b.pendingOpenedAtSeq = DeleteKey(a.pendingOpenedAtSeq, id)
      /\ b.confirmedTurns = a.confirmedTurns /\ b.confirmedAtSeq = a.confirmedAtSeq
  BY <1>1, ForgetPendingFrame
<1>3. /\ b.pendingOpenedAtSeq[p] = a.pendingOpenedAtSeq[p]
      /\ b.pendingTurns[p] = a.pendingTurns[p]
  BY <1>1, <1>2 DEF DeleteKey, Pending
<1> HIDE DEF b
<1>4. SamePlan(a, b, p)
  BY <1>2, <1>3 DEF SamePlan, Confirmed
<1> QED BY <1>3, <1>4, SamePlanSameEvidence DEF b

(* While a turn is pending the ledger is not quiet.                        *)
LEMMA LedgerNotQuiet ==
    ASSUME NEW a, NEW p \in Pending(a)
    PROVE  ReleaseLedgerIfQuiet(a) = a
BY DEF ReleaseLedgerIfQuiet

LEMMA RecordConfirmedLands ==
    ASSUME NEW a, Sound(a), NEW turn \in Turn
    PROVE  LET b == RecordConfirmed(a, turn)
           IN  /\ b.nextTurnId = a.nextTurnId + 1 /\ b.pendingTurns = a.pendingTurns
               /\ \A p \in Pending(a) : LaterEffects(b, p) = LaterEffects(a, p) \o turn.effects
<1> DEFINE b == [a EXCEPT !.nextTurnId = @ + 1]
           c == InsertConfirmed(b, a.nextTurnId, turn)
           d == ReleaseConfirmedBeyondObligation(c)
<1>1. DOMAIN a = Fields /\ Typed(a)
  BY DEF Sound, Typed
<1>2. /\ DOMAIN b = Fields /\ b.nextTurnId = a.nextTurnId + 1
      /\ b.pendingTurns = a.pendingTurns /\ b.confirmedTurns = a.confirmedTurns
      /\ b.confirmedAtSeq = a.confirmedAtSeq
      /\ b.pendingOpenedAtSeq = a.pendingOpenedAtSeq /\ b.claims = a.claims
      /\ b.dependencyLedger = a.dependencyLedger /\ b.ledgerSeq = a.ledgerSeq
      /\ b.historyRetain = a.historyRetain
      /\ b.evictedConfirmed = a.evictedConfirmed
  BY <1>1, FieldsAre DEF FieldNames
<1>3. /\ a.nextTurnId \in Nat \ {0}
      /\ Pending(a) \cup Confirmed(a) \subseteq 1 .. a.nextTurnId - 1
      /\ Pending(b) = Pending(a) /\ Confirmed(b) = Confirmed(a)
  BY <1>2 DEF Sound, Typed, Pending, Confirmed
<1>4. /\ b.nextTurnId \in Nat \ {0}
      /\ Pending(b) \cup Confirmed(b) \subseteq 1 .. b.nextTurnId - 1
      /\ a.nextTurnId \in (1 .. b.nextTurnId - 1) \ Pending(b)
      /\ a.nextTurnId \notin Confirmed(b)
  BY <1>2, <1>3
<1> HIDE DEF b
<1>5. Sound(b)
  BY <1>2, <1>3, <1>4 DEF Sound, Typed, Chronological, Distinct
<1>6. Sound(c) /\ c.pendingTurns = b.pendingTurns /\ c.nextTurnId = b.nextTurnId
  <2>1. Sound(c)
    BY <1>4, <1>5, InsertConfirmedSound
  <2> QED BY <1>2, <2>1, InsertConfirmedFrame
<1>7. ASSUME NEW p \in Pending(a)
      PROVE  LaterEffects(d, p) = LaterEffects(a, p) \o turn.effects
  <2>1. LaterEffects(b, p) = LaterEffects(a, p)
    BY <1>1, <1>2, <1>5, NumberedSameEvidence DEF Sound
  <2>2. p \in Pending(b) /\ a.nextTurnId > p
    BY <1>3
  <2>3. LaterEffects(c, p) = LaterEffects(b, p) \o turn.effects
    BY <1>4, <1>5, <2>2, InsertConfirmedEvidence
  <2>4. p \in Pending(c)
    BY <1>6, <2>2 DEF Pending
  <2> HIDE DEF c
  <2>5. LaterEffects(d, p) = LaterEffects(c, p)
    BY <1>6, <2>4, ReleaseConfirmedEvidence
  <2> QED BY <2>1, <2>3, <2>5
<1> HIDE DEF c
<1>8. d.nextTurnId = c.nextTurnId /\ d.pendingTurns = c.pendingTurns
  BY <1>6, ReleaseConfirmedFrame DEF Sound, Typed
<1> HIDE DEF d
<1>9. RecordConfirmed(a, turn) = d
  BY DEF RecordConfirmed, b, c, d
<1> QED BY <1>2, <1>6, <1>7, <1>8, <1>9

LEMMA CreatePendingLands ==
    ASSUME NEW a, Sound(a), NEW turn \in Turn
    PROVE  LET b == CreatePending(a, turn)
           IN  /\ b.nextTurnId = a.nextTurnId + 1
               /\ Pending(b) = Pending(a) \cup {a.nextTurnId}
               /\ a.nextTurnId \notin Pending(a)
               /\ b.pendingTurns[a.nextTurnId] = turn
               /\ LaterEffects(b, a.nextTurnId) = <<>>
               /\ \A p \in Pending(a) : /\ b.pendingTurns[p] = a.pendingTurns[p]
                                        /\ LaterEffects(b, p) = LaterEffects(a, p)
<1> DEFINE b == CreatePending(a, turn)
<1>1. DOMAIN a = Fields /\ Typed(a) /\ DOMAIN a.pendingOpenedAtSeq = Pending(a)
  BY DEF Sound, Typed, Chronological
<1>2. /\ b.nextTurnId = a.nextTurnId + 1 /\ b.ledgerSeq = a.ledgerSeq
      /\ b.pendingTurns = SetKey(a.pendingTurns, a.nextTurnId, turn)
      /\ b.pendingOpenedAtSeq = SetKey(a.pendingOpenedAtSeq, a.nextTurnId, a.ledgerSeq)
      /\ b.confirmedTurns = a.confirmedTurns
      /\ b.confirmedAtSeq = a.confirmedAtSeq
      /\ b.dependencyLedger = a.dependencyLedger
  BY <1>1, CreatePendingFrame
<1>3. Typed(b) /\ Pending(b) = Pending(a) \cup {a.nextTurnId}
  BY <1>1, CreatePendingTyped
<1>4. /\ a.nextTurnId \notin Pending(a)
      /\ \A c \in Confirmed(a) : ~(c > a.nextTurnId)
  BY <1>1 DEF Typed
<1> HIDE DEF b
<1>5. /\ b.pendingTurns[a.nextTurnId] = turn
      /\ b.pendingOpenedAtSeq[a.nextTurnId] = b.ledgerSeq
      /\ \A p \in Pending(a) : /\ b.pendingTurns[p] = a.pendingTurns[p]
                               /\ b.pendingOpenedAtSeq[p] = a.pendingOpenedAtSeq[p]
  BY <1>1, <1>2, <1>4 DEF SetKey, Pending
<1>6. LaterEffects(b, a.nextTurnId) = <<>>
  BY <1>2, <1>3, <1>4, <1>5, NewTurnHasNoEvidence DEF Confirmed
<1>7. \A p \in Pending(a) : LaterEffects(b, p) = LaterEffects(a, p)
  BY <1>1, <1>2, <1>3, <1>5, NumberedSameEvidence
<1> QED BY <1>2, <1>3, <1>4, <1>5, <1>6, <1>7 DEF b

LEMMA ConfirmPendingLands ==
    ASSUME NEW a, Sound(a), NEW id \in Pending(a)
    PROVE  LET b == ConfirmPending(a, id)
           IN  /\ b.nextTurnId = a.nextTurnId
               /\ Pending(b) = Pending(a) \ {id}
               /\ \A p \in Pending(b) :
                    /\ b.pendingTurns[p] = a.pendingTurns[p]
                    /\ LaterEffects(b, p) =
                          IF p < id THEN LaterEffects(a, p) \o a.pendingTurns[id].effects
                          ELSE LaterEffects(a, p)
<1> DEFINE b == ForgetPending(a, id)
           turn == a.pendingTurns[id]
           c == InsertConfirmed(b, id, turn)
           d == ReleaseLedgerIfQuiet(c)
           e == ReleaseConfirmedBeyondObligation(d)
<1>0. DOMAIN a = Fields /\ Typed(a) /\ Pending(a) \subseteq Int
  BY DEF Sound, Typed
<1>1. /\ Sound(b) /\ DOMAIN b = Fields /\ b.nextTurnId = a.nextTurnId
      /\ Pending(b) = Pending(a) \ {id} /\ Confirmed(b) = Confirmed(a)
  <2>1. Sound(b)
    BY ForgetPendingSound
  <2>2. Pending(b) = Pending(a) \ {id}
    BY <1>0, ForgetPendingTyped
  <2>3. DOMAIN b = Fields /\ b.nextTurnId = a.nextTurnId /\ b.confirmedTurns = a.confirmedTurns
    BY <1>0, ForgetPendingFrame
  <2> QED BY <2>1, <2>2, <2>3 DEF Confirmed
<1>2. /\ id \in (1 .. b.nextTurnId - 1) \ Pending(b) /\ turn \in Turn
      /\ id \notin Confirmed(b)
  BY <1>0, <1>1 DEF Typed, IsMap, Pending
<1>3. \A p \in Pending(b) : /\ LaterEffects(b, p) = LaterEffects(a, p)
                            /\ b.pendingTurns[p] = a.pendingTurns[p]
  BY <1>1, ForgetPendingEvidence
<1> HIDE DEF b, turn
<1>4. Sound(c) /\ c.pendingTurns = b.pendingTurns /\ c.nextTurnId = b.nextTurnId
  BY <1>1, <1>2, InsertConfirmedSound, InsertConfirmedFrame
<1>5. \A p \in Pending(b) :
          LaterEffects(c, p) = LaterEffects(b, p) \o (IF id > p THEN turn.effects ELSE <<>>)
  BY <1>1, <1>2, InsertConfirmedEvidence
<1> HIDE DEF c
<1>6. /\ Sound(d) /\ d.pendingTurns = c.pendingTurns /\ d.nextTurnId = c.nextTurnId
      /\ \A p \in Pending(c) : d = c
  BY <1>4, LedgerQuietSound, LedgerQuietFrame, LedgerNotQuiet DEF Sound, Typed
<1> HIDE DEF d
<1>7. /\ e.pendingTurns = d.pendingTurns /\ e.nextTurnId = d.nextTurnId
      /\ \A p \in Pending(d) : LaterEffects(e, p) = LaterEffects(d, p)
  BY <1>6, ReleaseConfirmedFrame, ReleaseConfirmedEvidence DEF Sound, Typed
<1> HIDE DEF e
<1>8. Pending(e) = Pending(b) /\ Pending(d) = Pending(b) /\ Pending(c) = Pending(b)
  BY <1>4, <1>6, <1>7 DEF Pending
<1>9. ASSUME NEW p \in Pending(e)
      PROVE  LaterEffects(e, p) = IF p < id THEN LaterEffects(a, p) \o turn.effects
                                  ELSE LaterEffects(a, p)
  <2>1. LaterEffects(e, p) = LaterEffects(a, p) \o (IF id > p THEN turn.effects ELSE <<>>)
    BY <1>3, <1>5, <1>6, <1>7, <1>8
  <2>2. PICK x \in Seq(Effect) : x = LaterEffects(a, p)
    BY <1>0, TicksAreTyped
  <2>3. x \o <<>> = x
    OBVIOUS
  <2>4. id > p <=> p < id
    BY <1>0, <1>1, <1>8
  <2> QED BY <2>1, <2>2, <2>3, <2>4
<1>10. ConfirmPending(a, id) = e
  BY DEF ConfirmPending, b, turn, c, d, e
<1>11. \A p \in Pending(e) : e.pendingTurns[p] = a.pendingTurns[p]
  BY <1>3, <1>4, <1>6, <1>7, <1>8
<1> QED BY <1>1, <1>4, <1>6, <1>7, <1>8, <1>9, <1>10, <1>11 DEF turn

LEMMA DiscardPendingLands ==
    ASSUME NEW a, Sound(a), NEW id \in Pending(a)
    PROVE  LET b == DiscardPending(a, id)
           IN  /\ b.nextTurnId = a.nextTurnId
               /\ Pending(b) = Pending(a) \ {id}
               /\ \A p \in Pending(b) : /\ b.pendingTurns[p] = a.pendingTurns[p]
                                        /\ LaterEffects(b, p) = LaterEffects(a, p)
<1> DEFINE b == ForgetPending(a, id)
           c == ReleaseLedgerIfQuiet(b)
           d == ReleaseConfirmedBeyondObligation(c)
<1>0. DOMAIN a = Fields /\ Typed(a)
  BY DEF Sound, Typed
<1>1. /\ Sound(b) /\ b.nextTurnId = a.nextTurnId /\ Pending(b) = Pending(a) \ {id}
  BY <1>0, ForgetPendingSound, ForgetPendingTyped, ForgetPendingFrame
<1>2. \A p \in Pending(b) : /\ LaterEffects(b, p) = LaterEffects(a, p)
                            /\ b.pendingTurns[p] = a.pendingTurns[p]
  BY <1>1, ForgetPendingEvidence
<1> HIDE DEF b
<1>3. /\ Sound(c) /\ c.pendingTurns = b.pendingTurns /\ c.nextTurnId = b.nextTurnId
      /\ \A p \in Pending(b) : c = b
  BY <1>1, LedgerQuietSound, LedgerQuietFrame, LedgerNotQuiet DEF Sound, Typed
<1> HIDE DEF c
<1>4. /\ d.pendingTurns = c.pendingTurns /\ d.nextTurnId = c.nextTurnId
      /\ \A p \in Pending(c) : LaterEffects(d, p) = LaterEffects(c, p)
  BY <1>3, ReleaseConfirmedFrame, ReleaseConfirmedEvidence DEF Sound, Typed
<1> HIDE DEF d
<1>5. Pending(d) = Pending(b) /\ Pending(c) = Pending(b)
  BY <1>3, <1>4 DEF Pending
<1>6. DiscardPending(a, id) = d
  BY DEF DiscardPending, b, c, d
<1> QED BY <1>1, <1>2, <1>3, <1>4, <1>5, <1>6

LEMMA ObserveQueuedLands ==
    ASSUME NEW a, Sound(a), NEW id, NEW queued
    PROVE  LET b == ObserveQueuedEffects(a, id, queued)
           IN  /\ b.nextTurnId = a.nextTurnId /\ b.pendingTurns = a.pendingTurns
               /\ \A p \in Pending(a) : LaterEffects(b, p) = LaterEffects(a, p)
<1> DEFINE b == ObserveQueuedEffects(a, id, queued)
<1>1. DOMAIN a = Fields
  BY DEF Sound, Typed
<1>2. /\ b.nextTurnId = a.nextTurnId /\ b.pendingTurns = a.pendingTurns
      /\ b.confirmedTurns = a.confirmedTurns /\ b.confirmedAtSeq = a.confirmedAtSeq
      /\ b.pendingOpenedAtSeq = a.pendingOpenedAtSeq
      /\ b.dependencyLedger = a.dependencyLedger /\ b.ledgerSeq = a.ledgerSeq
  BY <1>1, ObserveQueuedFrame
<1> HIDE DEF b
<1>3. \A p \in Pending(a) : SamePlan(a, b, p)
  BY <1>2 DEF SamePlan, Confirmed
<1> QED BY <1>2, <1>3, SamePlanSameEvidence DEF b

LEMMA SetHistoryRetentionLands ==
    ASSUME NEW a, Sound(a), NEW retain \in Nat
    PROVE  LET b == SetHistoryRetention(a, retain)
           IN  /\ b.nextTurnId = a.nextTurnId /\ b.pendingTurns = a.pendingTurns
               /\ \A p \in Pending(a) : LaterEffects(b, p) = LaterEffects(a, p)
<1> DEFINE b == [a EXCEPT !.historyRetain = retain]
           c == ReleaseConfirmedBeyondObligation(b)
<1>1. DOMAIN a = Fields
  BY DEF Sound, Typed
<1>2. /\ DOMAIN b = Fields /\ b.nextTurnId = a.nextTurnId
      /\ b.pendingTurns = a.pendingTurns /\ b.confirmedTurns = a.confirmedTurns
      /\ b.confirmedAtSeq = a.confirmedAtSeq
      /\ b.pendingOpenedAtSeq = a.pendingOpenedAtSeq /\ b.claims = a.claims
      /\ b.dependencyLedger = a.dependencyLedger /\ b.ledgerSeq = a.ledgerSeq
      /\ b.historyRetain = retain
      /\ b.evictedConfirmed = a.evictedConfirmed
  BY <1>1, FieldsAre DEF FieldNames
<1>3. Pending(b) = Pending(a) /\ Confirmed(b) = Confirmed(a)
  BY <1>2 DEF Pending, Confirmed
<1> HIDE DEF b
<1>4. Sound(b)
  BY <1>2, <1>3 DEF Sound, Typed, Chronological, Distinct
<1>5. \A p \in Pending(a) : LaterEffects(b, p) = LaterEffects(a, p)
  <2>1. \A p \in Pending(a) : SamePlan(a, b, p)
    BY <1>2 DEF SamePlan, Confirmed
  <2> QED BY <2>1, SamePlanSameEvidence
<1>6. /\ c.nextTurnId = b.nextTurnId /\ c.pendingTurns = b.pendingTurns
      /\ \A p \in Pending(b) : LaterEffects(c, p) = LaterEffects(b, p)
  BY <1>2, <1>4, ReleaseConfirmedFrame, ReleaseConfirmedEvidence
<1> HIDE DEF c
<1>7. SetHistoryRetention(a, retain) = c
  BY DEF SetHistoryRetention, b, c
<1> QED BY <1>2, <1>3, <1>5, <1>6, <1>7

LEMMA DestroyKeepsNumbering ==
    ASSUME NEW a, Sound(a)
    PROVE  ReleaseOnDestroy(a).nextTurnId = a.nextTurnId
<1> DEFINE b == [a EXCEPT !.confirmedTurns = EmptyMap, !.confirmedAtSeq = EmptyMap]
           c == [b EXCEPT !.pendingTurns = EmptyMap, !.pendingOpenedAtSeq = EmptyMap,
                          !.queuedEvidence = EmptyMap, !.claims = EmptyMap]
<1>1. DOMAIN a = Fields
  BY DEF Sound, Typed
<1>2. DOMAIN b = Fields /\ b.nextTurnId = a.nextTurnId
  BY <1>1, FieldsAre DEF FieldNames
<1>3. DOMAIN c = Fields /\ c.nextTurnId = b.nextTurnId
  BY <1>2, FieldsAre DEF FieldNames
<1> HIDE DEF c
<1>4. ReleaseLedgerIfQuiet(c).nextTurnId = c.nextTurnId
  BY <1>3, LedgerQuietFrame
<1> HIDE DEF b
<1>5. ReleaseOnDestroy(a) = IF Pending(a) = {} THEN b ELSE ReleaseLedgerIfQuiet(c)
  BY DEF ReleaseOnDestroy, b, c
<1> QED BY <1>2, <1>3, <1>4, <1>5

(* The ledger as its reader sees it.                                       *)
Proposed(a) == [p \in Pending(a) |-> a.pendingTurns[p].effects]
Plans(a) == [p \in Pending(a) |-> LaterEffects(a, p)]

(* Nothing an outside reader of the ledger sees has changed.               *)
LEMMA UnseenStep ==
    ASSUME NEW a, NEW b, b.pendingTurns = a.pendingTurns,
           \A p \in Pending(a) : LaterEffects(b, p) = LaterEffects(a, p)
    PROVE  Proposed(b) = Proposed(a) /\ Plans(b) = Plans(a)
BY DEF Proposed, Plans, Pending

LEMMA ReaderSees ==
    ASSUME NEW a
    PROVE  /\ DOMAIN Proposed(a) = Pending(a) /\ DOMAIN Plans(a) = Pending(a)
           /\ \A p \in Pending(a) : /\ Proposed(a)[p] = a.pendingTurns[p].effects
                                    /\ Plans(a)[p] = LaterEffects(a, p)
BY DEF Proposed, Plans

(* What rollback of a pending turn reads is at every moment the            *)
(* chronological list of all that landed since the turn opened: the ledger *)
(* reassembles it from two stores, evicts confirmed turns, resets its      *)
(* clock and retains whatever it is told to, and every one of its methods  *)
(* is a step of the ledger that simply remembers, or none.                 *)
THEOREM LedgerImplementsEvidence == Spec => ImplementsEvidence
<1> USE DEF Proposed, Plans
<1>1. Init => Evidence!Init
  <2> SUFFICES ASSUME Init PROVE Evidence!Init
    OBVIOUS
  <2>1. authority.nextTurnId = 1 /\ authority.pendingTurns = EmptyMap
    BY DEF Init, InitialAuthority
  <2>2. Pending(authority) = {}
    BY <2>1 DEF Pending, EmptyMap
  <2> QED BY <2>1, <2>2 DEF Evidence!Init
<1>2. Sound(authority) /\ [Next]_vars => [Evidence!Next]_Evidence!vars
  <2> SUFFICES ASSUME Sound(authority), [Next]_vars
               PROVE  [Evidence!Next]_Evidence!vars
    OBVIOUS
  <2> DEFINE a == authority
             b == authority'
  <2>0. \A effects \in EffectLists \cup QueuedLists, subjects \in SUBSET Subject :
            /\ effects \in Seq(Effect)
            /\ [subjects |-> subjects, effects |-> effects] \in Turn
    BY EffectListsAssumption DEF Turn
  <2>a. /\ Evidence!Pending = Pending(a)
        /\ \A p \in Pending(a) : Proposed(a)[p] = a.pendingTurns[p].effects
        /\ \A p \in Pending(a) : Plans(a)[p] = LaterEffects(a, p)
    BY DEF Evidence!Pending
  <2>b. ASSUME b.nextTurnId = a.nextTurnId, Proposed(b) = Proposed(a), Plans(b) = Plans(a)
        PROVE  UNCHANGED Evidence!vars
    BY <2>b DEF Evidence!vars
  <2>1. CASE DoRecordConfirmed
    <3>1. PICK effects \in EffectLists, subjects \in SUBSET Subject :
              b = RecordConfirmed(a, [subjects |-> subjects, effects |-> effects])
      BY <2>1 DEF DoRecordConfirmed
    <3> DEFINE turn == [subjects |-> subjects, effects |-> effects]
    <3>2. turn \in Turn /\ turn.effects = effects
      BY <2>0
    <3> HIDE DEF turn
    <3>3. /\ b.nextTurnId = a.nextTurnId + 1 /\ b.pendingTurns = a.pendingTurns
          /\ \A p \in Pending(a) : LaterEffects(b, p) = LaterEffects(a, p) \o effects
      BY <3>1, <3>2, RecordConfirmedLands DEF turn
    <3>4. Pending(b) = Pending(a)
      BY <3>3 DEF Pending
    <3>5. Evidence!Author(effects)
      BY <3>3, <3>4 DEF Evidence!Author, Evidence!Landed, Evidence!Pending
    <3> QED BY <3>5 DEF Evidence!Next
  <2>2. CASE DoCreatePending
    <3>1. PICK effects \in EffectLists, subjects \in SUBSET Subject :
              b = CreatePending(a, [subjects |-> subjects, effects |-> effects])
      BY <2>2 DEF DoCreatePending
    <3> DEFINE turn == [subjects |-> subjects, effects |-> effects]
    <3>2. turn \in Turn /\ turn.effects = effects
      BY <2>0
    <3> HIDE DEF turn
    <3>3. /\ b.nextTurnId = a.nextTurnId + 1
          /\ Pending(b) = Pending(a) \cup {a.nextTurnId}
          /\ a.nextTurnId \notin Pending(a)
          /\ b.pendingTurns[a.nextTurnId] = turn
          /\ LaterEffects(b, a.nextTurnId) = <<>>
          /\ \A p \in Pending(a) : /\ b.pendingTurns[p] = a.pendingTurns[p]
                                   /\ LaterEffects(b, p) = LaterEffects(a, p)
      BY <3>1, <3>2, CreatePendingLands DEF turn
    <3>5. Evidence!Open(effects)
      BY <3>2, <3>3 DEF Evidence!Open, Evidence!Pending
    <3> QED BY <3>5 DEF Evidence!Next
  <2>3. CASE DoObserveLaterEffects
    <3>1. PICK effects \in EffectLists : b = ObserveLaterEffects(a, effects)
      BY <2>3 DEF DoObserveLaterEffects
    <3>2. b.nextTurnId = a.nextTurnId /\ b.pendingTurns = a.pendingTurns
      <4>1. DOMAIN a = Fields
        BY DEF Sound, Typed
      <4>2. CASE Pending(a) = {} \/ effects = <<>>
        BY <3>1, <4>2 DEF ObserveLaterEffects
      <4>3. CASE Pending(a) # {} /\ effects # <<>>
        BY <3>1, <4>1, <4>3, ObserveLaterFrame
      <4> QED BY <4>2, <4>3
    <3>3. \A p \in Pending(a) : LaterEffects(b, p) = LaterEffects(a, p) \o effects
      BY <2>0, <3>1, ObserveLaterEvidence
    <3>4. Pending(b) = Pending(a)
      BY <3>2 DEF Pending
    <3>5. Evidence!Observe(effects)
      BY <3>2, <3>3, <3>4 DEF Evidence!Observe, Evidence!Landed, Evidence!Pending
    <3> QED BY <3>5 DEF Evidence!Next
  <2>4. CASE DoObserveQueuedEffects
    <3>1. PICK id \in Pending(a), queued \in QueuedLists :
              b = ObserveQueuedEffects(a, id, queued)
      BY <2>4 DEF DoObserveQueuedEffects
    <3>2. /\ b.nextTurnId = a.nextTurnId /\ b.pendingTurns = a.pendingTurns
          /\ \A p \in Pending(a) : LaterEffects(b, p) = LaterEffects(a, p)
      BY <3>1, ObserveQueuedLands
    <3>3. Proposed(b) = Proposed(a) /\ Plans(b) = Plans(a)
      BY <3>2, UnseenStep
    <3> QED BY <2>b, <3>2, <3>3
  <2>5. CASE DoConfirmPending
    <3>1. PICK id \in Pending(a) : b = ConfirmPending(a, id)
      BY <2>5 DEF DoConfirmPending
    <3>2. /\ b.nextTurnId = a.nextTurnId
          /\ Pending(b) = Pending(a) \ {id}
          /\ \A p \in Pending(b) :
                /\ b.pendingTurns[p] = a.pendingTurns[p]
                /\ LaterEffects(b, p) =
                      IF p < id THEN LaterEffects(a, p) \o a.pendingTurns[id].effects
                      ELSE LaterEffects(a, p)
      BY <3>1, ConfirmPendingLands
    <3>3. Evidence!Confirm(id)
      BY <3>2 DEF Evidence!Confirm, Evidence!Landed, Evidence!Pending, Evidence!Forget
    <3> QED BY <2>a, <3>3 DEF Evidence!Next
  <2>6. CASE DoDiscardPending
    <3>1. PICK id \in Pending(a) : b = DiscardPending(a, id)
      BY <2>6 DEF DoDiscardPending
    <3>2. /\ b.nextTurnId = a.nextTurnId
          /\ Pending(b) = Pending(a) \ {id}
          /\ \A p \in Pending(b) : /\ b.pendingTurns[p] = a.pendingTurns[p]
                                   /\ LaterEffects(b, p) = LaterEffects(a, p)
      BY <3>1, DiscardPendingLands
    <3>3. Evidence!Discard({id})
      BY <3>2 DEF Evidence!Discard, Evidence!Pending, Evidence!Forget
    <3>4. {id} \in SUBSET Evidence!Pending
      BY <2>a
    <3> QED BY <3>3, <3>4 DEF Evidence!Next
  <2>7. CASE DoSetHistoryRetention
    <3>1. PICK retain \in 0 .. MaxRetain : b = SetHistoryRetention(a, retain)
      BY <2>7 DEF DoSetHistoryRetention
    <3>2. retain \in Nat
      BY BoundsAssumption
    <3>3. /\ b.nextTurnId = a.nextTurnId /\ b.pendingTurns = a.pendingTurns
          /\ \A p \in Pending(a) : LaterEffects(b, p) = LaterEffects(a, p)
      BY <3>1, <3>2, SetHistoryRetentionLands
    <3>4. Proposed(b) = Proposed(a) /\ Plans(b) = Plans(a)
      BY <3>3, UnseenStep
    <3> QED BY <2>b, <3>3, <3>4
  <2>8. CASE DoDestroy
    <3>1. /\ Pending(b) = {} /\ b.nextTurnId = a.nextTurnId
      BY <2>8, NothingPendingAfterDestroy, DestroyKeepsNumbering DEF DoDestroy
    <3>2. PICK ids : ids = Pending(a)
      OBVIOUS
    <3>3. Evidence!Discard(ids)
      BY <3>1, <3>2 DEF Evidence!Discard, Evidence!Pending, Evidence!Forget
    <3>4. ids \in SUBSET Evidence!Pending
      BY <2>a, <3>2
    <3> QED BY <3>3, <3>4 DEF Evidence!Next
  <2>9. CASE UNCHANGED vars
    BY <2>9 DEF vars, Evidence!vars
  <2> QED BY <2>1, <2>2, <2>3, <2>4, <2>5, <2>6, <2>7, <2>8, <2>9 DEF Next
<1> QED BY <1>1, <1>2, AuthorityIsSound, PTL DEF Spec, ImplementsEvidence, Evidence!Spec

-----------------------------------------------------------------------------
(* Evidence read from the queue latches                                    *)

(* A list as the Map of the code keeps it: one entry for one key.          *)
Keyed(list) ==
    /\ list \in Seq(Effect)
    /\ \A i, j \in 1 .. Len(list) : EvidenceKey(list[i]) = EvidenceKey(list[j]) => i = j

(* Every entry stays where it was; it may take a newer effect of its key.  *)
Extends(old, new) ==
    /\ Len(old) <= Len(new)
    /\ \A i \in 1 .. Len(old) : EvidenceKey(old[i]) = EvidenceKey(new[i])

LEMMA ExtendsIsTransitive ==
    ASSUME NEW u \in Seq(Effect), NEW v \in Seq(Effect), NEW w \in Seq(Effect),
           Extends(u, v), Extends(v, w)
    PROVE  Extends(u, w)
<1>1. Len(u) \in Nat /\ Len(v) \in Nat /\ Len(w) \in Nat
  OBVIOUS
<1> QED BY <1>1 DEF Extends

LEMMA PutEvidenceExtends ==
    ASSUME NEW list, Keyed(list), NEW effect \in Effect
    PROVE  Keyed(PutEvidence(list, effect)) /\ Extends(list, PutEvidence(list, effect))
<1> DEFINE put == PutEvidence(list, effect)
<1>0. list \in Seq(Effect) /\ Len(list) \in Nat /\ DOMAIN list = 1 .. Len(list)
  BY DEF Keyed
<1>1. CASE \E i \in DOMAIN list : EvidenceKey(list[i]) = EvidenceKey(effect)
  <2>1. put = [i \in 1 .. Len(list) |->
                  IF EvidenceKey(list[i]) = EvidenceKey(effect) THEN effect ELSE list[i]]
    BY <1>0, <1>1 DEF PutEvidence
  <2>2. \A i \in 1 .. Len(list) : list[i] \in Effect
    BY <1>0
  <2>3. put \in Seq(Effect) /\ Len(put) = Len(list)
    <3>1. \A i \in 1 .. Len(list) :
              (IF EvidenceKey(list[i]) = EvidenceKey(effect) THEN effect ELSE list[i]) \in Effect
      BY <2>2
    <3> HIDE DEF put
    <3>2. put \in [1 .. Len(list) -> Effect]
      BY <2>1, <3>1
    <3>3. put \in Seq(Effect)
      BY <1>0, <3>2
    <3> QED BY <1>0, <3>2, <3>3
  <2>4. \A i \in 1 .. Len(list) : EvidenceKey(put[i]) = EvidenceKey(list[i])
    <3> HIDE DEF put
    <3> QED BY <2>1
  <2> HIDE DEF put
  <2> QED BY <2>3, <2>4, <1>0 DEF Keyed, Extends, put
<1>2. CASE ~\E i \in DOMAIN list : EvidenceKey(list[i]) = EvidenceKey(effect)
  <2>1. put = Append(list, effect)
    BY <1>2 DEF PutEvidence
  <2>2. put \in Seq(Effect)
    BY <1>0, <2>1
  <2>3. PICK n \in Nat : n = Len(list)
    BY <1>0
  <2>4. /\ Len(put) = n + 1 /\ put[n + 1] = effect
        /\ \A i \in 1 .. n : put[i] = list[i]
    BY <1>0, <2>1, <2>3
  <2>5. \A i \in 1 .. n : EvidenceKey(list[i]) # EvidenceKey(effect)
    BY <1>0, <1>2, <2>3
  <2> HIDE DEF put
  <2>6. ASSUME NEW i \in 1 .. n + 1, NEW j \in 1 .. n + 1,
               EvidenceKey(put[i]) = EvidenceKey(put[j])
        PROVE  i = j
    <3>1. CASE i \in 1 .. n /\ j \in 1 .. n
      BY <3>1, <2>3, <2>4, <2>6 DEF Keyed
    <3>2. CASE i = n + 1 /\ j = n + 1
      BY <3>2
    <3>3. CASE i \in 1 .. n /\ j = n + 1
      BY <3>3, <2>4, <2>5, <2>6
    <3>4. CASE i = n + 1 /\ j \in 1 .. n
      BY <3>4, <2>4, <2>5, <2>6
    <3> QED BY <3>1, <3>2, <3>3, <3>4
  <2>7. Keyed(put)
    BY <2>2, <2>4, <2>6 DEF Keyed
  <2>8. Extends(list, put)
    BY <2>3, <2>4 DEF Extends
  <2> QED BY <2>7, <2>8 DEF put
<1> QED BY <1>1, <1>2

(* The equation PutAll solves, for the first n entries.                    *)
Puts(g, list, queued, n) ==
    g = [k \in 0 .. n |-> IF k = 0 THEN list ELSE PutEvidence(g[k-1], queued[k])]

LEMMA PutsExists ==
    ASSUME NEW list, NEW queued, NEW n \in Nat
    PROVE  \E g : Puts(g, list, queued, n)
<1> DEFINE Bad == {m \in 0 .. n : ~\E g : Puts(g, list, queued, m)}
<1> SUFFICES ASSUME Bad # {} PROVE FALSE
  OBVIOUS
<1>1. PICK m \in Bad : \A k \in 0 .. n : k < m => k \notin Bad
  <2>1. Bad \subseteq 0 .. n
    OBVIOUS
  <2> HIDE DEF Bad
  <2> QED BY <2>1, LeastIndex
<1>2. CASE m = 0
  <2> DEFINE g == [k \in 0 .. 0 |-> list]
  <2>1. \A k \in 0 .. 0 : k = 0
    OBVIOUS
  <2>2. g = [k \in 0 .. 0 |-> IF k = 0 THEN list ELSE PutEvidence(g[k-1], queued[k])]
    BY <2>1
  <2>3. \E h : Puts(h, list, queued, 0)
    BY <2>2 DEF Puts
  <2> QED BY <1>1, <1>2, <2>3
<1>3. CASE m # 0
  <2>1. m \in Nat /\ m > 0 /\ m - 1 \in 0 .. n /\ m - 1 < m
    BY <1>1, <1>3
  <2>2. PICK g : Puts(g, list, queued, m - 1)
    BY <1>1, <2>1
  <2> DEFINE h == [k \in 0 .. m |-> IF k = m THEN PutEvidence(g[m-1], queued[m]) ELSE g[k]]
  <2>3. ASSUME NEW k \in 0 .. m
        PROVE  h[k] = IF k = 0 THEN list ELSE PutEvidence(h[k-1], queued[k])
    <3>1. CASE k = m
      <4>1. m - 1 \in 0 .. m /\ m - 1 # m
        BY <2>1
      <4> QED BY <1>3, <3>1, <4>1
    <3>2. CASE k # m
      <4>1. k \in 0 .. m - 1
        BY <3>2, <2>1
      <4>2. g[k] = IF k = 0 THEN list ELSE PutEvidence(g[k-1], queued[k])
        BY <4>1, <2>2 DEF Puts
      <4>3. k # 0 => k - 1 \in 0 .. m /\ k - 1 # m
        BY <4>1, <2>1
      <4> QED BY <3>2, <4>2, <4>3
    <3> QED BY <3>1, <3>2
  <2>4. h = [k \in 0 .. m |-> h[k]]
    OBVIOUS
  <2> HIDE DEF h
  <2>5. Puts(h, list, queued, m)
    BY <2>3, <2>4 DEF Puts
  <2> QED BY <1>1, <2>5
<1> QED BY <1>2, <1>3

(* A whole list read from the queue extends what was retained.             *)
LEMMA PutAllExtends ==
    ASSUME NEW list, Keyed(list), NEW queued \in Seq(Effect)
    PROVE  Keyed(PutAll(list, queued)) /\ Extends(list, PutAll(list, queued))
<1>0. PICK n \in Nat : n = Len(queued)
  OBVIOUS
<1> DEFINE G == CHOOSE g : g = [k \in 0 .. Len(queued) |->
                     IF k = 0 THEN list ELSE PutEvidence(g[k-1], queued[k])]
<1>1. PutAll(list, queued) = G[Len(queued)]
  BY DEF PutAll
<1>2. \E g : g = [k \in 0 .. Len(queued) |->
                     IF k = 0 THEN list ELSE PutEvidence(g[k-1], queued[k])]
  <2>1. \E g : Puts(g, list, queued, Len(queued))
    BY <1>0, PutsExists
  <2> QED BY <2>1 DEF Puts
<1>3. G = [k \in 0 .. Len(queued) |->
                     IF k = 0 THEN list ELSE PutEvidence(G[k-1], queued[k])]
  BY <1>2, Zenon
<1> HIDE DEF G
<1>4. \A k \in 0 .. n : G[k] = IF k = 0 THEN list ELSE PutEvidence(G[k-1], queued[k])
  BY <1>0, <1>3
<1> DEFINE Bad == {k \in 0 .. n : ~(Keyed(G[k]) /\ Extends(list, G[k]))}
<1>5. Bad = {}
  <2> SUFFICES ASSUME Bad # {} PROVE FALSE
    OBVIOUS
  <2>1. PICK m \in Bad : \A k \in 0 .. n : k < m => k \notin Bad
    <3>1. Bad \subseteq 0 .. n
      OBVIOUS
    <3> HIDE DEF Bad
    <3> QED BY <3>1, LeastIndex
  <2>2. m # 0
    <3>1. Extends(list, list)
      BY DEF Extends, Keyed
    <3>2. G[0] = list
      BY <1>4
    <3> QED BY <2>1, <3>1, <3>2
  <2>3. m - 1 \in 0 .. n /\ m - 1 < m /\ m \in 1 .. n
    BY <2>1, <2>2
  <2>4. Keyed(G[m-1]) /\ Extends(list, G[m-1])
    BY <2>1, <2>3
  <2>5. queued[m] \in Effect
    BY <1>0, <2>3
  <2>6. G[m] = PutEvidence(G[m-1], queued[m])
    BY <1>4, <2>1, <2>2
  <2>7. Keyed(G[m]) /\ Extends(G[m-1], G[m])
    BY <2>4, <2>5, <2>6, PutEvidenceExtends
  <2>8. Extends(list, G[m])
    BY <2>4, <2>7, ExtendsIsTransitive DEF Keyed
  <2> QED BY <2>1, <2>7, <2>8
<1>6. n \in 0 .. n
  OBVIOUS
<1> QED BY <1>0, <1>1, <1>5, <1>6

Keys(list) == {EvidenceKey(list[i]) : i \in DOMAIN list}

(* One entry puts its key among those of the list.                         *)
LEMMA PutEvidenceKeys ==
    ASSUME NEW list, Keyed(list), NEW effect \in Effect
    PROVE  Keys(PutEvidence(list, effect)) = Keys(list) \cup {EvidenceKey(effect)}
<1> DEFINE put == PutEvidence(list, effect)
<1>0. list \in Seq(Effect) /\ Len(list) \in Nat /\ DOMAIN list = 1 .. Len(list)
  BY DEF Keyed
<1>1. CASE \E i \in DOMAIN list : EvidenceKey(list[i]) = EvidenceKey(effect)
  <2>1. /\ DOMAIN put = DOMAIN list
        /\ \A i \in DOMAIN list : EvidenceKey(put[i]) = EvidenceKey(list[i])
    BY <1>1 DEF PutEvidence
  <2> HIDE DEF put
  <2> QED BY <1>1, <2>1 DEF Keys, put
<1>2. CASE ~\E i \in DOMAIN list : EvidenceKey(list[i]) = EvidenceKey(effect)
  <2>1. put = Append(list, effect)
    BY <1>2 DEF PutEvidence
  <2>2. /\ DOMAIN put = DOMAIN list \cup {Len(list) + 1} /\ put[Len(list) + 1] = effect
        /\ \A i \in DOMAIN list : put[i] = list[i]
    BY <1>0, <2>1
  <2> HIDE DEF put
  <2> QED BY <2>2 DEF Keys, put
<1> QED BY <1>1, <1>2

(* An entry of the result is the new one, or an old one of another key.    *)
LEMMA PutEvidenceEntries ==
    ASSUME NEW list, Keyed(list), NEW effect \in Effect
    PROVE  LET put == PutEvidence(list, effect) IN
           \A j \in DOMAIN put :
              \/ put[j] = effect
              \/ /\ j \in DOMAIN list /\ put[j] = list[j]
                 /\ EvidenceKey(put[j]) # EvidenceKey(effect)
<1> DEFINE put == PutEvidence(list, effect)
<1>0. list \in Seq(Effect) /\ Len(list) \in Nat /\ DOMAIN list = 1 .. Len(list)
  BY DEF Keyed
<1>1. CASE \E i \in DOMAIN list : EvidenceKey(list[i]) = EvidenceKey(effect)
  BY <1>1 DEF PutEvidence
<1>2. CASE ~\E i \in DOMAIN list : EvidenceKey(list[i]) = EvidenceKey(effect)
  <2>1. put = Append(list, effect)
    BY <1>2 DEF PutEvidence
  <2>2. /\ DOMAIN put = DOMAIN list \cup {Len(list) + 1} /\ put[Len(list) + 1] = effect
        /\ \A i \in DOMAIN list : put[i] = list[i]
    BY <1>0, <2>1
  <2> HIDE DEF put
  <2> QED BY <1>2, <2>2 DEF put
<1> QED BY <1>1, <1>2

(* Every key put, up to the m-th entry, is answered by an entry put.       *)
Answered(list, queued, m) ==
    \A j \in DOMAIN list :
        (\E i \in 1 .. m : EvidenceKey(queued[i]) = EvidenceKey(list[j]))
            => \E i \in 1 .. m : list[j] = queued[i]

(* It has the keys of both, and no others, and shows what was put.         *)
LEMMA PutAllKeys ==
    ASSUME NEW list, Keyed(list), NEW queued \in Seq(Effect)
    PROVE  /\ Keys(PutAll(list, queued)) = Keys(list) \cup Keys(queued)
           /\ Answered(PutAll(list, queued), queued, Len(queued))
<1>0. PICK n \in Nat : n = Len(queued) /\ DOMAIN queued = 1 .. n
  OBVIOUS
<1> DEFINE G == CHOOSE g : g = [k \in 0 .. Len(queued) |->
                     IF k = 0 THEN list ELSE PutEvidence(g[k-1], queued[k])]
<1>1. PutAll(list, queued) = G[Len(queued)]
  BY DEF PutAll
<1>2. \E g : g = [k \in 0 .. Len(queued) |->
                     IF k = 0 THEN list ELSE PutEvidence(g[k-1], queued[k])]
  <2>1. \E g : Puts(g, list, queued, Len(queued))
    BY <1>0, PutsExists
  <2> QED BY <2>1 DEF Puts
<1>3. G = [k \in 0 .. Len(queued) |->
                     IF k = 0 THEN list ELSE PutEvidence(G[k-1], queued[k])]
  BY <1>2, Zenon
<1> HIDE DEF G
<1>4. \A k \in 0 .. n : G[k] = IF k = 0 THEN list ELSE PutEvidence(G[k-1], queued[k])
  BY <1>0, <1>3
<1> DEFINE Right(k) == Keyed(G[k]) /\ Keys(G[k]) = Keys(list) \cup {EvidenceKey(queued[i]) : i \in 1 .. k}
                       /\ Answered(G[k], queued, k)
           Bad == {k \in 0 .. n : ~Right(k)}
<1>5. Bad = {}
  <2> SUFFICES ASSUME Bad # {} PROVE FALSE
    OBVIOUS
  <2>1. PICK m \in Bad : \A k \in 0 .. n : k < m => k \notin Bad
    <3>1. Bad \subseteq 0 .. n
      OBVIOUS
    <3> HIDE DEF Bad
    <3> QED BY <3>1, LeastIndex
  <2>2. m # 0
    <3>1. G[0] = list /\ 1 .. 0 = {}
      BY <1>4
    <3>2. Answered(G[0], queued, 0)
      BY DEF Answered
    <3>3. Right(0)
      BY <3>1, <3>2
    <3> QED BY <2>1, <3>3
  <2>3. m - 1 \in 0 .. n /\ m - 1 < m /\ m \in 1 .. n
    BY <2>1, <2>2
  <2>4. Right(m - 1)
    <3>1. m - 1 \notin Bad
      BY <2>1, <2>3
    <3> HIDE DEF Right
    <3> QED BY <2>3, <3>1
  <2>5. queued[m] \in Effect
    BY <1>0, <2>3
  <2>6. G[m] = PutEvidence(G[m-1], queued[m])
    BY <1>4, <2>1, <2>2
  <2>7. Keyed(G[m])
    BY <2>4, <2>5, <2>6, PutEvidenceExtends
  <2>8. Keys(G[m]) = Keys(G[m-1]) \cup {EvidenceKey(queued[m])}
    BY <2>4, <2>5, <2>6, PutEvidenceKeys
  <2>9. {EvidenceKey(queued[i]) : i \in 1 .. m}
          = {EvidenceKey(queued[i]) : i \in 1 .. m - 1} \cup {EvidenceKey(queued[m])}
    <3>1. \A i : i \in 1 .. m <=> i \in 1 .. m - 1 \/ i = m
      BY <2>3
    <3> QED BY <3>1
  <2>10. Answered(G[m], queued, m)
    <3> SUFFICES ASSUME NEW j \in DOMAIN G[m], NEW i \in 1 .. m,
                        EvidenceKey(queued[i]) = EvidenceKey(G[m][j])
                 PROVE  \E k \in 1 .. m : G[m][j] = queued[k]
      BY DEF Answered
    <3>1. CASE G[m][j] = queued[m]
      BY <2>3, <3>1
    <3>2. CASE G[m][j] # queued[m]
      <4>1. /\ j \in DOMAIN G[m-1] /\ G[m][j] = G[m-1][j]
            /\ EvidenceKey(G[m][j]) # EvidenceKey(queued[m])
        BY <2>4, <2>5, <2>6, <3>2, PutEvidenceEntries
      <4>2. i \in 1 .. m - 1
        <5>1. i # m
          BY <4>1
        <5> QED BY <2>3, <5>1
      <4>3. \E k \in 1 .. m - 1 : G[m-1][j] = queued[k]
        BY <2>4, <4>1, <4>2 DEF Answered
      <4>4. \A k \in 1 .. m - 1 : k \in 1 .. m
        BY <2>3
      <4> QED BY <4>1, <4>3, <4>4
    <3> QED BY <3>1, <3>2
  <2>11. Right(m)
    BY <2>4, <2>7, <2>8, <2>9, <2>10
  <2> QED BY <2>1, <2>11
<1>6. Right(n)
  <2>1. n \in 0 .. n
    OBVIOUS
  <2> HIDE DEF Right
  <2> QED BY <1>5, <2>1
<1>7. Keys(queued) = {EvidenceKey(queued[i]) : i \in 1 .. n}
  BY <1>0 DEF Keys
<1>8. PutAll(list, queued) = G[n]
  BY <1>0, <1>1
<1> QED BY <1>0, <1>6, <1>7, <1>8

(* What every method but the read of the queue does to retained evidence:   *)
(* it goes with its turn and is otherwise left alone.                      *)
KeepsEvidence(a, b) ==
    /\ \A p \in DOMAIN b.queuedEvidence :
            p \in DOMAIN a.queuedEvidence /\ b.queuedEvidence[p] = a.queuedEvidence[p]
    /\ \A p \in Pending(b) : p \in DOMAIN a.queuedEvidence => p \in DOMAIN b.queuedEvidence
    /\ \A p \in DOMAIN a.queuedEvidence : p \in Pending(b) => p \in Pending(a)

LEMMA SameEvidenceIsKept ==
    ASSUME NEW a, NEW b, b.queuedEvidence = a.queuedEvidence,
           DOMAIN a.queuedEvidence \subseteq Pending(a)
    PROVE  KeepsEvidence(a, b)
BY DEF KeepsEvidence

LEMMA SettlingKeepsEvidence ==
    ASSUME NEW a, Tidy(a), NEW id \in Pending(a)
    PROVE  /\ KeepsEvidence(a, ConfirmPending(a, id))
           /\ KeepsEvidence(a, DiscardPending(a, id))
<1> DEFINE b == ForgetPending(a, id)
           turn == a.pendingTurns[id]
           c == InsertConfirmed(b, id, turn)
           d == ReleaseLedgerIfQuiet(c)
           e == ReleaseConfirmedBeyondObligation(d)
           f == ReleaseLedgerIfQuiet(b)
           g == ReleaseConfirmedBeyondObligation(f)
<1>0. DOMAIN a = Fields /\ Typed(a) /\ DOMAIN a.queuedEvidence \subseteq Pending(a)
  BY DEF Tidy, Typed, Housekept
<1>1. /\ DOMAIN b = Fields /\ b.queuedEvidence = DeleteKey(a.queuedEvidence, id)
      /\ Pending(b) = Pending(a) \ {id}
  BY <1>0, ForgetPendingFrame, ForgetPendingTyped
<1>2. /\ DOMAIN b.queuedEvidence = DOMAIN a.queuedEvidence \ {id}
      /\ \A p \in DOMAIN b.queuedEvidence : b.queuedEvidence[p] = a.queuedEvidence[p]
  BY <1>1 DEF DeleteKey
<1> HIDE DEF b
<1>3. /\ DOMAIN c = Fields /\ c.queuedEvidence = b.queuedEvidence
      /\ c.pendingTurns = b.pendingTurns
  BY <1>1, InsertConfirmedFrame
<1> HIDE DEF c
<1>4. /\ DOMAIN d = Fields /\ d.queuedEvidence = b.queuedEvidence
      /\ d.pendingTurns = b.pendingTurns
      /\ DOMAIN f = Fields /\ f.queuedEvidence = b.queuedEvidence
      /\ f.pendingTurns = b.pendingTurns
  BY <1>1, <1>3, LedgerQuietFrame
<1> HIDE DEF d, f
<1>5. /\ e.queuedEvidence = b.queuedEvidence /\ e.pendingTurns = b.pendingTurns
      /\ g.queuedEvidence = b.queuedEvidence /\ g.pendingTurns = b.pendingTurns
  BY <1>4, ReleaseConfirmedFrame
<1> HIDE DEF e, g
<1>6. Pending(e) = Pending(a) \ {id} /\ Pending(g) = Pending(a) \ {id}
  BY <1>1, <1>5 DEF Pending
<1>7. KeepsEvidence(a, e) /\ KeepsEvidence(a, g)
  BY <1>0, <1>2, <1>5, <1>6 DEF KeepsEvidence
<1>8. ConfirmPending(a, id) = e /\ DiscardPending(a, id) = g
  BY DEF ConfirmPending, DiscardPending, b, turn, c, d, e, f, g
<1> QED BY <1>7, <1>8

LEMMA OtherMethodsKeepEvidence ==
    ASSUME NEW a, Tidy(a)
    PROVE  /\ \A turn : KeepsEvidence(a, RecordConfirmed(a, turn))
           /\ \A turn : KeepsEvidence(a, CreatePending(a, turn))
           /\ \A effects : KeepsEvidence(a, ObserveLaterEffects(a, effects))
           /\ \A retain : KeepsEvidence(a, SetHistoryRetention(a, retain))
<1>0. DOMAIN a = Fields /\ DOMAIN a.queuedEvidence \subseteq Pending(a)
  BY DEF Tidy, Typed, Housekept
<1>1. ASSUME NEW turn PROVE KeepsEvidence(a, RecordConfirmed(a, turn))
  <2> DEFINE b == [a EXCEPT !.nextTurnId = @ + 1]
             c == InsertConfirmed(b, a.nextTurnId, turn)
             d == ReleaseConfirmedBeyondObligation(c)
  <2>1. DOMAIN b = Fields /\ b.queuedEvidence = a.queuedEvidence
    BY <1>0, FieldsAre DEF FieldNames
  <2> HIDE DEF b
  <2>2. DOMAIN c = Fields /\ c.queuedEvidence = a.queuedEvidence
    BY <2>1, InsertConfirmedFrame
  <2> HIDE DEF c
  <2>3. d.queuedEvidence = a.queuedEvidence
    BY <2>2, ReleaseConfirmedFrame
  <2> HIDE DEF d
  <2>4. RecordConfirmed(a, turn) = d
    BY DEF RecordConfirmed, b, c, d
  <2> QED BY <1>0, <2>3, <2>4, SameEvidenceIsKept
<1>2. ASSUME NEW turn PROVE KeepsEvidence(a, CreatePending(a, turn))
  BY <1>0, CreatePendingClaims, SameEvidenceIsKept
<1>3. ASSUME NEW effects PROVE KeepsEvidence(a, ObserveLaterEffects(a, effects))
  <2>1. CASE Pending(a) = {} \/ effects = <<>>
    <3>1. ObserveLaterEffects(a, effects) = a
      BY <2>1 DEF ObserveLaterEffects
    <3> QED BY <1>0, <3>1, SameEvidenceIsKept
  <2>2. CASE Pending(a) # {} /\ effects # <<>>
    BY <1>0, <2>2, ObserveLaterFrame, SameEvidenceIsKept
  <2> QED BY <2>1, <2>2
<1>4. ASSUME NEW retain PROVE KeepsEvidence(a, SetHistoryRetention(a, retain))
  <2> DEFINE b == [a EXCEPT !.historyRetain = retain]
             c == ReleaseConfirmedBeyondObligation(b)
  <2>1. DOMAIN b = Fields /\ b.queuedEvidence = a.queuedEvidence
    BY <1>0, FieldsAre DEF FieldNames
  <2> HIDE DEF b
  <2>2. c.queuedEvidence = a.queuedEvidence
    BY <2>1, ReleaseConfirmedFrame
  <2> HIDE DEF c
  <2>3. SetHistoryRetention(a, retain) = c
    BY DEF SetHistoryRetention, b, c
  <2> QED BY <1>0, <2>2, <2>3, SameEvidenceIsKept
<1> QED BY <1>1, <1>2, <1>3, <1>4

Latched(a) == \A p \in DOMAIN a.queuedEvidence : Keyed(a.queuedEvidence[p])

(* What QueuedEvidenceLatches says of one step.                            *)
Latches(a, b) ==
    \A p \in Pending(a) \cap Pending(b) :
        /\ Keyed(Retained(b, p)) /\ Keyed(Retained(a, p))
        /\ Extends(Retained(a, p), Retained(b, p))

LEMMA NothingRetainedIsKeyed == Keyed(<<>>) /\ \A list : Keyed(list) => Extends(list, list)
<1>1. <<>> \in Seq(Effect) /\ Len(<<>>) = 0 /\ 1 .. 0 = {}
  OBVIOUS
<1>2. Keyed(<<>>)
  BY <1>1 DEF Keyed
<1>3. ASSUME NEW list, Keyed(list) PROVE Extends(list, list)
  BY <1>3 DEF Keyed, Extends
<1> QED BY <1>2, <1>3

LEMMA KeptEvidenceLatches ==
    ASSUME NEW a, Latched(a), NEW b, KeepsEvidence(a, b)
    PROVE  Latched(b) /\ Latches(a, b)
<1>1. Latched(b)
  BY DEF KeepsEvidence, Latched
<1>2. ASSUME NEW p \in Pending(a) \cap Pending(b)
      PROVE  Retained(b, p) = Retained(a, p) /\ Keyed(Retained(a, p))
  BY NothingRetainedIsKeyed DEF KeepsEvidence, Latched, Retained
<1> QED BY <1>1, <1>2, NothingRetainedIsKeyed DEF Latches

LEMMA ObserveQueuedLatches ==
    ASSUME NEW a, Tidy(a), Latched(a), NEW id, NEW queued \in Seq(Effect)
    PROVE  LET b == ObserveQueuedEffects(a, id, queued) IN Latched(b) /\ Latches(a, b)
<1> DEFINE b == ObserveQueuedEffects(a, id, queued)
<1>0. DOMAIN a = Fields /\ DOMAIN a.queuedEvidence \subseteq Pending(a)
  BY DEF Tidy, Typed, Housekept
<1>1. CASE id \notin Pending(a) \/ queued = <<>>
  <2>1. b = a
    BY <1>1 DEF ObserveQueuedEffects
  <2> QED BY <1>0, <2>1, SameEvidenceIsKept, KeptEvidenceLatches
<1>2. CASE id \in Pending(a) /\ queued # <<>>
  <2> DEFINE all == PutAll(Retained(a, id), queued)
  <2>1. Keyed(Retained(a, id))
    BY NothingRetainedIsKeyed DEF Latched, Retained
  <2>2. Keyed(all) /\ Extends(Retained(a, id), all)
    BY <2>1, PutAllExtends
  <2> HIDE DEF all
  <2>3. b.queuedEvidence = SetKey(a.queuedEvidence, id, all) /\ b.pendingTurns = a.pendingTurns
    BY <1>0, <1>2, FieldsAre DEF FieldNames, ObserveQueuedEffects, all
  <2> HIDE DEF b
  <2>4. /\ DOMAIN b.queuedEvidence = DOMAIN a.queuedEvidence \cup {id}
        /\ b.queuedEvidence[id] = all
        /\ \A p \in DOMAIN a.queuedEvidence : p # id => b.queuedEvidence[p] = a.queuedEvidence[p]
    BY <2>3 DEF SetKey
  <2>5. Latched(b)
    BY <2>2, <2>4 DEF Latched
  <2>6. \A p : p # id => Retained(b, p) = Retained(a, p)
    BY <2>4 DEF Retained
  <2>7. Retained(b, id) = all
    BY <2>4 DEF Retained
  <2>8. \A p : Keyed(Retained(a, p))
    BY NothingRetainedIsKeyed DEF Latched, Retained
  <2>9. Latches(a, b)
    BY <2>2, <2>6, <2>7, <2>8, NothingRetainedIsKeyed DEF Latches
  <2> QED BY <2>5, <2>9 DEF b
<1> QED BY <1>1, <1>2

(* Evidence read from the queue before delivery latches: while its turn is *)
(* pending no entry leaves or moves, whatever is read and settled later,   *)
(* and reading the same queue again adds nothing, for lists of any length. *)
THEOREM QueuedEvidenceAlwaysLatches == Spec => QueuedEvidenceLatches
<1> DEFINE Inv == Sound(authority) /\ Tidy(authority) /\ Latched(authority)
<1>1. Init => Latched(authority)
  <2> SUFFICES ASSUME Init PROVE Latched(authority)
    OBVIOUS
  <2>1. DOMAIN authority.queuedEvidence = {}
    BY DEF Init, InitialAuthority, EmptyMap
  <2> QED BY <2>1 DEF Latched
<1>2. Inv /\ Next => Latched(authority)' /\ Latches(authority, authority')
  <2> SUFFICES ASSUME Inv, Next
               PROVE  Latched(authority)' /\ Latches(authority, authority')
    OBVIOUS
  <2>1. CASE DoRecordConfirmed
    BY <2>1, OtherMethodsKeepEvidence, KeptEvidenceLatches DEF DoRecordConfirmed
  <2>2. CASE DoCreatePending
    BY <2>2, OtherMethodsKeepEvidence, KeptEvidenceLatches DEF DoCreatePending
  <2>3. CASE DoObserveLaterEffects
    BY <2>3, OtherMethodsKeepEvidence, KeptEvidenceLatches DEF DoObserveLaterEffects
  <2>4. CASE DoObserveQueuedEffects
    <3>1. \A queued \in QueuedLists : queued \in Seq(Effect)
      BY EffectListsAssumption
    <3> QED BY <2>4, <3>1, ObserveQueuedLatches DEF DoObserveQueuedEffects
  <2>5. CASE DoConfirmPending
    BY <2>5, SettlingKeepsEvidence, KeptEvidenceLatches DEF DoConfirmPending
  <2>6. CASE DoDiscardPending
    BY <2>6, SettlingKeepsEvidence, KeptEvidenceLatches DEF DoDiscardPending
  <2>7. CASE DoSetHistoryRetention
    BY <2>7, OtherMethodsKeepEvidence, KeptEvidenceLatches DEF DoSetHistoryRetention
  <2>8. CASE DoDestroy
    <3>1. authority' = ReleaseOnDestroy(authority) /\ Typed(authority)
      BY <2>8 DEF DoDestroy, Tidy
    <3>2. Tidy(authority')
      BY <3>1, ReleaseOnDestroyRetains
    <3>3. Pending(authority') = {}
      BY <3>1, NothingPendingAfterDestroy
    <3> QED BY <3>2, <3>3 DEF Tidy, Housekept, Latched, Latches
  <2> QED BY <2>1, <2>2, <2>3, <2>4, <2>5, <2>6, <2>7, <2>8 DEF Next
<1>3. Latched(authority) /\ UNCHANGED vars => Latched(authority)'
  BY DEF vars, Latched
<1>4. Latches(authority, authority') =>
        \A p \in Pending(authority) \cap Pending(authority)' :
            LET old == Retained(authority, p)
                new == Retained(authority, p)'
            IN  /\ Len(old) <= Len(new)
                /\ \A i \in DOMAIN old : EvidenceKey(old[i]) = EvidenceKey(new[i])
                /\ \A i, j \in DOMAIN new :
                        EvidenceKey(new[i]) = EvidenceKey(new[j]) => i = j
  BY DEF Latches, Keyed, Extends, Pending, Retained
<1> QED BY <1>1, <1>2, <1>3, <1>4, TidyAlways, AuthorityIsSound, PTL
        DEF Spec, QueuedEvidenceLatches
=============================================================================
