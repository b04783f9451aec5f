---------------------- MODULE CommitConsequenceProofs -----------------------
(***************************************************************************)
(* What holds of the gate for every set of keys and listeners, every bound *)
(* and with re-entrant consequences: its type, that nothing is stranded    *)
(* behind a tree that has settled, that only committed work runs, and that *)
(* a consequence is in one list until its fate is decided, once and for    *)
(* all, and in none afterwards.                                            *)
(***************************************************************************)
EXTENDS CommitConsequence, SequenceTheorems, FiniteSetTheorems, TLAPS

-----------------------------------------------------------------------------
(* Lists, histories and the stack                                          *)

(* What counts from one with entries of a set is a sequence over it.       *)
LEMMA EntriesMakeASequence ==
    ASSUME NEW S, NEW n \in Nat, NEW f \in [1..n -> S]
    PROVE  f \in Seq(S) /\ Len(f) = n
  OBVIOUS

(* A list gains nothing but the consequence put in it.                     *)
LEMMA PutTyped ==
    ASSUME NEW list \in Seq(Consequence), NEW c \in Consequence
    PROVE  /\ Put(list, c) \in Seq(Consequence)
           /\ \A i \in DOMAIN Put(list, c) :
                 Put(list, c)[i] = c \/ \E j \in DOMAIN list : Put(list, c)[i] = list[j]
<1>1. CASE \E i \in DOMAIN list : list[i].key = c.key
  BY <1>1 DEF Put
<1>2. CASE ~\E i \in DOMAIN list : list[i].key = c.key
  BY <1>2 DEF Put
<1> QED  BY <1>1, <1>2

(* Recording what became of consequences changes nobody's attribution.     *)
LEMMA BecomeTyped ==
    ASSUME fate \in Seq([by : Nat, is : Fate]), NEW those, NEW is \in Fate
    PROVE  /\ Become(those, is) \in Seq([by : Nat, is : Fate])
           /\ DOMAIN Become(those, is) = DOMAIN fate
           /\ Len(Become(those, is)) = Len(fate)
           /\ \A s \in DOMAIN fate : Become(those, is)[s].by = fate[s].by
           /\ \A s \in DOMAIN fate : Become(those, is)[s].is \in {fate[s].is, is}
           /\ \A s \in DOMAIN fate : s \notin those => Become(those, is)[s] = fate[s]
<1>1. DOMAIN Become(those, is) = 1..Len(fate) /\ Len(fate) \in Nat
  BY DEF Become
<1>2. ASSUME NEW s \in DOMAIN fate
      PROVE  /\ Become(those, is)[s] \in [by : Nat, is : Fate]
             /\ Become(those, is)[s].by = fate[s].by
             /\ Become(those, is)[s].is \in {fate[s].is, is}
             /\ s \notin those => Become(those, is)[s] = fate[s]
  <2>1. fate[s] \in [by : Nat, is : Fate]
    BY ElementOfSeq, <1>1 DEF Become
  <2>2. CASE s \in those
    <3>1. Become(those, is)[s] = [fate[s] EXCEPT !.is = is]
      BY <2>2 DEF Become
    <3> QED  BY <2>1, <2>2, <3>1
  <2>3. CASE s \notin those
    <3>1. Become(those, is)[s] = fate[s]
      BY <2>3 DEF Become
    <3> QED  BY <2>1, <3>1
  <2> QED  BY <2>2, <2>3
<1>3. Become(those, is) \in [1..Len(fate) -> [by : Nat, is : Fate]]
  BY <1>1, <1>2 DEF Become
<1>4. Become(those, is) \in Seq([by : Nat, is : Fate]) /\ Len(Become(those, is)) = Len(fate)
  BY <1>1, <1>3, EntriesMakeASequence
<1> QED  BY <1>1, <1>2, <1>4

(* Scheduling adds one entry to the history.                               *)
LEMMA SupersedeTyped ==
    ASSUME fate \in Seq([by : Nat, is : Fate]), NEW list, NEW key, NEW by \in Nat,
           Supersede(list, key, by)
    PROVE  /\ fate' \in Seq([by : Nat, is : Fate])
           /\ Len(fate') = Len(fate) + 1
           /\ \A s \in DOMAIN fate : s \in DOMAIN fate' /\ fate'[s].by = fate[s].by
           /\ Len(fate) + 1 \in DOMAIN fate'
           /\ fate'[Len(fate) + 1].by = by
           /\ \A s \in DOMAIN fate : fate'[s].is = fate[s].is \/ fate'[s].is = "replaced"
<1> DEFINE rest == OfKey(list, key)
           past == Become(rest, "replaced")
<1>1. /\ past \in Seq([by : Nat, is : Fate])
      /\ Len(past) = Len(fate)
      /\ \A s \in DOMAIN fate : past[s].by = fate[s].by
      /\ \A s \in DOMAIN fate : past[s].is \in {fate[s].is, "replaced"}
  <2>1. "replaced" \in Fate
    BY DEF Fate
  <2> HIDE DEF rest
  <2> QED  BY BecomeTyped, <2>1
<1>3. fate' = Append(past, [by |-> by, is |-> "waiting"])
  BY DEF Supersede
<1>4. [by |-> by, is |-> "waiting"] \in [by : Nat, is : Fate]
  BY DEF Fate
<1> HIDE DEF past
<1> QED  BY <1>1, <1>3, <1>4

(* The innermost frame, the ones below it, and its replacement.            *)
LEMMA StackTyped ==
    ASSUME frames \in Seq(Frame), frames # <<>>
    PROVE  /\ Len(frames) \in Nat \ {0}
           /\ Len(frames) \in DOMAIN frames /\ Top = frames[Len(frames)]
           /\ Top \in Frame
           /\ Below \in Seq(Frame)
           /\ Len(Below) = Len(frames) - 1
           /\ \A i \in DOMAIN Below : i \in DOMAIN frames /\ Below[i] = frames[i]
           /\ \A f \in Frame :
                 /\ Replace(f) \in Seq(Frame)
                 /\ Len(Replace(f)) = Len(frames)
                 /\ DOMAIN Replace(f) = DOMAIN frames
                 /\ Replace(f)[Len(frames)] = f
                 /\ \A i \in DOMAIN frames : i # Len(frames) => Replace(f)[i] = frames[i]
<1>1. /\ Len(frames) \in Nat \ {0} /\ Top \in Frame
      /\ Len(frames) \in DOMAIN frames /\ Top = frames[Len(frames)]
      /\ DOMAIN frames = 1..Len(frames)
  BY DEF Top
<1>2. /\ Below \in Seq(Frame)
      /\ Len(Below) = Len(frames) - 1
      /\ \A i \in DOMAIN Below : i \in DOMAIN frames /\ Below[i] = frames[i]
  <2> DEFINE n == Len(frames) - 1
  <2>1. n \in Nat /\ n \in Int /\ 1 \in Int /\ \A i \in 1..n : frames[i] \in Frame
    BY <1>1
  <2>2. /\ SubSeq(frames, 1, n) \in Seq(Frame)
        /\ Len(SubSeq(frames, 1, n)) = IF 1 <= n THEN n - 1 + 1 ELSE 0
        /\ \A i \in 1..(n - 1 + 1) : SubSeq(frames, 1, n)[i] = frames[1 + i - 1]
    <3> HIDE DEF n
    <3> QED  BY <2>1, SubSeqProperties
  <2>3. DOMAIN SubSeq(frames, 1, n) = 1..n
    BY <2>1, <2>2
  <2>4. n - 1 + 1 = n /\ \A i \in 1..n : i \in DOMAIN frames /\ 1 + i - 1 = i
    BY <1>1
  <2>5. Len(SubSeq(frames, 1, n)) = n
    BY <2>1, <2>2, <2>4
  <2>6. \A i \in 1..n : SubSeq(frames, 1, n)[i] = frames[i]
    <3> HIDE DEF n
    <3> QED  BY <2>2, <2>4
  <2> HIDE DEF n
  <2>7. Below = SubSeq(frames, 1, n)
    BY DEF Below, n
  <2>8. \A i \in 1..n : i \in DOMAIN frames
    BY <2>4
  <2>9. /\ Below \in Seq(Frame)
        /\ Len(Below) = n
        /\ \A i \in DOMAIN Below : i \in DOMAIN frames /\ Below[i] = frames[i]
    BY <2>2, <2>3, <2>5, <2>6, <2>7, <2>8, Zenon
  <2> QED  BY <2>9 DEF n
<1>3. ASSUME NEW f \in Frame
      PROVE  /\ Replace(f) \in Seq(Frame)
             /\ Len(Replace(f)) = Len(frames)
             /\ DOMAIN Replace(f) = DOMAIN frames
             /\ Replace(f)[Len(frames)] = f
             /\ \A i \in DOMAIN frames : i # Len(frames) => Replace(f)[i] = frames[i]
  <2>1. /\ Append(Below, f) \in Seq(Frame)
        /\ Len(Append(Below, f)) = Len(Below) + 1
        /\ \A i \in 1..Len(Below) : Append(Below, f)[i] = Below[i]
        /\ Append(Below, f)[Len(Below) + 1] = f
    BY <1>2, AppendProperties
  <2>2. \A m, n \in Nat : n = m - 1 => n + 1 = m /\ \A i \in 1..m : i # m => i \in 1..n
    OBVIOUS
  <2>3. \A s \in Seq(Frame) : DOMAIN s = 1..Len(s) /\ Len(s) \in Nat
    OBVIOUS
  <2>4. /\ Len(Below) + 1 = Len(frames)
        /\ \A i \in DOMAIN frames : i # Len(frames) => i \in 1..Len(Below)
    BY <1>1, <1>2, <2>2, <2>3, Zenon
  <2>5. DOMAIN Append(Below, f) = DOMAIN frames
    BY <1>1, <2>1, <2>3, <2>4, Zenon
  <2>6. \A i \in DOMAIN frames : i # Len(frames) => Append(Below, f)[i] = frames[i]
    BY <1>2, <2>1, <2>3, <2>4, Zenon
  <2>7. Len(Append(Below, f)) = Len(frames) /\ Append(Below, f)[Len(frames)] = f
    BY <2>1, <2>4, Zenon
  <2> QED  BY <2>1, <2>5, <2>6, <2>7, Zenon DEF Replace
<1> QED  BY <1>1, <1>2, <1>3

(* A frame is of one of three phases.                                      *)
LEMMA FrameKinds ==
    ASSUME NEW f \in Frame
    PROVE  /\ f.phase \in {"own", "held", "listeners"}
           /\ f.phase # "listeners" => f.todo \in Seq(Consequence)
           /\ f.phase = "listeners" => f.todo \subseteq Listener
           /\ DOMAIN f = {"phase", "todo", "since"}
<1>1. CASE f \in [phase : {"own", "held"}, todo : Seq(Consequence), since : Nat]
  <2>1. f.phase \in {"own", "held"} /\ f.todo \in Seq(Consequence)
    BY <1>1
  <2>2. DOMAIN f = {"phase", "todo", "since"}
    BY <1>1
  <2> QED  BY <2>1, <2>2
<1>2. CASE f \in [phase : {"listeners"}, todo : SUBSET Listener, since : Nat]
  BY <1>2
<1> QED  BY <1>1, <1>2 DEF Frame

-----------------------------------------------------------------------------
(* A gate is the record of its four fields.                                *)
LEMMA GateFields ==
    ASSUME NEW g, DOMAIN g = {"open", "own", "held", "listeners"}
    PROVE  /\ \A v : /\ [g EXCEPT !.held = v].held = v
                     /\ [g EXCEPT !.held = v].open = g.open
                     /\ [g EXCEPT !.held = v].own = g.own
                     /\ [g EXCEPT !.held = v].listeners = g.listeners
                     /\ DOMAIN [g EXCEPT !.held = v] = DOMAIN g
           /\ \A v : /\ [g EXCEPT !.own = v].own = v
                     /\ [g EXCEPT !.own = v].open = g.open
                     /\ [g EXCEPT !.own = v].held = g.held
                     /\ [g EXCEPT !.own = v].listeners = g.listeners
                     /\ DOMAIN [g EXCEPT !.own = v] = DOMAIN g
           /\ \A v : /\ [g EXCEPT !.listeners = v].listeners = v
                     /\ [g EXCEPT !.listeners = v].open = g.open
                     /\ [g EXCEPT !.listeners = v].own = g.own
                     /\ [g EXCEPT !.listeners = v].held = g.held
                     /\ DOMAIN [g EXCEPT !.listeners = v] = DOMAIN g
           /\ \A v, w : /\ [g EXCEPT !.open = v, !.own = w].open = v
                        /\ [g EXCEPT !.open = v, !.own = w].own = w
                        /\ [g EXCEPT !.open = v, !.own = w].held = g.held
                        /\ [g EXCEPT !.open = v, !.own = w].listeners = g.listeners
                        /\ DOMAIN [g EXCEPT !.open = v, !.own = w] = DOMAIN g
  OBVIOUS

-----------------------------------------------------------------------------
(* The inductive invariant                                                 *)

(* In history f, consequence s was scheduled by transaction id; so was     *)
(* everything in a list; everything in it is nobody's or was committed.    *)
By(f, s, id) == s \in DOMAIN f /\ f[s].by = id
AllBy(f, list, id) == \A j \in DOMAIN list : By(f, list[j].serial, id)
Cleared(f, o, list) ==
    \A j \in DOMAIN list :
       \/ By(f, list[j].serial, NoScope)
       \/ \E id \in DOMAIN o : By(f, list[j].serial, id) /\ o[id] = "commit"

(* Every list holds the work of those it is for: an open scope its own,    *)
(* the tree's list nobody's, and a settlement what was committed.          *)
Attributed ==
    /\ \A id \in gate.open : outcome[id] = "open" /\ AllBy(fate, gate.own[id], id)
    /\ AllBy(fate, gate.held, NoScope)
    /\ \A i \in DOMAIN frames :
          frames[i].phase # "listeners" => Cleared(fate, outcome, frames[i].todo)

(* History g continues f, and what was committed in o is in p.             *)
Grows(f, g) == \A s \in DOMAIN f : s \in DOMAIN g /\ g[s].by = f[s].by
Commits(o, p) ==
    \A id \in DOMAIN o : o[id] = "commit" => id \in DOMAIN p /\ p[id] = "commit"

LEMMA AllByGrows ==
    ASSUME NEW f, NEW g, Grows(f, g), NEW list, NEW id, AllBy(f, list, id)
    PROVE  AllBy(g, list, id)
  BY DEF Grows, AllBy, By

LEMMA ClearedGrows ==
    ASSUME NEW f, NEW g, Grows(f, g), NEW o, NEW p, Commits(o, p),
           NEW list, Cleared(f, o, list)
    PROVE  Cleared(g, p, list)
  BY DEF Grows, Commits, Cleared, By

GateInv == TypeOK /\ NoStrandedHold /\ Attributed

(* The empty gate satisfies it.                                            *)
LEMMA InitialGateInv == Init => GateInv
<1> SUFFICES ASSUME Init PROVE GateInv
  OBVIOUS
<1>1. /\ DOMAIN gate = {"open", "own", "held", "listeners"}
      /\ gate.open = {} /\ gate.own = <<>> /\ gate.held = <<>> /\ gate.listeners = {}
  BY DEF Init, InitialGate
<1>2. TypeOK
  <2>1. gate.open \subseteq 1..Len(outcome) /\ gate.listeners \subseteq Listener
    BY <1>1
  <2>2. DOMAIN gate.own = gate.open
    BY <1>1
  <2>3. \A id \in gate.open : gate.own[id] \in Seq(Consequence)
    BY <1>1
  <2>4. gate.held \in Seq(Consequence) /\ frames \in Seq(Frame)
    BY <1>1, EmptySeq DEF Init
  <2>5. /\ outcome \in Seq({"open", "commit", "discard", "cancelled"})
        /\ fate \in Seq([by : Nat, is : Fate])
        /\ torn \in BOOLEAN
    BY EmptySeq DEF Init
  <2> QED  BY <1>1, <2>1, <2>2, <2>3, <2>4, <2>5 DEF TypeOK
<1>3. NoStrandedHold /\ Attributed
  BY <1>1 DEF Init, NoStrandedHold, Attributed, AllBy
<1> QED  BY <1>2, <1>3 DEF GateInv

-----------------------------------------------------------------------------
(* Each action preserves it                                                *)

(* The attribution of whatever an action leaves alone.                     *)
LEMMA AttributionStays ==
    ASSUME GateInv, Grows(fate, fate'), Commits(outcome, outcome')
    PROVE  /\ \A id \in gate.open : AllBy(fate', gate.own[id], id)
           /\ AllBy(fate', gate.held, NoScope)
           /\ \A i \in DOMAIN frames : frames[i].phase # "listeners"
                 => Cleared(fate', outcome', frames[i].todo)
  BY AllByGrows, ClearedGrows DEF GateInv, Attributed

LEMMA OpenScopeKeeps == GateInv /\ OpenScope => GateInv'
<1> SUFFICES ASSUME GateInv, OpenScope PROVE GateInv'
  OBVIOUS
<1> DEFINE id == Len(outcome) + 1
<1>1. /\ DOMAIN gate' = DOMAIN gate
      /\ gate'.open = gate.open \cup {id}
      /\ gate'.own = [i \in gate.open \cup {id} |-> IF i = id THEN <<>> ELSE gate.own[i]]
      /\ gate'.held = gate.held /\ gate'.listeners = gate.listeners
  BY GateFields DEF OpenScope, Opened, GateInv, TypeOK
<1>2. /\ outcome' \in Seq({"open", "commit", "discard", "cancelled"})
      /\ Len(outcome') = Len(outcome) + 1 /\ Len(outcome) \in Nat
      /\ outcome'[id] = "open"
      /\ \A i \in DOMAIN outcome : i \in DOMAIN outcome' /\ outcome'[i] = outcome[i]
      /\ gate.open \subseteq DOMAIN outcome
  BY DEF OpenScope, GateInv, TypeOK
<1>3. UNCHANGED <<frames, fate, torn>>
  BY DEF OpenScope
<1>4. Grows(fate, fate') /\ Commits(outcome, outcome')
  BY <1>2, <1>3 DEF Grows, Commits
<1>5. TypeOK'
  <2>1. gate'.open \subseteq 1..Len(outcome')
    BY <1>1, <1>2 DEF GateInv, TypeOK
  <2> HIDE DEF id
  <2>2. \A i \in gate'.open : gate'.own[i] \in Seq(Consequence)
    BY <1>1, EmptySeq DEF GateInv, TypeOK
  <2> QED  BY <1>1, <1>2, <1>3, <2>1, <2>2 DEF GateInv, TypeOK
<1> HIDE DEF id
<1>6. NoStrandedHold'
  BY <1>1, <1>3 DEF GateInv, NoStrandedHold
<1>7. Attributed'
  <2>1. \A i \in gate'.open : outcome'[i] = "open"
    BY <1>1, <1>2 DEF GateInv, Attributed
  <2>2. AllBy(fate', <<>>, id)
    BY DEF AllBy
  <2>3. \A i \in gate'.open : AllBy(fate', gate'.own[i], i)
    BY <1>1, <1>4, <2>2, AttributionStays
  <2> QED  BY <1>1, <1>3, <1>4, <2>1, <2>3, AttributionStays DEF Attributed
<1> QED  BY <1>5, <1>6, <1>7 DEF GateInv

(* Putting a new consequence in a list of its own transaction, or of       *)
(* nobody's.                                                               *)
LEMMA PutAttributed ==
    ASSUME NEW list \in Seq(Consequence), NEW c \in Consequence, NEW id,
           AllBy(fate', list, id), By(fate', c.serial, id)
    PROVE  AllBy(fate', Put(list, c), id)
  BY PutTyped DEF AllBy

LEMMA DeferInScopeKeeps ==
    ASSUME GateInv, NEW key \in Key, NEW id \in gate.open, DeferInScope(key, id)
    PROVE  GateInv'
<1> DEFINE c == Scheduled(key)
           list == gate.own[id]
<1>1. Len(fate) \in Nat /\ id \in Nat /\ list \in Seq(Consequence)
  BY DEF GateInv, TypeOK
<1>2. c \in Consequence /\ c.serial = Len(fate) + 1
  BY <1>1 DEF Scheduled, Consequence
<1>3. /\ DOMAIN gate' = DOMAIN gate
      /\ gate'.open = gate.open
      /\ gate'.own = [gate.own EXCEPT ![id] = Put(list, c)]
      /\ gate'.held = gate.held /\ gate'.listeners = gate.listeners
  BY DEF DeferInScope, Deferred, GateInv, TypeOK
<1>4. /\ fate' \in Seq([by : Nat, is : Fate])
      /\ Grows(fate, fate')
      /\ By(fate', c.serial, id)
  BY <1>1, <1>2, SupersedeTyped DEF DeferInScope, GateInv, TypeOK, Grows, By
<1>5. UNCHANGED <<frames, outcome, torn>> /\ Commits(outcome, outcome')
  BY DEF DeferInScope, Commits
<1> HIDE DEF c, list
<1>6. TypeOK'
  <2>1. Put(list, c) \in Seq(Consequence)
    BY <1>1, <1>2, PutTyped
  <2> QED  BY <1>3, <1>4, <1>5, <2>1 DEF GateInv, TypeOK
<1>7. NoStrandedHold'
  BY <1>3, <1>5 DEF GateInv, NoStrandedHold
<1>8. Attributed'
  <2>1. AllBy(fate', Put(list, c), id)
    BY <1>1, <1>2, <1>4, <1>5, AttributionStays, PutAttributed DEF list
  <2>2. \A i \in gate'.open : AllBy(fate', gate'.own[i], i)
    BY <1>3, <1>4, <1>5, <2>1, AttributionStays DEF GateInv, TypeOK
  <2>3. \A i \in gate'.open : outcome'[i] = "open"
    BY <1>3, <1>5 DEF GateInv, Attributed
  <2> QED  BY <1>3, <1>4, <1>5, <2>2, <2>3, AttributionStays DEF Attributed
<1> QED  BY <1>6, <1>7, <1>8 DEF GateInv

LEMMA HoldForTreeKeeps ==
    ASSUME GateInv, NEW key \in Key, HoldForTree(key)
    PROVE  GateInv'
<1> DEFINE c == Scheduled(key)
<1>1. Len(fate) \in Nat /\ gate.held \in Seq(Consequence)
  BY DEF GateInv, TypeOK
<1>2. c \in Consequence /\ c.serial = Len(fate) + 1
  BY <1>1 DEF Scheduled, Consequence
<1>3. /\ DOMAIN gate' = DOMAIN gate
      /\ gate'.open = gate.open /\ gate.open # {}
      /\ gate'.own = gate.own
      /\ gate'.held = Put(gate.held, c)
      /\ gate'.listeners = gate.listeners
  BY DEF HoldForTree, HeldBack, GateInv, TypeOK
<1>4. /\ fate' \in Seq([by : Nat, is : Fate])
      /\ Grows(fate, fate')
      /\ By(fate', c.serial, NoScope)
  BY <1>1, <1>2, SupersedeTyped, NoScope \in Nat
     DEF HoldForTree, GateInv, TypeOK, Grows, By, NoScope
<1>5. UNCHANGED <<frames, outcome, torn>> /\ Commits(outcome, outcome')
  BY DEF HoldForTree, Commits
<1> HIDE DEF c
<1>6. TypeOK'
  <2>1. Put(gate.held, c) \in Seq(Consequence)
    BY <1>1, <1>2, PutTyped
  <2> QED  BY <1>3, <1>4, <1>5, <2>1 DEF GateInv, TypeOK
<1>7. NoStrandedHold'
  BY <1>3 DEF NoStrandedHold
<1>8. Attributed'
  <2>1. AllBy(fate', Put(gate.held, c), NoScope)
    BY <1>1, <1>2, <1>4, <1>5, AttributionStays, PutAttributed
  <2>2. \A i \in gate'.open : outcome'[i] = "open"
    BY <1>3, <1>5 DEF GateInv, Attributed
  <2> QED  BY <1>3, <1>4, <1>5, <2>1, <2>2, AttributionStays DEF Attributed
<1> QED  BY <1>6, <1>7, <1>8 DEF GateInv

LEMMA RunNowKeeps ==
    ASSUME GateInv, NEW key \in Key, RunNow(key)
    PROVE  GateInv'
<1>1. UNCHANGED <<gate, frames, outcome, torn>> /\ Commits(outcome, outcome')
  BY DEF RunNow, Commits
<1>2. fate' \in Seq([by : Nat, is : Fate]) /\ Grows(fate, fate')
  <2>1. [by |-> NoScope, is |-> "ran"] \in [by : Nat, is : Fate]
    BY DEF NoScope, Fate
  <2> QED  BY <2>1 DEF RunNow, GateInv, TypeOK, Grows
<1>3. TypeOK'
  BY <1>1, <1>2 DEF GateInv, TypeOK
<1>4. NoStrandedHold'
  BY <1>1 DEF GateInv, NoStrandedHold
<1>5. Attributed'
  <2>1. \A i \in gate'.open : outcome'[i] = "open"
    BY <1>1 DEF GateInv, Attributed
  <2> QED  BY <1>1, <1>2, <2>1, AttributionStays DEF Attributed
<1> QED  BY <1>3, <1>4, <1>5 DEF GateInv

(* The frame a settlement pushes stands behind whatever waits, and has     *)
(* work of its own only if the transaction committed.                      *)
LEMMA SettleKeeps ==
    ASSUME GateInv, NEW id \in gate.open, NEW how \in {"commit", "discard"},
           Settle(id, how)
    PROVE  GateInv'
<1> DEFINE f == [phase |-> "own", todo |-> OwnWork(gate, id, how), since |-> Len(outcome)]
<1>1. /\ DOMAIN gate' = DOMAIN gate
      /\ gate'.open = gate.open \ {id}
      /\ gate'.own = [i \in gate.open \ {id} |-> gate.own[i]]
      /\ gate'.held = gate.held /\ gate'.listeners = gate.listeners
  BY DEF Settle, Closed, GateInv, TypeOK
<1>2. /\ outcome' \in Seq({"open", "commit", "discard", "cancelled"})
      /\ Len(outcome') = Len(outcome) /\ DOMAIN outcome' = DOMAIN outcome
      /\ id \in DOMAIN outcome /\ gate.open \subseteq DOMAIN outcome
      /\ outcome[id] = "open" /\ outcome'[id] = how
      /\ \A i \in DOMAIN outcome : i # id => outcome'[i] = outcome[i]
  BY DEF Settle, GateInv, TypeOK, Attributed
<1>3. Commits(outcome, outcome')
  BY <1>2 DEF Commits
<1>4. fate' \in Seq([by : Nat, is : Fate]) /\ Grows(fate, fate')
  <2>1. CASE how = "commit"
    BY <2>1 DEF Settle, GateInv, TypeOK, Grows
  <2>2. CASE how # "commit"
    <3>1. fate' = Become(Serials(gate.own[id]), "dropped") /\ "dropped" \in Fate
      BY <2>2 DEF Settle, Fate
    <3> QED  BY <3>1, BecomeTyped DEF GateInv, TypeOK, Grows
  <2> QED  BY <2>1, <2>2
<1>5. OwnWork(gate, id, how) \in Seq(Consequence)
  BY EmptySeq DEF OwnWork, GateInv, TypeOK
<1>6. /\ f \in Frame /\ f.phase = "own" /\ f.todo = OwnWork(gate, id, how)
      /\ frames' = Append(frames, f) /\ frames \in Seq(Frame)
  BY <1>5 DEF Settle, Frame, GateInv, TypeOK
<1> HIDE DEF f
<1>7. /\ frames' \in Seq(Frame)
      /\ Len(frames') = Len(frames) + 1 /\ Len(frames) \in Nat
      /\ frames'[Len(frames) + 1] = f
      /\ \A i \in DOMAIN frames : i \in DOMAIN frames' /\ frames'[i] = frames[i]
      /\ DOMAIN frames' = DOMAIN frames \cup {Len(frames) + 1}
  BY <1>6
<1>8. torn' = torn
  BY DEF Settle
<1>9. TypeOK'
  <2>1. /\ gate'.open \subseteq 1..Len(outcome')
        /\ DOMAIN gate'.own = gate'.open
        /\ \A i \in gate'.open : gate'.own[i] \in Seq(Consequence)
    BY <1>1, <1>2 DEF GateInv, TypeOK
  <2> QED  BY <1>1, <1>2, <1>4, <1>7, <1>8, <2>1 DEF GateInv, TypeOK
<1>10. NoStrandedHold'
  BY <1>6, <1>7 DEF NoStrandedHold
<1>11. Attributed'
  <2>1. \A i \in gate'.open : outcome'[i] = "open" /\ AllBy(fate', gate'.own[i], i)
    BY <1>1, <1>2, <1>3, <1>4, AttributionStays DEF GateInv, Attributed
  <2>2. Cleared(fate', outcome', f.todo)
    <3>1. CASE how = "commit"
      BY <1>2, <1>3, <1>4, <1>6, <3>1, AttributionStays DEF OwnWork, AllBy, Cleared
    <3>2. CASE how # "commit"
      BY <1>6, <3>2 DEF OwnWork, Cleared
    <3> QED  BY <3>1, <3>2
  <2>3. \A i \in DOMAIN frames' : frames'[i].phase # "listeners"
           => Cleared(fate', outcome', frames'[i].todo)
    BY <1>3, <1>4, <1>7, <2>2, AttributionStays
  <2> QED  BY <1>1, <1>3, <1>4, <2>1, <2>3, AttributionStays DEF Attributed
<1> QED  BY <1>9, <1>10, <1>11 DEF GateInv

(* Replacing the innermost frame by one whose work is cleared.             *)
LEMMA ReplaceKeeps ==
    ASSUME GateInv, frames # <<>>, NEW f \in Frame, frames' = Replace(f),
           gate' = gate, outcome' = outcome, torn' = torn,
           fate' \in Seq([by : Nat, is : Fate]), Grows(fate, fate'),
           f.phase = "own" \/ Top.phase # "own",
           f.phase # "listeners" => Cleared(fate', outcome, f.todo)
    PROVE  GateInv'
<1>1. frames \in Seq(Frame)
  BY DEF GateInv, TypeOK
<1>2. /\ frames' \in Seq(Frame)
      /\ DOMAIN frames' = DOMAIN frames
      /\ Len(frames) \in DOMAIN frames /\ frames[Len(frames)] = Top
      /\ frames'[Len(frames)] = f
      /\ \A i \in DOMAIN frames : i # Len(frames) => frames'[i] = frames[i]
  <2>1. /\ Replace(f) \in Seq(Frame)
        /\ DOMAIN Replace(f) = DOMAIN frames
        /\ Len(frames) \in DOMAIN frames /\ frames[Len(frames)] = Top
        /\ Replace(f)[Len(frames)] = f
        /\ \A i \in DOMAIN frames : i # Len(frames) => Replace(f)[i] = frames[i]
    BY <1>1, StackTyped
  <2> QED  BY <2>1, Zenon
<1>3. Commits(outcome, outcome')
  BY DEF Commits
<1>4. TypeOK'
  BY <1>2 DEF GateInv, TypeOK
<1>5. NoStrandedHold'
  BY <1>2 DEF GateInv, NoStrandedHold
<1>6. Attributed'
  <2>1. \A i \in gate'.open : outcome'[i] = "open"
    BY DEF GateInv, Attributed
  <2>2. \A i \in DOMAIN frames' : frames'[i].phase # "listeners"
           => Cleared(fate', outcome', frames'[i].todo)
    BY <1>2, <1>3, AttributionStays
  <2> QED  BY <1>3, <2>1, <2>2, AttributionStays DEF Attributed
<1> QED  BY <1>4, <1>5, <1>6 DEF GateInv

(* What a frame still has to do was cleared.                               *)
LEMMA TailCleared ==
    ASSUME NEW f, NEW o, NEW list \in Seq(Consequence), list # <<>>, Cleared(f, o, list)
    PROVE  Cleared(f, o, Tail(list)) /\ Cleared(f, o, <<Head(list)>>)
<1>1. /\ Len(Tail(list)) = Len(list) - 1 /\ Len(list) \in Nat \ {0}
      /\ \A i \in 1..Len(Tail(list)) : Tail(list)[i] = list[i + 1]
      /\ DOMAIN Tail(list) = 1..Len(Tail(list)) /\ DOMAIN list = 1..Len(list)
      /\ Head(list) = list[1]
  BY HeadTailProperties
<1>2. \A i \in DOMAIN Tail(list) : i + 1 \in DOMAIN list
  BY <1>1
<1> QED  BY <1>1, <1>2 DEF Cleared

LEMMA RunNextKeeps ==
    ASSUME GateInv, NEW ok \in BOOLEAN, RunNext(ok)
    PROVE  GateInv'
<1> DEFINE f == [Top EXCEPT !.todo = Tail(@)]
<1>1. frames \in Seq(Frame) /\ frames # <<>> /\ Top.phase # "listeners" /\ Top.todo # <<>>
  BY DEF RunNext, GateInv, TypeOK
<1>2. /\ Top \in Frame /\ Len(frames) \in DOMAIN frames /\ Top = frames[Len(frames)]
  BY <1>1, StackTyped
<1>3. Top.todo \in Seq(Consequence) /\ Top \in [phase : {"own", "held"}, todo : Seq(Consequence), since : Nat]
  BY <1>1, <1>2 DEF Frame
<1>4. f \in Frame /\ f.phase = Top.phase /\ f.todo = Tail(Top.todo)
  <2>1. Tail(Top.todo) \in Seq(Consequence)
    BY <1>1, <1>3, HeadTailProperties
  <2> QED  BY <1>3, <2>1 DEF Frame
<1>5. /\ fate' \in Seq([by : Nat, is : Fate]) /\ Grows(fate, fate')
  <2>1. (IF ok THEN "ran" ELSE "failed") \in Fate
    BY DEF Fate
  <2> QED  BY <2>1, BecomeTyped DEF RunNext, GateInv, TypeOK, Grows
<1>6. frames' = Replace(f) /\ UNCHANGED <<gate, outcome, torn>>
  BY DEF RunNext
<1>7. Cleared(fate', outcome, Top.todo)
  BY <1>1, <1>2, <1>5, <1>6, AttributionStays DEF Commits
<1>8. Cleared(fate', outcome, f.todo)
  BY <1>1, <1>3, <1>4, <1>7, TailCleared
<1> HIDE DEF f
<1> QED  BY <1>1, <1>4, <1>5, <1>6, <1>8, ReplaceKeeps

LEMMA NotifyNextKeeps ==
    ASSUME GateInv, NotifyNext
    PROVE  GateInv'
<1>1. PICK l \in Top.todo : frames' = Replace([Top EXCEPT !.todo = @ \ {l}])
  BY DEF NotifyNext
<1> DEFINE f == [Top EXCEPT !.todo = @ \ {l}]
<1>2. frames \in Seq(Frame) /\ frames # <<>> /\ Top.phase = "listeners"
  BY DEF NotifyNext, GateInv, TypeOK
<1>3. Top \in Frame
  BY <1>2, StackTyped
<1>4. Top \in [phase : {"listeners"}, todo : SUBSET Listener, since : Nat]
  BY <1>2, <1>3 DEF Frame
<1>5. f \in Frame /\ f.phase = "listeners"
  BY <1>4 DEF Frame
<1>6. /\ UNCHANGED <<gate, outcome, torn>>
      /\ fate' \in Seq([by : Nat, is : Fate]) /\ Grows(fate, fate')
  BY DEF NotifyNext, GateInv, TypeOK, Grows
<1>7. frames' = Replace(f)
  BY <1>1
<1> HIDE DEF f
<1> QED  BY <1>2, <1>5, <1>6, <1>7, ReplaceKeeps

(* Returning to the frame below: the innermost one stood for nothing.      *)
LEMMA LeaveKeeps ==
    ASSUME GateInv, frames # <<>>, frames' = Below,
           UNCHANGED <<gate, outcome, fate, torn>>,
           gate.open # {} \/ Top.phase # "own"
    PROVE  GateInv'
<1>1. frames \in Seq(Frame)
  BY DEF GateInv, TypeOK
<1>2. /\ frames' \in Seq(Frame)
      /\ \A i \in DOMAIN frames' : i \in DOMAIN frames /\ frames'[i] = frames[i]
      /\ \A i \in DOMAIN frames : i # Len(frames) => i \in DOMAIN frames'
      /\ frames[Len(frames)] = Top
  <2>1. Below \in Seq(Frame) /\ Len(Below) = Len(frames) - 1 /\ Len(frames) \in Nat \ {0}
    BY <1>1, StackTyped
  <2>2. \A i \in DOMAIN frames : i # Len(frames) => i \in DOMAIN Below
    BY <1>1, <2>1
  <2> QED  BY <1>1, <2>1, <2>2, StackTyped
<1>3. TypeOK'
  BY <1>2 DEF GateInv, TypeOK
<1>4. NoStrandedHold'
  BY <1>2 DEF GateInv, NoStrandedHold
<1>5. Attributed'
  BY <1>2 DEF GateInv, Attributed
<1> QED  BY <1>3, <1>4, <1>5 DEF GateInv

(* Either another scope is open, and will look when it settles, or what    *)
(* waited is taken: nothing is left behind.                                *)
LEMMA ReleaseHeldKeeps ==
    ASSUME GateInv, ReleaseHeld
    PROVE  GateInv'
<1>1. /\ frames \in Seq(Frame) /\ frames # <<>> /\ Top.phase = "own"
      /\ UNCHANGED <<outcome, fate, torn>>
      /\ Grows(fate, fate') /\ Commits(outcome, outcome')
  BY DEF ReleaseHeld, GateInv, TypeOK, Grows, Commits
<1>2. CASE ~Releases(gate)
  <2>1. frames' = Below /\ gate' = gate /\ gate.open # {}
    BY <1>2 DEF ReleaseHeld, Releases
  <2> QED  BY <1>1, <2>1, LeaveKeeps
<1>3. CASE Releases(gate)
  <2> DEFINE f == [phase |-> "held", todo |-> gate.held, since |-> Len(outcome)]
  <2>1. /\ DOMAIN gate' = DOMAIN gate
        /\ gate'.open = gate.open /\ gate.open = {}
        /\ gate'.own = gate.own
        /\ gate'.held = <<>>
        /\ gate'.listeners = gate.listeners
    BY <1>3 DEF ReleaseHeld, Releases, Emptied, GateInv, TypeOK
  <2>2. f \in Frame /\ f.phase = "held" /\ f.todo = gate.held /\ frames' = Replace(f)
    BY <1>3 DEF ReleaseHeld, GateInv, TypeOK, Frame
  <2>3. Cleared(fate', outcome', f.todo)
    BY <1>1, <2>2, AttributionStays DEF AllBy, Cleared
  <2> HIDE DEF f
  <2>4. /\ frames' \in Seq(Frame)
        /\ DOMAIN frames' = DOMAIN frames
        /\ frames'[Len(frames)] = f
        /\ \A i \in DOMAIN frames : i # Len(frames) => frames'[i] = frames[i]
    BY <1>1, <2>2, StackTyped
  <2>5. TypeOK'
    BY <1>1, <2>1, <2>4, EmptySeq DEF GateInv, TypeOK
  <2>6. NoStrandedHold'
    BY <2>1 DEF NoStrandedHold
  <2>7. Attributed'
    <3>1. AllBy(fate', <<>>, NoScope)
      BY DEF AllBy
    <3>2. \A i \in DOMAIN frames' : frames'[i].phase # "listeners"
             => Cleared(fate', outcome', frames'[i].todo)
      BY <1>1, <2>3, <2>4, AttributionStays
    <3> QED  BY <1>1, <2>1, <3>1, <3>2 DEF GateInv, Attributed
  <2> QED  BY <2>5, <2>6, <2>7 DEF GateInv
<1> QED  BY <1>2, <1>3

LEMMA NotifyListenersKeeps ==
    ASSUME GateInv, NotifyListeners
    PROVE  GateInv'
<1> DEFINE f == [Top EXCEPT !.phase = "listeners", !.todo = gate.listeners]
<1>1. /\ frames # <<>> /\ Top.phase = "held" /\ frames' = Replace(f)
      /\ UNCHANGED <<gate, outcome, fate, torn>>
      /\ fate' \in Seq([by : Nat, is : Fate]) /\ Grows(fate, fate')
  BY DEF NotifyListeners, GateInv, TypeOK, Grows
<1>2. f \in Frame /\ f.phase = "listeners"
  <2>1. Top \in Frame
    BY <1>1, StackTyped DEF GateInv, TypeOK
  <2>2. Top \in [phase : {"own", "held"}, todo : Seq(Consequence), since : Nat]
    BY <1>1, <2>1 DEF Frame
  <2> QED  BY <2>2 DEF GateInv, TypeOK, Frame
<1> HIDE DEF f
<1> QED  BY <1>1, <1>2, ReplaceKeeps

LEMMA ReturnKeeps == GateInv /\ Return => GateInv'
  BY LeaveKeeps DEF Return

LEMMA CancelKeeps ==
    ASSUME GateInv, Cancel
    PROVE  GateInv'
<1>1. /\ frames' = frames /\ torn' \in BOOLEAN
      /\ outcome \in Seq({"open", "commit", "discard", "cancelled"})
      /\ fate \in Seq([by : Nat, is : Fate])
  BY DEF Cancel, GateInv, TypeOK
<1>2. /\ outcome' \in Seq({"open", "commit", "discard", "cancelled"})
      /\ Commits(outcome, outcome')
      /\ gate.open = {} => outcome' = outcome
  <2>1. outcome' = [id \in DOMAIN outcome |->
                       IF id \in gate.open THEN "cancelled" ELSE outcome[id]]
    BY DEF Cancel
  <2>2. DOMAIN outcome = 1..Len(outcome) /\ Len(outcome) \in Nat
    BY <1>1
  <2>3. \A id \in DOMAIN outcome : outcome[id] \in {"open", "commit", "discard", "cancelled"}
    BY <1>1
  <2>4. outcome' \in [1..Len(outcome) -> {"open", "commit", "discard", "cancelled"}]
    BY <2>1, <2>2, <2>3
  <2>5. outcome' \in Seq({"open", "commit", "discard", "cancelled"})
    BY <2>2, <2>4, EntriesMakeASequence
  <2>6. Commits(outcome, outcome')
    BY <2>1 DEF Commits, GateInv, Attributed
  <2>7. gate.open = {} => outcome' = outcome
    BY <1>1, <2>1
  <2> QED  BY <2>5, <2>6, <2>7
<1>3. fate' \in Seq([by : Nat, is : Fate]) /\ Grows(fate, fate')
  <2>1. CASE gate.open = {}
    BY <1>1, <2>1 DEF Cancel, Grows
  <2>2. CASE gate.open # {}
    <3> DEFINE list == Serials(gate.held) \cup (UNION {Serials(gate.own[id]) : id \in gate.open})
    <3>1. fate' = Become(list, "dropped") /\ "dropped" \in Fate
      BY <2>2 DEF Cancel, Fate
    <3> HIDE DEF list
    <3> QED  BY <1>1, <3>1, BecomeTyped DEF Grows
  <2> QED  BY <2>1, <2>2
<1>4. \A i \in DOMAIN frames' : frames'[i].phase # "listeners"
         => Cleared(fate', outcome', frames'[i].todo)
  BY <1>1, <1>2, <1>3, AttributionStays
<1>5. CASE gate.open = {}
  <2>1. gate' = gate /\ outcome' = outcome
    BY <1>2, <1>5 DEF Cancel, Cancelled
  <2>2. TypeOK'
    BY <1>1, <1>3, <2>1 DEF GateInv, TypeOK
  <2>3. NoStrandedHold'
    BY <1>1, <2>1 DEF GateInv, NoStrandedHold
  <2>4. Attributed'
    BY <1>2, <1>3, <1>4, <1>5, <2>1, AttributionStays DEF Attributed
  <2> QED  BY <2>2, <2>3, <2>4 DEF GateInv
<1>6. CASE gate.open # {}
  <2>1. /\ DOMAIN gate' = {"open", "own", "held", "listeners"}
        /\ gate'.open = {} /\ gate'.own = <<>> /\ gate'.held = <<>> /\ gate'.listeners = {}
    BY <1>6 DEF Cancel, Cancelled, InitialGate
  <2>2. TypeOK'
    <3>1. DOMAIN gate'.own = gate'.open
      BY <2>1
    <3> QED  BY <1>1, <1>2, <1>3, <2>1, <3>1, EmptySeq DEF GateInv, TypeOK
  <2>3. NoStrandedHold'
    BY <2>1 DEF NoStrandedHold
  <2>4. Attributed'
    <3>1. AllBy(fate', <<>>, NoScope)
      BY DEF AllBy
    <3> QED  BY <1>4, <2>1, <3>1 DEF Attributed
  <2> QED  BY <2>2, <2>3, <2>4 DEF GateInv
<1> QED  BY <1>5, <1>6

LEMMA ListenKeeps ==
    ASSUME GateInv, NEW l \in Listener, Listen(l) \/ StopListening(l)
    PROVE  GateInv'
<1>1. /\ DOMAIN gate' = DOMAIN gate
      /\ gate'.open = gate.open /\ gate'.own = gate.own /\ gate'.held = gate.held
      /\ gate'.listeners \subseteq gate.listeners \cup {l}
      /\ UNCHANGED <<frames, outcome, fate, torn>>
  BY DEF Listen, StopListening, GateInv, TypeOK
<1>2. TypeOK'
  BY <1>1 DEF GateInv, TypeOK
<1>3. NoStrandedHold'
  BY <1>1 DEF GateInv, NoStrandedHold
<1>4. Attributed'
  BY <1>1 DEF GateInv, Attributed
<1> QED  BY <1>2, <1>3, <1>4 DEF GateInv

LEMMA NextKeeps == GateInv /\ [Next]_vars => GateInv'
<1> SUFFICES ASSUME GateInv, [Next]_vars PROVE GateInv'
  OBVIOUS
<1>1. CASE OpenScope
  BY <1>1, OpenScopeKeeps
<1>2. CASE Cancel
  BY <1>2, CancelKeeps
<1>3. CASE \E key \in Key : HoldForTree(key) \/ RunNow(key)
  BY <1>3, HoldForTreeKeeps, RunNowKeeps
<1>4. CASE \E key \in Key, id \in gate.open : DeferInScope(key, id)
  BY <1>4, DeferInScopeKeeps
<1>5. CASE \E id \in gate.open, how \in {"commit", "discard"} : Settle(id, how)
  BY <1>5, SettleKeeps
<1>6. CASE \E l \in Listener : Listen(l) \/ StopListening(l)
  BY <1>6, ListenKeeps
<1>7. CASE Proceed
  BY <1>7, RunNextKeeps, NotifyNextKeeps, ReleaseHeldKeeps, NotifyListenersKeeps, ReturnKeeps
     DEF Proceed
<1>8. CASE UNCHANGED vars
  BY <1>8 DEF vars, GateInv, TypeOK, NoStrandedHold, Attributed
<1> QED  BY <1>1, <1>2, <1>3, <1>4, <1>5, <1>6, <1>7, <1>8 DEF Next

-----------------------------------------------------------------------------
(* The theorems                                                            *)

LEMMA GateInvHolds == Spec => []GateInv
<1>1. Init => GateInv
  BY InitialGateInv
<1> QED  BY <1>1, NextKeeps, PTL DEF Spec

(* The gate, its settlements in progress and the record of what became of  *)
(* every consequence keep their shape, whatever calls nest in which        *)
(* (commit-consequence.ts).                                                *)
THEOREM GateIsTyped == Spec => []TypeOK
<1>1. GateInv => TypeOK
  BY DEF GateInv
<1> QED  BY <1>1, GateInvHolds, PTL

(* A durable consequence that was told to wait for the tree is reached by  *)
(* a settlement, however scopes open and settle around it and whatever the *)
(* consequences themselves call: it never waits on a tree that has settled *)
(* (settleCommitScope, commit-consequence.ts:277-284).                     *)
THEOREM NothingIsStranded == Spec => []NoStrandedHold
<1>1. GateInv => NoStrandedHold
  BY DEF GateInv
<1> QED  BY <1>1, GateInvHolds, PTL

(* Only a settlement's own loop runs what was waiting, and its list was    *)
(* cleared.                                                                *)
LEMMA StepRunsOnlyCommitted ==
    ASSUME GateInv, [Next]_vars, NEW s \in DOMAIN fate,
           fate'[s].is # fate[s].is, fate'[s].is \in {"ran", "failed"}, fate[s].by # NoScope
    PROVE  outcome[fate[s].by] = "commit"
<1>0. fate \in Seq([by : Nat, is : Fate]) /\ frames \in Seq(Frame)
  BY DEF GateInv, TypeOK
<1>1. CASE \E ok \in BOOLEAN : RunNext(ok)
  <2>1. PICK ok \in BOOLEAN : RunNext(ok)
    BY <1>1
  <2>2. /\ frames # <<>> /\ Top.phase # "listeners" /\ Top.todo # <<>>
        /\ fate' = Become({Head(Top.todo).serial}, IF ok THEN "ran" ELSE "failed")
    BY <2>1 DEF RunNext
  <2>3. Top \in Frame /\ Len(frames) \in DOMAIN frames /\ Top = frames[Len(frames)]
    BY <1>0, <2>2, StackTyped
  <2>4. Top.todo \in Seq(Consequence)
    BY <2>2, <2>3, FrameKinds
  <2>5. Cleared(fate, outcome, <<Head(Top.todo)>>)
    BY <2>2, <2>3, <2>4, TailCleared DEF GateInv, Attributed
  <2>7. s = Head(Top.todo).serial
    <3> DEFINE is == IF ok THEN "ran" ELSE "failed"
               one == {Head(Top.todo).serial}
    <3>1. is \in Fate /\ fate' = Become(one, is)
      BY <2>2 DEF Fate
    <3> HIDE DEF is, one
    <3>2. s \in one
      BY <1>0, <3>1, BecomeTyped
    <3> QED  BY <3>2 DEF one
  <2>8. \/ By(fate, s, NoScope)
        \/ \E id \in DOMAIN outcome : By(fate, s, id) /\ outcome[id] = "commit"
    BY <2>5, <2>7 DEF Cleared
  <2> QED  BY <2>8 DEF By
<1>2. CASE \E key \in Key : HoldForTree(key)
  BY <1>0, <1>2, SupersedeTyped, NoScope \in Nat DEF HoldForTree, NoScope
<1>3. CASE \E key \in Key : RunNow(key)
  BY <1>0, <1>3 DEF RunNow
<1>4. CASE \E key \in Key, id \in gate.open : DeferInScope(key, id)
  <2>1. PICK key \in Key, id \in gate.open : DeferInScope(key, id)
    BY <1>4
  <2>2. id \in Nat
    BY DEF GateInv, TypeOK
  <2> QED  BY <1>0, <2>1, <2>2, SupersedeTyped DEF DeferInScope
<1>5. CASE \E id \in gate.open, how \in {"commit", "discard"} : Settle(id, how)
  <2>1. PICK id \in gate.open, how \in {"commit", "discard"} : Settle(id, how)
    BY <1>5
  <2>2. fate' = fate \/ fate' = Become(Serials(gate.own[id]), "dropped")
    BY <2>1 DEF Settle
  <2>3. "dropped" \in Fate
    BY DEF Fate
  <2> QED  BY <1>0, <2>2, <2>3, BecomeTyped
<1>6. CASE Cancel
  <2> DEFINE list == Serials(gate.held) \cup (UNION {Serials(gate.own[id]) : id \in gate.open})
  <2>1. fate' = fate \/ fate' = Become(list, "dropped")
    BY <1>6 DEF Cancel
  <2>2. "dropped" \in Fate
    BY DEF Fate
  <2> HIDE DEF list
  <2> QED  BY <1>0, <2>1, <2>2, BecomeTyped
<1>7. CASE fate' = fate
  BY <1>7
<1>8. OpenScope \/ (\E l \in Listener : Listen(l) \/ StopListening(l)) \/ UNCHANGED vars
      \/ NotifyNext \/ ReleaseHeld \/ NotifyListeners \/ Return
      => fate' = fate
  BY DEF OpenScope, Listen, StopListening, vars, NotifyNext, ReleaseHeld, NotifyListeners, Return
<1> QED  BY <1>1, <1>2, <1>3, <1>4, <1>5, <1>6, <1>7, <1>8 DEF Next, Proceed

(* A consequence scheduled inside a transaction runs only once that        *)
(* transaction has been settled to commit: not when it is rolled back or   *)
(* torn down, not through another transaction's settlement, and not        *)
(* because a consequence called the gate in between                        *)
(* (settleCommitScope, commit-consequence.ts:272-275).                     *)
THEOREM OnlyCommittedWorkRuns == Spec => OnlyCommittedRuns
<1>1. GateInv /\ [Next]_vars =>
         [\A s \in DOMAIN fate :
             /\ fate'[s].is # fate[s].is /\ fate'[s].is \in {"ran", "failed"}
             /\ fate[s].by # NoScope
             => outcome[fate[s].by] = "commit"]_vars
  BY StepRunsOnlyCommitted
<1> QED  BY <1>1, GateInvHolds, PTL DEF Spec, OnlyCommittedRuns

-----------------------------------------------------------------------------
(* Releases and scopes                                                     *)

(* A settlement last looked when the scopes of its date existed.           *)
Dated == \A i \in DOMAIN frames : frames[i].since <= Len(outcome)
DatedRelease == Dated /\ ReleaseMeansSettled

(* No scope comes, and every frame continues one with its date, or has     *)
(* just looked: it has yet to release, or found every scope settled.       *)
LEMMA FramesKeepDate ==
    ASSUME DatedRelease, gate'.open \subseteq gate.open, Len(outcome') = Len(outcome),
           Len(outcome) \in Nat,
           \A i \in DOMAIN frames' :
              \/ \E j \in DOMAIN frames :
                    /\ frames'[i].since = frames[j].since
                    /\ frames[j].phase = "own" => frames'[i].phase = "own"
              \/ /\ frames'[i].since = Len(outcome)
                 /\ frames'[i].phase = "own" \/ gate'.open = {}
    PROVE  DatedRelease'
<1>1. ASSUME NEW i \in DOMAIN frames'
      PROVE  /\ frames'[i].since <= Len(outcome')
             /\ frames'[i].phase # "own" => \A id \in gate'.open : id > frames'[i].since
  <2>1. CASE \E j \in DOMAIN frames :
                /\ frames'[i].since = frames[j].since
                /\ frames[j].phase = "own" => frames'[i].phase = "own"
    BY <2>1 DEF DatedRelease, Dated, ReleaseMeansSettled
  <2>2. CASE frames'[i].since = Len(outcome) /\ (frames'[i].phase = "own" \/ gate'.open = {})
    BY <2>2
  <2> QED  BY <2>1, <2>2
<1> QED  BY <1>1 DEF DatedRelease, Dated, ReleaseMeansSettled

(* The innermost frame goes on with its date.                              *)
LEMMA ReplaceKeepsDate ==
    ASSUME GateInv, DatedRelease, frames # <<>>, NEW f \in Frame, frames' = Replace(f),
           gate' = gate, outcome' = outcome, f.since = Top.since,
           Top.phase = "own" => f.phase = "own"
    PROVE  DatedRelease'
<1>1. frames \in Seq(Frame) /\ Len(outcome) \in Nat
  BY DEF GateInv, TypeOK
<1>2. /\ DOMAIN frames' = DOMAIN frames
      /\ Len(frames) \in DOMAIN frames /\ frames[Len(frames)] = Top
      /\ frames'[Len(frames)] = f
      /\ \A i \in DOMAIN frames : i # Len(frames) => frames'[i] = frames[i]
  <2>1. /\ Replace(f) \in Seq(Frame)
        /\ DOMAIN Replace(f) = DOMAIN frames
        /\ Len(frames) \in DOMAIN frames /\ frames[Len(frames)] = Top
        /\ Replace(f)[Len(frames)] = f
        /\ \A i \in DOMAIN frames : i # Len(frames) => Replace(f)[i] = frames[i]
    BY <1>1, StackTyped
  <2> QED  BY <2>1, Zenon
<1> QED  BY <1>1, <1>2, FramesKeepDate

LEMMA BelowKeepsDate ==
    ASSUME GateInv, DatedRelease, frames # <<>>, frames' = Below,
           gate' = gate, outcome' = outcome
    PROVE  DatedRelease'
<1>1. frames \in Seq(Frame) /\ Len(outcome) \in Nat
  BY DEF GateInv, TypeOK
<1>2. \A i \in DOMAIN frames' : i \in DOMAIN frames /\ frames'[i] = frames[i]
  BY <1>1, StackTyped
<1> QED  BY <1>1, <1>2, FramesKeepDate

(* A new scope is younger than every look.                                 *)
LEMMA OpenScopeKeepsDate ==
    ASSUME GateInv, DatedRelease, OpenScope
    PROVE  DatedRelease'
<1>1. /\ frames' = frames /\ outcome' = Append(outcome, "open")
      /\ outcome \in Seq({"open", "commit", "discard", "cancelled"})
      /\ frames \in Seq(Frame)
  BY DEF OpenScope, GateInv, TypeOK
<1>2. Len(outcome') = Len(outcome) + 1 /\ Len(outcome) \in Nat
  BY <1>1
<1>3. gate'.open = gate.open \cup {Len(outcome) + 1}
  BY GateFields DEF OpenScope, Opened, GateInv, TypeOK
<1>4. \A i \in DOMAIN frames : frames[i].since \in Nat
  BY <1>1 DEF Frame
<1>5. Dated'
  BY <1>1, <1>2, <1>4 DEF DatedRelease, Dated
<1>6. ReleaseMeansSettled'
  BY <1>1, <1>2, <1>3, <1>4 DEF DatedRelease, Dated, ReleaseMeansSettled
<1> QED  BY <1>5, <1>6 DEF DatedRelease

LEMMA SettleKeepsDate ==
    ASSUME GateInv, DatedRelease, NEW id, NEW how, Settle(id, how)
    PROVE  DatedRelease'
<1> DEFINE f == [phase |-> "own", todo |-> OwnWork(gate, id, how), since |-> Len(outcome)]
<1>1. /\ frames \in Seq(Frame) /\ Len(outcome) \in Nat
      /\ outcome \in Seq({"open", "commit", "discard", "cancelled"})
      /\ frames' = Append(frames, f) /\ outcome' = [outcome EXCEPT ![id] = how]
  BY DEF Settle, GateInv, TypeOK
<1>2. Len(outcome') = Len(outcome)
  BY <1>1
<1>3. gate'.open \subseteq gate.open
  BY GateFields DEF Settle, Closed, GateInv, TypeOK
<1>4. f.phase = "own" /\ f.since = Len(outcome)
  OBVIOUS
<1> HIDE DEF f
<1>5. \A i \in DOMAIN frames' : (i \in DOMAIN frames /\ frames'[i] = frames[i]) \/ frames'[i] = f
  BY <1>1
<1> QED  BY <1>1, <1>2, <1>3, <1>4, <1>5, FramesKeepDate

LEMMA ReleaseHeldKeepsDate ==
    ASSUME GateInv, DatedRelease, ReleaseHeld
    PROVE  DatedRelease'
<1>1. CASE ~Releases(gate)
  BY <1>1, BelowKeepsDate DEF ReleaseHeld
<1>2. CASE Releases(gate)
  <2> DEFINE f == [phase |-> "held", todo |-> gate.held, since |-> Len(outcome)]
  <2>1. /\ frames \in Seq(Frame) /\ frames # <<>> /\ Len(outcome) \in Nat
        /\ outcome' = outcome /\ gate'.open = {} /\ gate.open = {}
    <3>1. gate' = Emptied(gate) /\ gate.open = {} /\ frames # <<>> /\ outcome' = outcome
      BY <1>2 DEF ReleaseHeld, Releases
    <3>2. /\ DOMAIN gate = {"open", "own", "held", "listeners"}
          /\ frames \in Seq(Frame) /\ Len(outcome) \in Nat
      BY DEF GateInv, TypeOK
    <3>3. gate'.open = gate.open
      BY <3>1, <3>2, GateFields DEF Emptied
    <3> QED  BY <3>1, <3>2, <3>3
  <2>2. f \in Frame /\ f.since = Len(outcome) /\ frames' = Replace(f)
    BY <1>2 DEF ReleaseHeld, GateInv, TypeOK, Frame
  <2> HIDE DEF f
  <2>3. /\ DOMAIN frames' = DOMAIN frames
        /\ frames'[Len(frames)] = f
        /\ \A i \in DOMAIN frames : i # Len(frames) => frames'[i] = frames[i]
    <3>1. /\ DOMAIN Replace(f) = DOMAIN frames
          /\ Replace(f)[Len(frames)] = f
          /\ \A i \in DOMAIN frames : i # Len(frames) => Replace(f)[i] = frames[i]
      BY <2>1, <2>2, StackTyped
    <3>2. frames' = Replace(f)
      BY <2>2
    <3> QED  BY <3>1, <3>2, Zenon
  <2> QED  BY <2>1, <2>2, <2>3, FramesKeepDate
<1> QED  BY <1>1, <1>2

(* The rest of a settlement keeps its date.                                *)
LEMMA ProceedKeepsDate ==
    ASSUME GateInv, DatedRelease, Proceed
    PROVE  DatedRelease'
<1>0. frames \in Seq(Frame)
  BY DEF GateInv, TypeOK
<1>1. ASSUME NEW ok \in BOOLEAN, RunNext(ok)
      PROVE  DatedRelease'
  <2> DEFINE f == [Top EXCEPT !.todo = Tail(@)]
  <2>1. /\ frames # <<>> /\ Top.phase # "listeners" /\ Top.todo # <<>>
        /\ frames' = Replace(f) /\ gate' = gate /\ outcome' = outcome
    BY <1>1 DEF RunNext
  <2>2. Top \in [phase : {"own", "held"}, todo : Seq(Consequence), since : Nat]
    BY <1>0, <2>1, StackTyped DEF Frame
  <2>3. f \in Frame /\ f.since = Top.since /\ f.phase = Top.phase
    <3>1. Tail(Top.todo) \in Seq(Consequence)
      BY <2>1, <2>2, HeadTailProperties
    <3>2. f \in [phase : {"own", "held"}, todo : Seq(Consequence), since : Nat]
      BY <2>2, <3>1
    <3>3. f.since = Top.since /\ f.phase = Top.phase
      BY <2>2
    <3> QED  BY <3>2, <3>3 DEF Frame
  <2> HIDE DEF f
  <2> QED  BY <2>1, <2>3, ReplaceKeepsDate
<1>2. CASE NotifyNext
  <2>1. PICK l \in Top.todo : frames' = Replace([Top EXCEPT !.todo = @ \ {l}])
    BY <1>2 DEF NotifyNext
  <2> DEFINE f == [Top EXCEPT !.todo = @ \ {l}]
  <2>2. /\ frames # <<>> /\ Top.phase = "listeners"
        /\ frames' = Replace(f) /\ gate' = gate /\ outcome' = outcome
    BY <1>2, <2>1 DEF NotifyNext
  <2>3. Top \in [phase : {"listeners"}, todo : SUBSET Listener, since : Nat]
    BY <1>0, <2>2, StackTyped DEF Frame
  <2>4. f \in Frame /\ f.since = Top.since /\ f.phase = Top.phase
    BY <2>3 DEF Frame
  <2> HIDE DEF f
  <2> QED  BY <2>2, <2>4, ReplaceKeepsDate
<1>3. CASE NotifyListeners
  <2> DEFINE f == [Top EXCEPT !.phase = "listeners", !.todo = gate.listeners]
  <2>1. /\ frames # <<>> /\ Top.phase = "held"
        /\ frames' = Replace(f) /\ gate' = gate /\ outcome' = outcome
    BY <1>3 DEF NotifyListeners
  <2>2. Top \in [phase : {"own", "held"}, todo : Seq(Consequence), since : Nat]
    BY <1>0, <2>1, StackTyped DEF Frame
  <2>3. f \in Frame /\ f.since = Top.since
    BY <2>2 DEF Frame, GateInv, TypeOK
  <2> HIDE DEF f
  <2> QED  BY <2>1, <2>3, ReplaceKeepsDate
<1>4. CASE Return
  BY <1>4, BelowKeepsDate DEF Return
<1> QED  BY <1>1, <1>2, <1>3, <1>4, ReleaseHeldKeepsDate DEF Proceed

LEMMA NextKeepsDate == GateInv /\ DatedRelease /\ [Next]_vars => DatedRelease'
<1> SUFFICES ASSUME GateInv, DatedRelease, [Next]_vars PROVE DatedRelease'
  OBVIOUS
<1>0. Len(outcome) \in Nat
  BY DEF GateInv, TypeOK
<1>1. ASSUME frames' = frames, gate'.open \subseteq gate.open, Len(outcome') = Len(outcome)
      PROVE  DatedRelease'
  BY <1>0, <1>1, FramesKeepDate
<1>2. CASE Cancel
  <2>1. gate'.open \subseteq gate.open
    BY <1>2 DEF Cancel, Cancelled, InitialGate
  <2>2. Len(outcome') = Len(outcome)
    BY <1>2, <1>0 DEF Cancel, GateInv, TypeOK
  <2> QED  BY <1>1, <1>2, <2>1, <2>2 DEF Cancel
<1>3. CASE \E key \in Key : HoldForTree(key) \/ RunNow(key)
  <2>1. gate'.open = gate.open
    BY <1>3, GateFields DEF HoldForTree, RunNow, HeldBack, GateInv, TypeOK
  <2> QED  BY <1>1, <1>3, <2>1 DEF HoldForTree, RunNow
<1>4. CASE \E key \in Key, id \in gate.open : DeferInScope(key, id)
  <2>1. gate'.open = gate.open
    BY <1>4 DEF DeferInScope, Deferred, GateInv, TypeOK
  <2> QED  BY <1>1, <1>4, <2>1 DEF DeferInScope
<1>5. CASE \E l \in Listener : Listen(l) \/ StopListening(l)
  <2>1. gate'.open = gate.open
    BY <1>5, GateFields DEF Listen, StopListening, GateInv, TypeOK
  <2> QED  BY <1>1, <1>5, <2>1 DEF Listen, StopListening
<1>6. CASE UNCHANGED vars
  BY <1>1, <1>6 DEF vars
<1> QED  BY <1>2, <1>3, <1>4, <1>5, <1>6,
            OpenScopeKeepsDate, SettleKeepsDate, ProceedKeepsDate DEF Next

(* What waited for the tree, and the listeners, run only when every scope  *)
(* there was at the release had settled, whoever settled it and however    *)
(* deep the settlements nest (commit-consequence.ts:277-289).              *)
THEOREM ReleasesMeanSettled == Spec => []ReleaseMeansSettled
<1>1. Init => DatedRelease
  BY DEF Init, DatedRelease, Dated, ReleaseMeansSettled
<1>2. DatedRelease => ReleaseMeansSettled
  BY DEF DatedRelease
<1> QED  BY <1>1, <1>2, NextKeepsDate, GateInvHolds, PTL DEF Spec

-----------------------------------------------------------------------------
(* Where consequences stand                                                *)

(* Consequence s stands in the list of scope id, or in frame i.            *)
InOwn(g, s, id) == id \in g.open /\ IsIn(g.own[id], s)
InFrame(fs, s, i) == i \in DOMAIN fs /\ fs[i].phase # "listeners" /\ IsIn(fs[i].todo, s)

Somewhere(g, fs, s) ==
    (\E id : InOwn(g, s, id)) \/ (\E i : InFrame(fs, s, i)) \/ IsIn(g.held, s)
AtMostOnce(g, fs, s) ==
    /\ \A i, j : InOwn(g, s, i) /\ InOwn(g, s, j) => i = j
    /\ \A i, j : InFrame(fs, s, i) /\ InFrame(fs, s, j) => i = j
    /\ \A i, j : ~(InOwn(g, s, i) /\ InFrame(fs, s, j))
    /\ \A i : ~(InOwn(g, s, i) /\ IsIn(g.held, s))
    /\ \A i : ~(InFrame(fs, s, i) /\ IsIn(g.held, s))

NoRepeats(list) == \A i, j \in DOMAIN list : list[i].serial = list[j].serial => i = j
OnePerKey(list) == \A i, j \in DOMAIN list : list[i].key = list[j].key => i = j

(* No list names a consequence twice, and one that is keyed no key twice;  *)
(* the consequences that wait are those in a list, each in one.            *)
ListsTidy(g, fs) ==
    /\ \A id \in g.open : NoRepeats(g.own[id]) /\ OnePerKey(g.own[id])
    /\ NoRepeats(g.held) /\ OnePerKey(g.held)
    /\ \A i \in DOMAIN fs : fs[i].phase # "listeners" => NoRepeats(fs[i].todo)
EachPlaced(g, fs) ==
    \A s : AtMostOnce(g, fs, s) /\ (Somewhere(g, fs, s) <=> Waits(s))
Placed == ListsTidy(gate, frames) /\ EachPlaced(gate, frames)

LEMMA NothingIsIn == \A s : ~IsIn(<<>>, s)
<1>1. DOMAIN <<>> = {}
  OBVIOUS
<1> QED  BY <1>1 DEF IsIn, Serials

LEMMA NothingRepeats == NoRepeats(<<>>) /\ OnePerKey(<<>>)
  BY DEF NoRepeats, OnePerKey

(* A list a consequence is put in: it takes the place of those of its key. *)
LEMMA PutStands ==
    ASSUME NEW list \in Seq(Consequence), NEW c \in Consequence,
           NoRepeats(list), OnePerKey(list), ~IsIn(list, c.serial)
    PROVE  /\ NoRepeats(Put(list, c)) /\ OnePerKey(Put(list, c))
           /\ \A s : IsIn(Put(list, c), s) <=>
                        s = c.serial \/ (IsIn(list, s) /\ s \notin OfKey(list, c.key))
<1> DEFINE q == Put(list, c)
<1>0. \A i \in DOMAIN list : list[i].serial # c.serial
  BY DEF IsIn, Serials
<1>1. CASE \E i \in DOMAIN list : list[i].key = c.key
  <2>1. PICK k \in DOMAIN list : list[k].key = c.key
    BY <1>1
  <2>2. /\ DOMAIN q = DOMAIN list /\ q[k] = c
        /\ \A i \in DOMAIN list : i # k => q[i] = list[i] /\ list[i].key # c.key
    BY <1>1, <2>1 DEF Put, OnePerKey
  <2> HIDE DEF q
  <2>3. NoRepeats(q)
    BY <1>0, <2>1, <2>2 DEF NoRepeats
  <2>4. OnePerKey(q)
    BY <2>1, <2>2 DEF OnePerKey
  <2>5. ASSUME NEW s
        PROVE  IsIn(q, s) <=> s = c.serial \/ (IsIn(list, s) /\ s \notin OfKey(list, c.key))
    <3>1. s \in OfKey(list, c.key) <=> s = list[k].serial
      BY <2>1, <2>2 DEF OfKey
    <3>2. IsIn(list, s) /\ s # list[k].serial <=> \E i \in DOMAIN list : i # k /\ list[i].serial = s
      BY <2>1 DEF IsIn, Serials, NoRepeats
    <3>3. IsIn(q, s) <=> s = c.serial \/ \E i \in DOMAIN list : i # k /\ list[i].serial = s
      BY <2>1, <2>2 DEF IsIn, Serials
    <3> QED  BY <3>1, <3>2, <3>3
  <2> QED  BY <2>3, <2>4, <2>5 DEF q
<1>2. CASE ~\E i \in DOMAIN list : list[i].key = c.key
  <2> DEFINE n == Len(list) + 1
  <2>1. q = Append(list, c)
    BY <1>2 DEF Put
  <2>2. /\ DOMAIN q = DOMAIN list \cup {n} /\ n \notin DOMAIN list /\ q[n] = c
        /\ \A i \in DOMAIN list : q[i] = list[i] /\ list[i].key # c.key
    BY <1>2, <2>1
  <2> HIDE DEF q, n
  <2>3. NoRepeats(q) /\ OnePerKey(q)
    BY <1>0, <2>2 DEF NoRepeats, OnePerKey
  <2>4. ASSUME NEW s
        PROVE  IsIn(q, s) <=> s = c.serial \/ (IsIn(list, s) /\ s \notin OfKey(list, c.key))
    BY <1>2, <2>2 DEF IsIn, Serials, OfKey
  <2> QED  BY <2>3, <2>4 DEF q
<1> QED  BY <1>1, <1>2

(* Those it becomes of wait no longer; nothing else is different.          *)
LEMMA BecomeWaits ==
    ASSUME fate \in Seq([by : Nat, is : Fate]), NEW those, NEW is \in Fate,
           is # "waiting", fate' = Become(those, is)
    PROVE  /\ \A s : Waits(s)' <=> Waits(s) /\ s \notin those
           /\ \A s \in DOMAIN fate : s \notin those => fate'[s] = fate[s]
<1>1. /\ DOMAIN fate' = DOMAIN fate
      /\ \A s \in DOMAIN fate : s \notin those => fate'[s] = fate[s]
  BY BecomeTyped
<1>2. ASSUME NEW s \in DOMAIN fate, s \in those
      PROVE  fate'[s].is = is
  <2>1. fate[s] \in [by : Nat, is : Fate]
    <3>1. DOMAIN fate = 1..Len(fate)
      OBVIOUS
    <3> QED  BY <3>1, ElementOfSeq
  <2>2. fate'[s] = [fate[s] EXCEPT !.is = is]
    BY <1>2 DEF Become
  <2> QED  BY <2>1, <2>2
<1> QED  BY <1>1, <1>2 DEF Waits

(* The one scheduled waits, and those it takes the place of do not.        *)
LEMMA SupersedeWaits ==
    ASSUME fate \in Seq([by : Nat, is : Fate]), NEW list, NEW key, NEW by \in Nat,
           Supersede(list, key, by)
    PROVE  /\ \A s : Waits(s)' <=>
                        s = Len(fate) + 1 \/ (Waits(s) /\ s \notin OfKey(list, key))
           /\ \A s \in DOMAIN fate : s \notin OfKey(list, key) => fate'[s] = fate[s]
<1> DEFINE rest == OfKey(list, key)
           past == Become(rest, "replaced")
           new == [by |-> by, is |-> "waiting"]
<1>1. /\ past \in Seq([by : Nat, is : Fate]) /\ Len(past) = Len(fate)
      /\ DOMAIN past = DOMAIN fate
      /\ \A s \in DOMAIN fate : s \notin rest => past[s] = fate[s]
  <2>1. "replaced" \in Fate
    BY DEF Fate
  <2> HIDE DEF rest
  <2> QED  BY BecomeTyped, <2>1
<1>2. ASSUME NEW s \in DOMAIN fate, s \in rest
      PROVE  past[s].is = "replaced"
  <2>1. fate[s] \in [by : Nat, is : Fate]
    <3>1. DOMAIN fate = 1..Len(fate)
      OBVIOUS
    <3> QED  BY <3>1, ElementOfSeq
  <2>2. past[s] = [fate[s] EXCEPT !.is = "replaced"]
    BY <1>2 DEF Become
  <2> QED  BY <2>1, <2>2
<1>3. fate' = Append(past, new) /\ new.is = "waiting"
  BY DEF Supersede
<1> HIDE DEF past, new, rest
<1>4. /\ DOMAIN fate' = DOMAIN fate \cup {Len(fate) + 1} /\ Len(fate) + 1 \notin DOMAIN fate
      /\ fate'[Len(fate) + 1] = new
      /\ \A s \in DOMAIN fate : fate'[s] = past[s]
  BY <1>1, <1>3
<1>5. \A s : Waits(s)' <=> s = Len(fate) + 1 \/ (Waits(s) /\ s \notin rest)
  BY <1>1, <1>2, <1>3, <1>4 DEF Waits
<1>6. \A s \in DOMAIN fate : s \notin rest => fate'[s] = fate[s]
  BY <1>1, <1>4
<1> QED  BY <1>5, <1>6 DEF rest

-----------------------------------------------------------------------------
(* Each action keeps every waiting consequence in its one place            *)

(* The new serial stands nowhere yet.                                      *)
LEMMA NewSerial ==
    ASSUME GateInv, Placed
    PROVE  /\ ~Waits(Len(fate) + 1)
           /\ \A i : ~InOwn(gate, Len(fate) + 1, i)
           /\ \A i : ~InFrame(frames, Len(fate) + 1, i)
           /\ ~IsIn(gate.held, Len(fate) + 1)
<1>1. ~Waits(Len(fate) + 1)
  BY DEF Waits, GateInv, TypeOK
<1> QED  BY <1>1 DEF Placed, EachPlaced, Somewhere

LEMMA OpenScopePlaces == GateInv /\ Placed /\ OpenScope => Placed'
<1> SUFFICES ASSUME GateInv, Placed, OpenScope PROVE Placed'
  OBVIOUS
<1> DEFINE n == Len(outcome) + 1
<1>1. /\ gate'.open = gate.open \cup {n}
      /\ gate'.own = [i \in gate.open \cup {n} |-> IF i = n THEN <<>> ELSE gate.own[i]]
      /\ gate'.held = gate.held
  BY GateFields DEF OpenScope, Opened, GateInv, TypeOK
<1>2. n \notin gate.open /\ frames' = frames /\ fate' = fate
  BY DEF OpenScope, GateInv, TypeOK
<1> HIDE DEF n
<1>3. \A s, i : InOwn(gate', s, i) <=> InOwn(gate, s, i)
  BY <1>1, <1>2, NothingIsIn DEF InOwn
<1>4. \A s : Waits(s)' <=> Waits(s)
  BY <1>2 DEF Waits
<1>5. ListsTidy(gate', frames')
  BY <1>1, <1>2, NothingRepeats DEF ListsTidy, Placed
<1>6. EachPlaced(gate, frames)'
  BY <1>1, <1>2, <1>3, <1>4 DEF EachPlaced, AtMostOnce, Somewhere, Placed
<1> QED  BY <1>5, <1>6 DEF Placed

LEMMA DeferInScopePlaces ==
    ASSUME GateInv, Placed, NEW key \in Key, NEW id \in gate.open, DeferInScope(key, id)
    PROVE  Placed'
<1> DEFINE c == Scheduled(key)
           list == gate.own[id]
           n == Len(fate) + 1
<1>1. c \in Consequence /\ c.serial = n /\ c.key = key /\ list \in Seq(Consequence)
  <2>1. Len(fate) \in Nat /\ list \in Seq(Consequence)
    BY DEF GateInv, TypeOK
  <2> QED  BY <2>1 DEF Scheduled, Consequence
<1>2. /\ gate'.open = gate.open
      /\ gate'.own = [gate.own EXCEPT ![id] = Put(list, c)]
      /\ gate'.held = gate.held
      /\ DOMAIN gate.own = gate.open
      /\ frames' = frames
  BY DEF DeferInScope, Deferred, GateInv, TypeOK
<1>3. \A s : Waits(s)' <=> s = n \/ (Waits(s) /\ s \notin OfKey(list, key))
  BY SupersedeWaits DEF DeferInScope, GateInv, TypeOK
<1>4. /\ ~Waits(n) /\ ~IsIn(gate.held, n)
      /\ \A i : ~InOwn(gate, n, i) /\ ~InFrame(frames, n, i)
  BY NewSerial
<1> HIDE DEF c, n
<1>5. /\ NoRepeats(Put(list, c)) /\ OnePerKey(Put(list, c))
      /\ \A s : IsIn(Put(list, c), s) <=> s = n \/ (IsIn(list, s) /\ s \notin OfKey(list, key))
  <2>1. NoRepeats(list) /\ OnePerKey(list) /\ ~IsIn(list, n)
    BY <1>4 DEF Placed, ListsTidy, InOwn
  <2> QED  BY <1>1, <2>1, PutStands
<1> HIDE DEF list
<1>6. \A s, i : InOwn(gate', s, i) <=>
                   IF i = id THEN s = n \/ (InOwn(gate, s, id) /\ s \notin OfKey(list, key))
                             ELSE InOwn(gate, s, i)
  BY <1>2, <1>5 DEF InOwn, list
<1>7. ListsTidy(gate', frames')
  BY <1>2, <1>5 DEF ListsTidy, Placed
<1>8. \A s \in OfKey(list, key) : InOwn(gate, s, id)
  BY DEF OfKey, InOwn, IsIn, Serials, list
<1>9. ASSUME NEW s
      PROVE  AtMostOnce(gate', frames', s) /\ (Somewhere(gate', frames', s) <=> Waits(s)')
  <2>1. AtMostOnce(gate, frames, s) /\ (Somewhere(gate, frames, s) <=> Waits(s))
    BY DEF Placed, EachPlaced
  <2>2. AtMostOnce(gate', frames', s)
    BY <1>2, <1>4, <1>6, <2>1 DEF AtMostOnce
  <2>3. Somewhere(gate', frames', s) <=> Waits(s)'
    <3>1. CASE s = n
      BY <1>3, <1>6, <3>1 DEF Somewhere
    <3>2. CASE s # n /\ s \in OfKey(list, key)
      BY <1>2, <1>3, <1>6, <1>8, <2>1, <3>2 DEF Somewhere, AtMostOnce
    <3>3. CASE s # n /\ s \notin OfKey(list, key)
      BY <1>2, <1>3, <1>6, <2>1, <3>3 DEF Somewhere
    <3> QED  BY <3>1, <3>2, <3>3
  <2> QED  BY <2>2, <2>3
<1> QED  BY <1>7, <1>9 DEF Placed, EachPlaced

LEMMA HoldForTreePlaces ==
    ASSUME GateInv, Placed, NEW key \in Key, HoldForTree(key)
    PROVE  Placed'
<1> DEFINE c == Scheduled(key)
           list == gate.held
           n == Len(fate) + 1
<1>1. c \in Consequence /\ c.serial = n /\ c.key = key /\ list \in Seq(Consequence)
  <2>1. Len(fate) \in Nat /\ list \in Seq(Consequence)
    BY DEF GateInv, TypeOK
  <2> QED  BY <2>1 DEF Scheduled, Consequence
<1>2. /\ gate'.open = gate.open
      /\ gate'.own = gate.own
      /\ gate'.held = Put(list, c)
      /\ frames' = frames
  BY GateFields DEF HoldForTree, HeldBack, GateInv, TypeOK
<1>3. \A s : Waits(s)' <=> s = n \/ (Waits(s) /\ s \notin OfKey(list, key))
  BY SupersedeWaits, NoScope \in Nat DEF HoldForTree, GateInv, TypeOK, NoScope
<1>4. /\ ~Waits(n) /\ ~IsIn(gate.held, n)
      /\ \A i : ~InOwn(gate, n, i) /\ ~InFrame(frames, n, i)
  BY NewSerial
<1> HIDE DEF c, n
<1>5. /\ NoRepeats(Put(list, c)) /\ OnePerKey(Put(list, c))
      /\ \A s : IsIn(Put(list, c), s) <=> s = n \/ (IsIn(list, s) /\ s \notin OfKey(list, key))
  <2>1. NoRepeats(list) /\ OnePerKey(list) /\ ~IsIn(list, n)
    BY <1>4 DEF Placed, ListsTidy
  <2> QED  BY <1>1, <2>1, PutStands
<1>6. \A s, i : InOwn(gate', s, i) <=> InOwn(gate, s, i)
  BY <1>2 DEF InOwn
<1>7. ListsTidy(gate', frames')
  BY <1>2, <1>5 DEF ListsTidy, Placed
<1>8. \A s \in OfKey(list, key) : IsIn(list, s)
  BY DEF OfKey, IsIn, Serials
<1>9. \A s : IsIn(gate'.held, s) <=> s = n \/ (IsIn(gate.held, s) /\ s \notin OfKey(list, key))
  BY <1>2, <1>5
<1>10. ASSUME NEW s
       PROVE  AtMostOnce(gate', frames', s) /\ (Somewhere(gate', frames', s) <=> Waits(s)')
  <2>1. AtMostOnce(gate, frames, s) /\ (Somewhere(gate, frames, s) <=> Waits(s))
    BY DEF Placed, EachPlaced
  <2>2. AtMostOnce(gate', frames', s)
    BY <1>2, <1>4, <1>6, <1>9, <2>1 DEF AtMostOnce
  <2>3. Somewhere(gate', frames', s) <=> Waits(s)'
    BY <1>2, <1>3, <1>6, <1>8, <1>9, <2>1 DEF Somewhere, AtMostOnce
  <2> QED  BY <2>2, <2>3
<1> QED  BY <1>7, <1>10 DEF Placed, EachPlaced

LEMMA RunNowPlaces ==
    ASSUME GateInv, Placed, NEW key \in Key, RunNow(key)
    PROVE  Placed'
<1>1. gate' = gate /\ frames' = frames
  BY DEF RunNow
<1>2. \A s : Waits(s)' <=> Waits(s)
  <2>1. /\ fate \in Seq([by : Nat, is : Fate])
        /\ fate' = Append(fate, [by |-> NoScope, is |-> "ran"])
    BY DEF RunNow, GateInv, TypeOK
  <2> QED  BY <2>1 DEF Waits
<1> QED  BY <1>1, <1>2 DEF Placed, EachPlaced

(* What changes of the lists of a settlement: the scope's own becomes a    *)
(* frame's, or is dropped with the scope.                                  *)
LEMMA SettlePlaces ==
    ASSUME GateInv, Placed, NEW id \in gate.open, NEW how \in {"commit", "discard"},
           Settle(id, how)
    PROVE  Placed'
<1> DEFINE f == [phase |-> "own", todo |-> OwnWork(gate, id, how), since |-> Len(outcome)]
           n == Len(frames) + 1
<1>1. /\ gate'.open = gate.open \ {id}
      /\ gate'.own = [i \in gate.open \ {id} |-> gate.own[i]]
      /\ gate'.held = gate.held
  BY DEF Settle, Closed, GateInv, TypeOK
<1>2. f.phase = "own" /\ f.todo = OwnWork(gate, id, how)
  OBVIOUS
<1>3. /\ DOMAIN frames' = DOMAIN frames \cup {n} /\ n \notin DOMAIN frames
      /\ frames'[n] = f
      /\ \A i \in DOMAIN frames : frames'[i] = frames[i]
  <2>1. frames \in Seq(Frame) /\ frames' = Append(frames, f)
    BY DEF Settle, GateInv, TypeOK
  <2> HIDE DEF f
  <2> QED  BY <2>1
<1> HIDE DEF f, n
<1>4. \A s, i : InOwn(gate', s, i) <=> InOwn(gate, s, i) /\ i # id
  BY <1>1 DEF InOwn
<1>5. \A s, i : InFrame(frames', s, i) <=>
                   InFrame(frames, s, i) \/ (i = n /\ IsIn(OwnWork(gate, id, how), s))
  BY <1>2, <1>3 DEF InFrame
<1>6. ListsTidy(gate', frames')
  <2>1. NoRepeats(OwnWork(gate, id, how))
    BY NothingRepeats DEF OwnWork, Placed, ListsTidy
  <2>2. \A i \in DOMAIN frames' : frames'[i].phase # "listeners" => NoRepeats(frames'[i].todo)
    BY <1>2, <1>3, <2>1 DEF Placed, ListsTidy
  <2> QED  BY <1>1, <2>2 DEF Placed, ListsTidy
<1>7. \A i : ~InFrame(frames, i, n)
  BY <1>3 DEF InFrame
<1>8. ASSUME NEW s
      PROVE  AtMostOnce(gate', frames', s) /\ (Somewhere(gate', frames', s) <=> Waits(s)')
  <2>1. AtMostOnce(gate, frames, s) /\ (Somewhere(gate, frames, s) <=> Waits(s))
    BY DEF Placed, EachPlaced
  <2>2. CASE how = "commit"
    <3>1. IsIn(OwnWork(gate, id, how), s) <=> InOwn(gate, s, id)
      BY <2>2 DEF OwnWork, InOwn
    <3>2. Waits(s)' <=> Waits(s)
      BY <2>2 DEF Settle, Waits
    <3>3. AtMostOnce(gate', frames', s)
      BY <1>1, <1>4, <1>5, <1>7, <2>1, <3>1 DEF AtMostOnce
    <3>4. Somewhere(gate', frames', s) <=> Somewhere(gate, frames, s)
      BY <1>1, <1>4, <1>5, <3>1 DEF Somewhere
    <3> QED  BY <2>1, <3>2, <3>3, <3>4
  <2>3. CASE how # "commit"
    <3>1. ~IsIn(OwnWork(gate, id, how), s)
      BY <2>3, NothingIsIn DEF OwnWork
    <3>2. Waits(s)' <=> Waits(s) /\ ~InOwn(gate, s, id)
      <4>1. fate' = Become(Serials(gate.own[id]), "dropped") /\ "dropped" \in Fate
        BY <2>3 DEF Settle, Fate
      <4>2. fate \in Seq([by : Nat, is : Fate])
        BY DEF GateInv, TypeOK
      <4>3. Waits(s)' <=> Waits(s) /\ s \notin Serials(gate.own[id])
        BY <4>1, <4>2, BecomeWaits
      <4> QED  BY <4>3 DEF InOwn, IsIn
    <3>3. AtMostOnce(gate', frames', s)
      BY <1>1, <1>4, <1>5, <2>1, <3>1 DEF AtMostOnce
    <3>4. Somewhere(gate', frames', s) <=> Somewhere(gate, frames, s) /\ ~InOwn(gate, s, id)
      BY <1>1, <1>4, <1>5, <2>1, <3>1 DEF Somewhere, AtMostOnce
    <3> QED  BY <2>1, <3>2, <3>3, <3>4
  <2> QED  BY <2>2, <2>3
<1> QED  BY <1>6, <1>8 DEF Placed, EachPlaced

(* The innermost frame is replaced, and nothing else of the gate changes.  *)
LEMMA ReplacedFrames ==
    ASSUME GateInv, frames # <<>>, NEW f \in Frame, frames' = Replace(f)
    PROVE  /\ \A s, i : InFrame(frames', s, i) <=>
                 IF i = Len(frames) THEN f.phase # "listeners" /\ IsIn(f.todo, s)
                                    ELSE InFrame(frames, s, i)
           /\ (f.phase # "listeners" => NoRepeats(f.todo)) /\ Placed
                 => \A i \in DOMAIN frames' :
                       frames'[i].phase # "listeners" => NoRepeats(frames'[i].todo)
<1>1. /\ DOMAIN frames' = DOMAIN frames
      /\ Len(frames) \in DOMAIN frames
      /\ frames'[Len(frames)] = f
      /\ \A i \in DOMAIN frames : i # Len(frames) => frames'[i] = frames[i]
  <2>1. frames \in Seq(Frame)
    BY DEF GateInv, TypeOK
  <2>2. /\ DOMAIN Replace(f) = DOMAIN frames
        /\ Len(frames) \in DOMAIN frames
        /\ Replace(f)[Len(frames)] = f
        /\ \A i \in DOMAIN frames : i # Len(frames) => Replace(f)[i] = frames[i]
    BY <2>1, StackTyped
  <2> QED  BY <2>2, Zenon
<1> QED  BY <1>1 DEF InFrame, Placed, ListsTidy

(* The call below goes on: the innermost frame stood for nothing.          *)
LEMMA LeavePlaces ==
    ASSUME GateInv, Placed, frames # <<>>, frames' = Below, gate' = gate, fate' = fate,
           Top.phase = "listeners" \/ Top.todo = <<>>
    PROVE  Placed'
<1>1. frames \in Seq(Frame)
  BY DEF GateInv, TypeOK
<1>2. /\ \A i \in DOMAIN frames' : i \in DOMAIN frames /\ frames'[i] = frames[i]
      /\ \A i \in DOMAIN frames : i # Len(frames) => i \in DOMAIN frames'
      /\ frames[Len(frames)] = Top
  <2>1. Below \in Seq(Frame) /\ Len(Below) = Len(frames) - 1 /\ Len(frames) \in Nat \ {0}
    BY <1>1, StackTyped
  <2>2. \A i \in DOMAIN frames : i # Len(frames) => i \in DOMAIN Below
    BY <1>1, <2>1
  <2> QED  BY <1>1, <2>2, StackTyped
<1>3. \A s, i : InFrame(frames', s, i) <=> InFrame(frames, s, i)
  BY <1>2, NothingIsIn DEF InFrame
<1>4. \A s : Waits(s)' <=> Waits(s)
  BY DEF Waits
<1>5. ListsTidy(gate', frames')
  BY <1>2 DEF Placed, ListsTidy
<1>6. EachPlaced(gate, frames)'
  BY <1>3, <1>4 DEF EachPlaced, AtMostOnce, Somewhere, Placed
<1> QED  BY <1>5, <1>6 DEF Placed

(* The head of a list stands in it once: it is not in what is left.        *)
LEMMA TailStands ==
    ASSUME NEW list \in Seq(Consequence), list # <<>>, NoRepeats(list)
    PROVE  /\ NoRepeats(Tail(list))
           /\ IsIn(list, Head(list).serial)
           /\ \A s : IsIn(Tail(list), s) <=> IsIn(list, s) /\ s # Head(list).serial
<1>1. /\ Len(Tail(list)) = Len(list) - 1 /\ Len(list) \in Nat \ {0}
      /\ \A i \in 1..Len(Tail(list)) : Tail(list)[i] = list[i + 1]
      /\ DOMAIN Tail(list) = 1..Len(Tail(list)) /\ DOMAIN list = 1..Len(list)
      /\ Head(list) = list[1]
  BY HeadTailProperties
<1>2. NoRepeats(Tail(list))
  BY <1>1 DEF NoRepeats
<1>3. IsIn(list, Head(list).serial)
  BY <1>1 DEF IsIn, Serials
<1>4. ASSUME NEW s
      PROVE  IsIn(Tail(list), s) <=> IsIn(list, s) /\ s # Head(list).serial
  <2>1. ASSUME IsIn(Tail(list), s) PROVE IsIn(list, s) /\ s # Head(list).serial
    <3>1. PICK i \in DOMAIN Tail(list) : Tail(list)[i].serial = s
      BY <2>1 DEF IsIn, Serials
    <3>2. i + 1 \in DOMAIN list /\ 1 \in DOMAIN list /\ i + 1 # 1 /\ list[i + 1].serial = s
      BY <1>1, <3>1
    <3> QED  BY <1>1, <3>2 DEF IsIn, Serials, NoRepeats
  <2>2. ASSUME IsIn(list, s), s # Head(list).serial PROVE IsIn(Tail(list), s)
    <3>1. PICK i \in DOMAIN list : list[i].serial = s
      BY <2>2 DEF IsIn, Serials
    <3>2. i # 1
      BY <1>1, <2>2, <3>1
    <3>3. i - 1 \in DOMAIN Tail(list) /\ Tail(list)[i - 1] = list[i]
      BY <1>1, <3>2
    <3> QED  BY <3>1, <3>3 DEF IsIn, Serials
  <2> QED  BY <2>1, <2>2
<1> QED  BY <1>2, <1>3, <1>4

LEMMA RunNextPlaces ==
    ASSUME GateInv, Placed, NEW ok \in BOOLEAN, RunNext(ok)
    PROVE  Placed'
<1> DEFINE f == [Top EXCEPT !.todo = Tail(@)]
           is == IF ok THEN "ran" ELSE "failed"
           h == Head(Top.todo).serial
           n == Len(frames)
<1>1. /\ frames \in Seq(Frame) /\ frames # <<>> /\ Top.phase # "listeners" /\ Top.todo # <<>>
      /\ fate \in Seq([by : Nat, is : Fate])
  BY DEF RunNext, GateInv, TypeOK
<1>2. Top \in Frame /\ n \in DOMAIN frames /\ Top = frames[n]
  BY <1>1, StackTyped
<1>3. Top.todo \in Seq(Consequence) /\ Top \in [phase : {"own", "held"}, todo : Seq(Consequence), since : Nat]
  BY <1>1, <1>2 DEF Frame
<1>4. f \in Frame /\ f.phase = Top.phase /\ f.todo = Tail(Top.todo)
  <2>1. Tail(Top.todo) \in Seq(Consequence)
    BY <1>1, <1>3, HeadTailProperties
  <2> QED  BY <1>3, <2>1 DEF Frame
<1>5. frames' = Replace(f) /\ gate' = gate /\ fate' = Become({h}, is)
  BY DEF RunNext
<1>6. is \in Fate /\ is # "waiting"
  BY DEF Fate
<1> HIDE DEF f, is, h
<1>7. /\ NoRepeats(Tail(Top.todo)) /\ IsIn(Top.todo, h)
      /\ \A s : IsIn(Tail(Top.todo), s) <=> IsIn(Top.todo, s) /\ s # h
  BY <1>1, <1>2, <1>3, TailStands DEF Placed, ListsTidy, h
<1>8. \A s : Waits(s)' <=> Waits(s) /\ s # h
  BY <1>1, <1>5, <1>6, BecomeWaits
<1>9. /\ \A s, i : InFrame(frames', s, i) <=>
              IF i = n THEN f.phase # "listeners" /\ IsIn(f.todo, s) ELSE InFrame(frames, s, i)
      /\ \A i \in DOMAIN frames' : frames'[i].phase # "listeners" => NoRepeats(frames'[i].todo)
  BY <1>1, <1>4, <1>5, <1>7, ReplacedFrames
<1>10. InFrame(frames, h, n)
  BY <1>1, <1>2, <1>7 DEF InFrame
<1>11. ASSUME NEW s, NEW i
       PROVE  InFrame(frames', s, i) <=> InFrame(frames, s, i) /\ ~(i = n /\ s = h)
  BY <1>1, <1>2, <1>4, <1>7, <1>9 DEF InFrame
<1>12. ListsTidy(gate', frames')
  BY <1>5, <1>9 DEF ListsTidy, Placed
<1>13. ASSUME NEW s
       PROVE  AtMostOnce(gate', frames', s) /\ (Somewhere(gate', frames', s) <=> Waits(s)')
  <2>1. AtMostOnce(gate, frames, s) /\ (Somewhere(gate, frames, s) <=> Waits(s))
    BY DEF Placed, EachPlaced
  <2>2. AtMostOnce(gate', frames', s)
    BY <1>5, <1>11, <2>1 DEF AtMostOnce
  <2>3. Somewhere(gate', frames', s) <=> Somewhere(gate, frames, s) /\ s # h
    BY <1>5, <1>10, <1>11, <2>1 DEF Somewhere, AtMostOnce
  <2> QED  BY <1>8, <2>1, <2>2, <2>3
<1> QED  BY <1>12, <1>13 DEF Placed, EachPlaced

(* A frame whose work is done goes on to the listeners, or through them.   *)
LEMMA IdlePlaces ==
    ASSUME GateInv, Placed, frames # <<>>, NEW f \in Frame, frames' = Replace(f),
           f.phase = "listeners", gate' = gate, fate' = fate,
           Top.phase = "listeners" \/ Top.todo = <<>>
    PROVE  Placed'
<1>1. Len(frames) \in DOMAIN frames /\ Top = frames[Len(frames)]
  BY StackTyped DEF GateInv, TypeOK
<1>2. \A s : ~InFrame(frames, s, Len(frames))
  BY <1>1, NothingIsIn DEF InFrame
<1>3. \A s, i : InFrame(frames', s, i) <=> InFrame(frames, s, i)
  BY <1>2, ReplacedFrames
<1>4. \A i \in DOMAIN frames' : frames'[i].phase # "listeners" => NoRepeats(frames'[i].todo)
  BY ReplacedFrames
<1>5. \A s : Waits(s)' <=> Waits(s)
  BY DEF Waits
<1>6. ListsTidy(gate', frames')
  BY <1>4 DEF Placed, ListsTidy
<1>7. EachPlaced(gate, frames)'
  BY <1>3, <1>5 DEF EachPlaced, AtMostOnce, Somewhere, Placed
<1> QED  BY <1>6, <1>7 DEF Placed

LEMMA NotifyNextPlaces == GateInv /\ Placed /\ NotifyNext => Placed'
<1> SUFFICES ASSUME GateInv, Placed, NotifyNext PROVE Placed'
  OBVIOUS
<1>1. PICK l \in Top.todo : frames' = Replace([Top EXCEPT !.todo = @ \ {l}])
  BY DEF NotifyNext
<1> DEFINE f == [Top EXCEPT !.todo = @ \ {l}]
<1>2. frames \in Seq(Frame) /\ frames # <<>> /\ Top.phase = "listeners"
  BY DEF NotifyNext, GateInv, TypeOK
<1>3. Top \in [phase : {"listeners"}, todo : SUBSET Listener, since : Nat]
  BY <1>2, StackTyped DEF Frame
<1>4. f \in Frame /\ f.phase = "listeners"
  BY <1>3 DEF Frame
<1>5. frames' = Replace(f) /\ gate' = gate /\ fate' = fate
  BY <1>1 DEF NotifyNext
<1> HIDE DEF f
<1> QED  BY <1>2, <1>4, <1>5, IdlePlaces

LEMMA NotifyListenersPlaces == GateInv /\ Placed /\ NotifyListeners => Placed'
<1> SUFFICES ASSUME GateInv, Placed, NotifyListeners PROVE Placed'
  OBVIOUS
<1> DEFINE f == [Top EXCEPT !.phase = "listeners", !.todo = gate.listeners]
<1>1. /\ frames # <<>> /\ Top.phase = "held" /\ Top.todo = <<>> /\ frames' = Replace(f)
      /\ gate' = gate /\ fate' = fate
  BY DEF NotifyListeners
<1>2. f \in Frame /\ f.phase = "listeners"
  <2>1. Top \in Frame
    BY <1>1, StackTyped DEF GateInv, TypeOK
  <2>2. Top \in [phase : {"own", "held"}, todo : Seq(Consequence), since : Nat]
    BY <1>1, <2>1 DEF Frame
  <2> QED  BY <2>2 DEF GateInv, TypeOK, Frame
<1> HIDE DEF f
<1> QED  BY <1>1, <1>2, IdlePlaces

(* What waited for the tree becomes the innermost frame's.                 *)
LEMMA ReleaseHeldPlaces == GateInv /\ Placed /\ ReleaseHeld => Placed'
<1> SUFFICES ASSUME GateInv, Placed, ReleaseHeld PROVE Placed'
  OBVIOUS
<1>1. frames # <<>> /\ Top.todo = <<>> /\ fate' = fate /\ frames \in Seq(Frame)
  BY DEF ReleaseHeld, GateInv, TypeOK
<1>2. CASE ~Releases(gate)
  BY <1>1, <1>2, LeavePlaces DEF ReleaseHeld
<1>3. CASE Releases(gate)
  <2> DEFINE f == [phase |-> "held", todo |-> gate.held, since |-> Len(outcome)]
             n == Len(frames)
  <2>1. gate'.open = gate.open /\ gate'.own = gate.own /\ gate'.held = <<>>
    BY <1>3, GateFields DEF ReleaseHeld, Emptied, GateInv, TypeOK
  <2>2. f \in Frame /\ f.phase # "listeners" /\ f.todo = gate.held /\ frames' = Replace(f)
    BY <1>3 DEF ReleaseHeld, GateInv, TypeOK, Frame
  <2> HIDE DEF f
  <2>3. \A s : ~InFrame(frames, s, n)
    BY <1>1, StackTyped, NothingIsIn DEF InFrame
  <2>4. /\ \A s, i : InFrame(frames', s, i) <=>
              InFrame(frames, s, i) \/ (i = n /\ IsIn(gate.held, s))
        /\ \A i \in DOMAIN frames' :
              frames'[i].phase # "listeners" => NoRepeats(frames'[i].todo)
    BY <1>1, <2>2, <2>3, ReplacedFrames DEF Placed, ListsTidy
  <2>5. \A s, i : InOwn(gate', s, i) <=> InOwn(gate, s, i)
    BY <2>1 DEF InOwn
  <2>6. \A s : ~IsIn(gate'.held, s)
    BY <2>1, NothingIsIn
  <2>7. \A s : Waits(s)' <=> Waits(s)
    BY <1>1 DEF Waits
  <2>8. ListsTidy(gate', frames')
    BY <2>1, <2>4, NothingRepeats DEF Placed, ListsTidy
  <2>9. ASSUME NEW s
        PROVE  AtMostOnce(gate', frames', s) /\ (Somewhere(gate', frames', s) <=> Waits(s)')
    <3>1. AtMostOnce(gate, frames, s) /\ (Somewhere(gate, frames, s) <=> Waits(s))
      BY DEF Placed, EachPlaced
    <3>2. AtMostOnce(gate', frames', s)
      BY <2>3, <2>4, <2>5, <2>6, <3>1 DEF AtMostOnce
    <3>3. Somewhere(gate', frames', s) <=> Somewhere(gate, frames, s)
      BY <2>4, <2>5, <2>6 DEF Somewhere
    <3> QED  BY <2>7, <3>1, <3>2, <3>3
  <2> QED  BY <2>8, <2>9 DEF Placed, EachPlaced
<1> QED  BY <1>2, <1>3

LEMMA ReturnPlaces == GateInv /\ Placed /\ Return => Placed'
  BY LeavePlaces DEF Return

(* A teardown drops what stands in every list but those of the frames.     *)
LEMMA CancelPlaces == GateInv /\ Placed /\ Cancel => Placed'
<1> SUFFICES ASSUME GateInv, Placed, Cancel PROVE Placed'
  OBVIOUS
<1>1. CASE gate.open = {}
  <2>1. gate' = gate /\ frames' = frames /\ fate' = fate
    BY <1>1 DEF Cancel, Cancelled
  <2>2. \A s : Waits(s)' <=> Waits(s)
    BY <2>1 DEF Waits
  <2> QED  BY <2>1, <2>2 DEF Placed, EachPlaced
<1>2. CASE gate.open # {}
  <2> DEFINE those == Serials(gate.held) \cup (UNION {Serials(gate.own[id]) : id \in gate.open})
  <2>1. gate'.open = {} /\ gate'.held = <<>> /\ frames' = frames
    BY <1>2 DEF Cancel, Cancelled, InitialGate
  <2>2. \A s : s \in those <=> IsIn(gate.held, s) \/ \E id : InOwn(gate, s, id)
    BY DEF IsIn, InOwn
  <2>3. /\ fate' = Become(those, "dropped") /\ "dropped" \in Fate
        /\ fate \in Seq([by : Nat, is : Fate])
    BY <1>2 DEF Cancel, Fate, GateInv, TypeOK
  <2> HIDE DEF those
  <2>4. \A s : Waits(s)' <=> Waits(s) /\ s \notin those
    BY <2>3, BecomeWaits
  <2>5. \A s, i : ~InOwn(gate', s, i)
    BY <2>1 DEF InOwn
  <2>6. \A s : ~IsIn(gate'.held, s)
    BY <2>1, NothingIsIn
  <2>7. ListsTidy(gate', frames')
    BY <2>1, NothingRepeats DEF Placed, ListsTidy
  <2>8. ASSUME NEW s
        PROVE  AtMostOnce(gate', frames', s) /\ (Somewhere(gate', frames', s) <=> Waits(s)')
    <3>1. AtMostOnce(gate, frames, s) /\ (Somewhere(gate, frames, s) <=> Waits(s))
      BY DEF Placed, EachPlaced
    <3>2. AtMostOnce(gate', frames', s)
      BY <2>1, <2>5, <2>6, <3>1 DEF AtMostOnce
    <3>3. Somewhere(gate', frames', s) <=> Somewhere(gate, frames, s) /\ s \notin those
      BY <2>1, <2>2, <2>5, <2>6, <3>1 DEF Somewhere, AtMostOnce
    <3> QED  BY <2>4, <3>1, <3>2, <3>3
  <2> QED  BY <2>7, <2>8 DEF Placed, EachPlaced
<1> QED  BY <1>1, <1>2

LEMMA ListenPlaces ==
    ASSUME GateInv, Placed, NEW l \in Listener, Listen(l) \/ StopListening(l)
    PROVE  Placed'
<1>1. /\ gate'.open = gate.open /\ gate'.own = gate.own /\ gate'.held = gate.held
      /\ frames' = frames /\ fate' = fate
  BY DEF Listen, StopListening, GateInv, TypeOK
<1>2. \A s, i : InOwn(gate', s, i) <=> InOwn(gate, s, i)
  BY <1>1 DEF InOwn
<1>3. \A s : Waits(s)' <=> Waits(s)
  BY <1>1 DEF Waits
<1>4. ListsTidy(gate', frames')
  BY <1>1 DEF Placed, ListsTidy
<1>5. EachPlaced(gate, frames)'
  BY <1>1, <1>2, <1>3 DEF EachPlaced, AtMostOnce, Somewhere, Placed
<1> QED  BY <1>4, <1>5 DEF Placed

LEMMA NextPlaces == GateInv /\ Placed /\ [Next]_vars => Placed'
<1> SUFFICES ASSUME GateInv, Placed, [Next]_vars PROVE Placed'
  OBVIOUS
<1>1. CASE \E key \in Key : HoldForTree(key) \/ RunNow(key)
  BY <1>1, HoldForTreePlaces, RunNowPlaces
<1>2. CASE \E key \in Key, id \in gate.open : DeferInScope(key, id)
  BY <1>2, DeferInScopePlaces
<1>3. CASE \E id \in gate.open, how \in {"commit", "discard"} : Settle(id, how)
  BY <1>3, SettlePlaces
<1>4. CASE \E l \in Listener : Listen(l) \/ StopListening(l)
  BY <1>4, ListenPlaces
<1>5. CASE Proceed
  BY <1>5, RunNextPlaces, NotifyNextPlaces, ReleaseHeldPlaces, NotifyListenersPlaces,
     ReturnPlaces DEF Proceed
<1>6. CASE UNCHANGED vars
  <2>1. gate' = gate /\ frames' = frames /\ fate' = fate
    BY <1>6 DEF vars
  <2>2. \A s : Waits(s)' <=> Waits(s)
    BY <2>1 DEF Waits
  <2> QED  BY <2>1, <2>2 DEF Placed, EachPlaced
<1> QED  BY <1>1, <1>2, <1>3, <1>4, <1>5, <1>6, OpenScopePlaces, CancelPlaces DEF Next

-----------------------------------------------------------------------------
LEMMA InitialPlaces == Init => Placed
<1> SUFFICES ASSUME Init PROVE Placed
  OBVIOUS
<1>1. gate.open = {} /\ gate.held = <<>> /\ frames = <<>> /\ fate = <<>>
  BY DEF Init, InitialGate
<1>2. DOMAIN frames = {} /\ DOMAIN fate = {}
  BY <1>1
<1>3. ListsTidy(gate, frames)
  BY <1>1, <1>2, NothingRepeats DEF ListsTidy
<1>4. \A s, i : ~InOwn(gate, s, i) /\ ~InFrame(frames, s, i) /\ ~IsIn(gate.held, s)
  BY <1>1, <1>2, NothingIsIn DEF InOwn, InFrame
<1>5. \A s : ~Waits(s)
  BY <1>2 DEF Waits
<1>6. EachPlaced(gate, frames)
  BY <1>4, <1>5 DEF EachPlaced, AtMostOnce, Somewhere
<1> QED  BY <1>3, <1>6 DEF Placed

LEMMA PlacedHolds == Spec => []Placed
<1> QED  BY InitialPlaces, NextPlaces, GateInvHolds, PTL DEF Spec

(* What holds of at most one thing holds of one thing, or of none.         *)
LEMMA OneOrNone ==
    ASSUME NEW S, \A x, y \in S : x = y
    PROVE  Cardinality(S) = IF S = {} THEN 0 ELSE 1
<1>1. CASE S = {}
  BY <1>1, FS_EmptySet
<1>2. CASE S # {}
  <2>1. PICK x \in S : S = {x}
    BY <1>2
  <2> QED  BY <1>2, <2>1, FS_Singleton
<1> QED  BY <1>1, <1>2

(* However settlements nest, and whatever throws, a consequence that still *)
(* waits stands in exactly one list, and one whose fate is decided in      *)
(* none: none is forgotten and none is run a second time                   *)
(* (settleCommitScope, commit-consequence.ts:245-293).                     *)
THEOREM NothingIsEverLost == Spec => []NothingIsLost
<1>1. ASSUME GateInv, Placed, NEW s \in DOMAIN fate
      PROVE  Places(s) = IF fate[s].is = "waiting" THEN 1 ELSE 0
  <2> DEFINE O == {id \in gate.open : IsIn(gate.own[id], s)}
             F == {i \in DOMAIN frames : frames[i].phase # "listeners" /\ IsIn(frames[i].todo, s)}
             h == IF IsIn(gate.held, s) THEN 1 ELSE 0
  <2>1. AtMostOnce(gate, frames, s) /\ (Somewhere(gate, frames, s) <=> Waits(s))
    BY <1>1 DEF Placed, EachPlaced
  <2>2. /\ \A i : i \in O <=> InOwn(gate, s, i)
        /\ \A i : i \in F <=> InFrame(frames, s, i)
    BY DEF InOwn, InFrame
  <2>3. Places(s) = Cardinality(O) + Cardinality(F) + h
    BY DEF Places
  <2> HIDE DEF O, F
  <2>4. /\ Cardinality(O) = IF O = {} THEN 0 ELSE 1
        /\ Cardinality(F) = IF F = {} THEN 0 ELSE 1
    <3>1. \A x, y \in O : x = y
      BY <2>1, <2>2 DEF AtMostOnce
    <3>2. \A x, y \in F : x = y
      BY <2>1, <2>2 DEF AtMostOnce
    <3> QED  BY <3>1, <3>2, OneOrNone
  <2>5. /\ O # {} => F = {} /\ ~IsIn(gate.held, s)
        /\ F # {} => ~IsIn(gate.held, s)
        /\ Waits(s) <=> O # {} \/ F # {} \/ IsIn(gate.held, s)
    BY <2>1, <2>2 DEF AtMostOnce, Somewhere
  <2>6. Waits(s) <=> fate[s].is = "waiting"
    BY DEF Waits
  <2> QED  BY <2>3, <2>4, <2>5, <2>6
<1>2. GateInv /\ Placed => NothingIsLost
  BY <1>1 DEF NothingIsLost
<1> QED  BY <1>2, GateInvHolds, PlacedHolds, PTL

(* A consequence that waits no longer stands in no list, and only those in *)
(* a list become anything.                                                 *)
LEMMA StepKeepsFate ==
    ASSUME GateInv, Placed, [Next]_vars, NEW s \in DOMAIN fate, fate[s].is # "waiting"
    PROVE  fate'[s] = fate[s]
<1>0. fate \in Seq([by : Nat, is : Fate]) /\ frames \in Seq(Frame)
  BY DEF GateInv, TypeOK
<1>1. /\ \A i : ~InOwn(gate, s, i) /\ ~InFrame(frames, s, i)
      /\ ~IsIn(gate.held, s)
  BY DEF Placed, EachPlaced, Somewhere, Waits
<1>2. ASSUME NEW those, NEW is \in Fate, is # "waiting", fate' = Become(those, is),
             s \notin those
      PROVE  fate'[s] = fate[s]
  BY <1>0, <1>2, BecomeWaits
<1>3. CASE \E ok \in BOOLEAN : RunNext(ok)
  <2>1. PICK ok \in BOOLEAN : RunNext(ok)
    BY <1>3
  <2> DEFINE is == IF ok THEN "ran" ELSE "failed"
             h == Head(Top.todo).serial
  <2>2. /\ frames # <<>> /\ Top.phase # "listeners" /\ Top.todo # <<>>
        /\ fate' = Become({h}, is) /\ is \in Fate /\ is # "waiting"
    BY <2>1 DEF RunNext, Fate
  <2>3. Top \in Frame /\ Len(frames) \in DOMAIN frames /\ Top = frames[Len(frames)]
    BY <1>0, <2>2, StackTyped
  <2>4. Top.todo \in Seq(Consequence)
    BY <2>2, <2>3, FrameKinds
  <2>5. IsIn(Top.todo, h)
    BY <2>2, <2>3, <2>4, TailStands DEF Placed, ListsTidy
  <2> HIDE DEF is, h
  <2>6. s # h
    BY <1>1, <2>2, <2>3, <2>5 DEF InFrame
  <2> QED  BY <1>2, <2>2, <2>6
<1>4. ASSUME NEW list, NEW key, NEW by \in Nat, Supersede(list, key, by), ~IsIn(list, s)
      PROVE  fate'[s] = fate[s]
  <2>1. s \notin OfKey(list, key)
    BY <1>4 DEF OfKey, IsIn, Serials
  <2> QED  BY <1>0, <1>4, <2>1, SupersedeWaits
<1>5. CASE \E key \in Key : HoldForTree(key)
  BY <1>1, <1>4, <1>5 DEF HoldForTree, NoScope
<1>6. CASE \E key \in Key : RunNow(key)
  BY <1>0, <1>6 DEF RunNow
<1>7. CASE \E key \in Key, id \in gate.open : DeferInScope(key, id)
  <2>1. PICK key \in Key, id \in gate.open : DeferInScope(key, id)
    BY <1>7
  <2>2. id \in Nat /\ ~IsIn(gate.own[id], s)
    BY <1>1 DEF GateInv, TypeOK, InOwn
  <2> QED  BY <1>4, <2>1, <2>2 DEF DeferInScope
<1>8. CASE \E id \in gate.open, how \in {"commit", "discard"} : Settle(id, how)
  <2>1. PICK id \in gate.open, how \in {"commit", "discard"} : Settle(id, how)
    BY <1>8
  <2>2. fate' = fate \/ fate' = Become(Serials(gate.own[id]), "dropped")
    BY <2>1 DEF Settle
  <2>3. "dropped" \in Fate /\ s \notin Serials(gate.own[id])
    BY <1>1 DEF Fate, InOwn, IsIn
  <2> QED  BY <1>2, <2>2, <2>3
<1>9. CASE Cancel
  <2> DEFINE those == Serials(gate.held) \cup (UNION {Serials(gate.own[id]) : id \in gate.open})
  <2>1. fate' = fate \/ fate' = Become(those, "dropped")
    BY <1>9 DEF Cancel
  <2>2. "dropped" \in Fate /\ s \notin those
    BY <1>1 DEF Fate, InOwn, IsIn
  <2> HIDE DEF those
  <2> QED  BY <1>2, <2>1, <2>2
<1>10. OpenScope \/ (\E l \in Listener : Listen(l) \/ StopListening(l)) \/ UNCHANGED vars
      \/ NotifyNext \/ ReleaseHeld \/ NotifyListeners \/ Return
      => fate' = fate
  BY DEF OpenScope, Listen, StopListening, vars, NotifyNext, ReleaseHeld, NotifyListeners, Return
<1> QED  BY <1>3, <1>5, <1>6, <1>7, <1>8, <1>9, <1>10 DEF Next, Proceed

(* What became of a consequence is never revised: one that was dropped     *)
(* with its scope, or replaced by a later one of its key, does not run     *)
(* after all, and one that ran does not run again (settleCommitScope and   *)
(* cancelCommitScopes, commit-consequence.ts:245-310).                     *)
THEOREM FateIsAlwaysFinal == Spec => FateIsFinal
<1>1. GateInv /\ Placed /\ [Next]_vars =>
         [\A s \in DOMAIN fate : fate[s].is # "waiting" => fate'[s] = fate[s]]_vars
  BY StepKeepsFate
<1> QED  BY <1>1, GateInvHolds, PlacedHolds, PTL DEF Spec, FateIsFinal
=============================================================================
