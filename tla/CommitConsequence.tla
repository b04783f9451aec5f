------------------------- MODULE CommitConsequence --------------------------
(***************************************************************************)
(* The gate in front of durable work (commit-consequence.ts), for one tree *)
(* and the one owner that opens its scopes.  A transaction opens a scope   *)
(* and settles it later; a consequence is deferred in the scope of the     *)
(* transaction whose callback schedules it, held while any scope is open,  *)
(* or run on the spot.                                                     *)
(*                                                                         *)
(* Settling runs consequences and listeners, which may call the gate       *)
(* themselves: every settlement in progress is a frame of `frames', the    *)
(* innermost last, and each consequence it runs is a step.  Between any    *)
(* two steps the program may call the gate: a call made while a settlement *)
(* is in progress is one made by the consequence or listener just run.     *)
(***************************************************************************)
EXTENDS Naturals, Sequences, FiniteSets

CONSTANTS
    Key,          \* what consequences collapse by
    Listener,     \* settlement listeners
    MaxScopes,    \* bound: scopes opened
    MaxScheduled  \* bound: consequences scheduled

ASSUME BoundsAssumption == MaxScopes \in Nat /\ MaxScheduled \in Nat

VARIABLES
    gate,     \* [open, own, held, listeners]
    frames,   \* settleCommitScope calls on the stack: [phase, todo, since],
              \*   since (history): how many scopes there were at its last look
    outcome,  \* scope id -> "open", "commit", "discard" or "cancelled"
    fate,     \* history: serial -> [by, is]: what became of a consequence
    torn      \* history: the owner was torn down

vars == <<gate, frames, outcome, fate, torn>>

NoScope == 0

InitialGate == [open |-> {}, own |-> <<>>, held |-> <<>>, listeners |-> {}]

-----------------------------------------------------------------------------
(* The gate's operations, as functions of its state                        *)

(* Map.set: the last consequence of a key, where its first one stood.      *)
Put(list, c) ==
    IF \E i \in DOMAIN list : list[i].key = c.key
    THEN [i \in DOMAIN list |-> IF list[i].key = c.key THEN c ELSE list[i]]
    ELSE Append(list, c)

(* openCommitScope, before the callback of the transaction runs.           *)
Opened(g, id) ==
    [g EXCEPT !.open = @ \cup {id},
              !.own = [i \in g.open \cup {id} |-> IF i = id THEN <<>> ELSE g.own[i]]]
Deferred(g, id, c) == [g EXCEPT !.own[id] = Put(@, c)]
HeldBack(g, c) == [g EXCEPT !.held = Put(@, c)]
(* Mutant: a settled scope leaves its list behind.                         *)
ClosedButKept(g, id) == [g EXCEPT !.open = @ \ {id}]

Closed(g, id) ==
    [g EXCEPT !.open = @ \ {id}, !.own = [i \in g.open \ {id} |-> g.own[i]]]

(* Mutant: a discarded scope's consequences run as well.                   *)
OwnWorkWhatever(g, id, how) == g.own[id]

(* What a settled scope runs of its own.                                   *)
OwnWork(g, id, how) == IF how = "commit" THEN g.own[id] ELSE <<>>

(* Mutant: one settled scope releases what waits for the whole tree.       *)
ReleasesAlways(g) == TRUE

(* Mutant: the settling scope is counted as open.                          *)
ReleasesTooEarly(g) == Cardinality(g.open) = 1

Releases(g) == g.open = {}
Emptied(g) == [g EXCEPT !.held = <<>>]

(* Mutant: what waits for the tree survives its owner.                     *)
CancelledButHeld(g) == [InitialGate EXCEPT !.held = g.held]

(* A teardown forgets the tree's scopes, and with them all the rest; it    *)
(* finds nothing to forget when no scope is open.                          *)
Cancelled(g) == IF g.open = {} THEN g ELSE InitialGate

-----------------------------------------------------------------------------

Top == frames[Len(frames)]
Below == SubSeq(frames, 1, Len(frames) - 1)
Replace(frame) == Append(Below, frame)

Serials(list) == {list[i].serial : i \in DOMAIN list}

Become(those, is) ==
    [s \in DOMAIN fate |-> IF s \in those THEN [fate[s] EXCEPT !.is = is] ELSE fate[s]]

(* What a consequence of this key takes the place of, in a list.           *)
OfKey(list, key) == {list[i].serial : i \in {j \in DOMAIN list : list[j].key = key}}

(* The next consequence, scheduled by transaction `by', into a list.       *)
Scheduled(key) == [key |-> key, serial |-> Len(fate) + 1]
Supersede(list, key, by) ==
    fate' = Append(Become(OfKey(list, key), "replaced"),
                   [by |-> by, is |-> "waiting"])

(* transact and settlement refuse a destroyed tree (transactions.ts).      *)
OpenScope ==
    /\ ~torn
    /\ Len(outcome) < MaxScopes
    /\ gate' = Opened(gate, Len(outcome) + 1)
    /\ outcome' = Append(outcome, "open")
    /\ UNCHANGED <<frames, fate, torn>>

(* scheduleDurableConsequence, within the callback of an open transaction, *)
DeferInScope(key, id) ==
    /\ Len(fate) < MaxScheduled
    /\ id \in gate.open
    /\ gate' = Deferred(gate, id, Scheduled(key))
    /\ Supersede(gate.own[id], key, id)
    /\ UNCHANGED <<frames, outcome, torn>>

(* Mutant: whatever is not attributed waits.                               *)
HoldAlways(key) ==
    /\ Len(fate) < MaxScheduled
    /\ gate' = HeldBack(gate, Scheduled(key))
    /\ Supersede(gate.held, key, NoScope)
    /\ UNCHANGED <<frames, outcome, torn>>

(* outside of one while some transaction is unsettled,                     *)
HoldForTree(key) ==
    /\ Len(fate) < MaxScheduled
    /\ gate.open # {}
    /\ gate' = HeldBack(gate, Scheduled(key))
    /\ Supersede(gate.held, key, NoScope)
    /\ UNCHANGED <<frames, outcome, torn>>

(* and when none is.                                                       *)
RunNow(key) ==
    /\ Len(fate) < MaxScheduled
    /\ gate.open = {}
    /\ fate' = Append(fate, [by |-> NoScope, is |-> "ran"])
    /\ UNCHANGED <<gate, frames, outcome, torn>>

-----------------------------------------------------------------------------
(* settleCommitScope                                                       *)

(* The scope is closed first; a second settlement finds none.              *)
Settle(id, how) ==
    /\ ~torn
    /\ id \in gate.open
    /\ gate' = Closed(gate, id)
    /\ outcome' = [outcome EXCEPT ![id] = how]
    /\ frames' = Append(frames, [phase |-> "own", todo |-> OwnWork(gate, id, how),
                                since |-> Len(outcome)])
    /\ fate' = IF how = "commit" THEN fate ELSE Become(Serials(gate.own[id]), "dropped")
    /\ UNCHANGED torn

(* Mutant: the first failure ends the loop.                                *)
RunUntilFailure(ok) ==
    /\ frames # <<>> /\ Top.phase # "listeners" /\ Top.todo # <<>>
    /\ fate' = Become({Head(Top.todo).serial}, IF ok THEN "ran" ELSE "failed")
    /\ frames' = Replace([Top EXCEPT !.todo = IF ok THEN Tail(@) ELSE <<>>])
    /\ UNCHANGED <<gate, outcome, torn>>

(* Each consequence is attempted, whether or not it throws; the first      *)
(* error is rethrown when the call returns, and changes nothing here.      *)
RunNext(ok) ==
    /\ frames # <<>> /\ Top.phase # "listeners" /\ Top.todo # <<>>
    /\ fate' = Become({Head(Top.todo).serial}, IF ok THEN "ran" ELSE "failed")
    /\ frames' = Replace([Top EXCEPT !.todo = Tail(@)])
    /\ UNCHANGED <<gate, outcome, torn>>

(* Listeners are told in the order they came; any order is taken here.     *)
NotifyNext ==
    /\ frames # <<>> /\ Top.phase = "listeners"
    /\ \E l \in Top.todo : frames' = Replace([Top EXCEPT !.todo = @ \ {l}])
    /\ UNCHANGED <<gate, outcome, fate, torn>>

(* The scope's own work is done, and if no scope is open now, what waited  *)
(* for the tree is next; if one is, the call returns.                      *)
ReleaseHeld ==
    /\ frames # <<>> /\ Top.phase = "own" /\ Top.todo = <<>>
    /\ IF Releases(gate)
       THEN /\ gate' = Emptied(gate)
            /\ frames' = Replace([phase |-> "held", todo |-> gate.held,
                                 since |-> Len(outcome)])
       ELSE /\ frames' = Below
            /\ UNCHANGED gate
    /\ UNCHANGED <<outcome, fate, torn>>

(* The listeners of this moment are notified, whatever they do.            *)
NotifyListeners ==
    /\ frames # <<>> /\ Top.phase = "held" /\ Top.todo = <<>>
    /\ frames' = Replace([Top EXCEPT !.phase = "listeners", !.todo = gate.listeners])
    /\ UNCHANGED <<gate, outcome, fate, torn>>

Return ==
    /\ frames # <<>> /\ Top.phase = "listeners" /\ Top.todo = {}
    /\ frames' = Below
    /\ UNCHANGED <<gate, outcome, fate, torn>>

(* cancelCommitScopes, when the owner is torn down.                        *)
Cancel ==
    /\ ~torn
    /\ torn' = TRUE
    /\ gate' = Cancelled(gate)
    /\ outcome' = [id \in DOMAIN outcome |->
                      IF id \in gate.open THEN "cancelled" ELSE outcome[id]]
    /\ fate' = IF gate.open = {} THEN fate
               ELSE Become(Serials(gate.held)
                               \cup (UNION {Serials(gate.own[id]) : id \in gate.open}),
                           "dropped")
    /\ UNCHANGED frames

(* onCommitScopesSettled, and the unsubscription it returns.               *)
Listen(l) ==
    /\ gate' = [gate EXCEPT !.listeners = @ \cup {l}]
    /\ UNCHANGED <<frames, outcome, fate, torn>>

StopListening(l) ==
    /\ gate' = [gate EXCEPT !.listeners = @ \ {l}]
    /\ UNCHANGED <<frames, outcome, fate, torn>>

-----------------------------------------------------------------------------

Init ==
    /\ gate = InitialGate
    /\ frames = <<>>
    /\ outcome = <<>>
    /\ fate = <<>>
    /\ torn = FALSE

Proceed ==
    \/ \E ok \in BOOLEAN : RunNext(ok)
    \/ NotifyNext \/ ReleaseHeld \/ NotifyListeners \/ Return

Next ==
    \/ OpenScope \/ Cancel
    \/ \E key \in Key : HoldForTree(key) \/ RunNow(key)
    \/ \E key \in Key, id \in gate.open : DeferInScope(key, id)
    \/ \E id \in gate.open, how \in {"commit", "discard"} : Settle(id, how)
    \/ \E l \in Listener : Listen(l) \/ StopListening(l)
    \/ Proceed

(* A settlement is synchronous code: once entered it runs on.              *)
Spec == Init /\ [][Next]_vars /\ WF_vars(Proceed)

-----------------------------------------------------------------------------

Consequence == [key : Key, serial : Nat \ {0}]
Fate == {"waiting", "ran", "failed", "dropped", "replaced"}
Frame == [phase : {"own", "held"}, todo : Seq(Consequence), since : Nat]
         \cup [phase : {"listeners"}, todo : SUBSET Listener, since : Nat]

(* The gate, its frames and the histories have the shape the code gives    *)
(* them: a list of consequences for exactly the scopes that are open.      *)
TypeOK ==
    /\ DOMAIN gate = {"open", "own", "held", "listeners"}
    /\ gate.open \subseteq 1..Len(outcome)
    /\ DOMAIN gate.own = gate.open
    /\ \A id \in gate.open : gate.own[id] \in Seq(Consequence)
    /\ gate.held \in Seq(Consequence)
    /\ gate.listeners \subseteq Listener
    /\ frames \in Seq(Frame)
    /\ outcome \in Seq({"open", "commit", "discard", "cancelled"})
    /\ fate \in Seq([by : Nat, is : Fate])
    /\ torn \in BOOLEAN

IsIn(list, s) == s \in Serials(list)

(* How many lists hold consequence s.                                      *)
Places(s) ==
    Cardinality({id \in gate.open : IsIn(gate.own[id], s)})
    + Cardinality({i \in DOMAIN frames : /\ frames[i].phase # "listeners"
                                         /\ IsIn(frames[i].todo, s)})
    + (IF IsIn(gate.held, s) THEN 1 ELSE 0)

(* A consequence that has not run, failed, or been dropped or replaced     *)
(* stands in exactly one list, and one that has stands in none: nothing is *)
(* lost when a consequence throws or a settlement nests in another, and    *)
(* nothing runs twice (settleCommitScope, commit-consequence.ts:245-293).  *)
NothingIsLost ==
    \A s \in DOMAIN fate : Places(s) = IF fate[s].is = "waiting" THEN 1 ELSE 0

(* A consequence waits for the tree only while a scope is open, or while a *)
(* settlement that has yet to look is on the stack: it is never stranded   *)
(* by the order in which scopes open and settle, nested calls included.    *)
NoStrandedHold ==
    gate.held # <<>> => \/ gate.open # {}
                        \/ \E i \in DOMAIN frames : frames[i].phase = "own"

(* What became of a consequence is final: none runs after it was dropped   *)
(* with its scope, replaced by a later one of its key, or has run.         *)
FateIsFinal ==
    [][\A s \in DOMAIN fate : fate[s].is # "waiting" => fate'[s] = fate[s]]_vars

(* A consequence deferred in a transaction's scope runs only after that    *)
(* transaction was settled to commit.                                      *)
OnlyCommittedRuns ==
    [][\A s \in DOMAIN fate :
          /\ fate'[s].is # fate[s].is /\ fate'[s].is \in {"ran", "failed"}
          /\ fate[s].by # NoScope
          => outcome[fate[s].by] = "commit"]_vars

(* While what waited for the tree runs, and while the listeners are told   *)
(* that every scope has settled, no scope is open but those that this very *)
(* work opened: every scope there was at the release had settled, whoever  *)
(* settled it (settleCommitScope, commit-consequence.ts:277-289).          *)
ReleaseMeansSettled ==
    \A i \in DOMAIN frames : frames[i].phase # "own" =>
        \A id \in gate.open : id > frames[i].since

Waits(s) == s \in DOMAIN fate /\ fate[s].is = "waiting"

(* A consequence does not wait on a tree without an open scope: a          *)
(* settlement in progress reaches it, or someone opens a scope.            *)
HoldsAreReleased ==
    \A s \in 1..MaxScheduled :
        Waits(s) ~> (~Waits(s) \/ gate.open # {})
=============================================================================
