--------------------------- MODULE StructuralStore ---------------------------
(***************************************************************************)
(* The structural store of one entity collection (structural-store.ts):    *)
(* which subject each business key names, the life of every subject, and   *)
(* the chain that gives the live rows their order.  A store is a record    *)
(*                                                                         *)
(*    ids       key -> subject, for the live rows          (subjectIds)    *)
(*    states    subject -> its key, or NoKey when dead  (subjectStates)    *)
(*    chain     the live nodes from head to tail         (activeNodes..)   *)
(*    frontier  the identity of the current order         (orderFrontier)  *)
(*    next      the next subject to be given out         (nextSubjectId)   *)
(*                                                                         *)
(* The code keeps the chain as a doubly linked list with an index by key   *)
(* and one by subject; here it is a sequence and the indexes are searches. *)
(* A frontier is a fresh object in the code and a number here: whoever     *)
(* moves the order hands in one that nothing else holds.  Row values,      *)
(* subject revisions and handles are left out.                             *)
(***************************************************************************)
EXTENDS Integers, SequencesExt

CONSTANT NoKey    \* "no key": the state of a dead subject, an absent effect side

Node(subject, key) == [subject |-> subject, key |-> key]

(* The map f with v at x.                                                  *)
SetKey(f, x, v) == [y \in DOMAIN f \cup {x} |-> IF y = x THEN v ELSE f[y]]

(* The items of a list that are in S, in their order.                      *)
Within(list, S) == FoldLeft(LAMBDA r, x : IF x \in S THEN Append(r, x) ELSE r, <<>>, list)

(* The index of a subject or of a key in a chain, 0 when it is not there.  *)
IndexOfSubject(chain, s) == SelectInSeq(chain, LAMBDA node : node.subject = s)
IndexOfKey(chain, k)     == SelectInSeq(chain, LAMBDA node : node.key = k)

SubjectsOf(chain) == [i \in DOMAIN chain |-> chain[i].subject]
IsLive(store, s)  == IndexOfSubject(store.chain, s) # 0

ActiveKeyForSubject(store, s) ==
    IF s \in DOMAIN store.states THEN store.states[s] ELSE NoKey

(* The subject at a position of the chain; 0, "undefined", outside of it.  *)
SubjectAt(chain, i) == IF i \in DOMAIN chain THEN chain[i].subject ELSE 0

EmptyStore == [ids |-> [k \in {} |-> 0], states |-> [s \in {} |-> NoKey],
               chain |-> <<>>, frontier |-> 0, next |-> 1]

ActivateSubject(store, s, k) ==
    [store EXCEPT !.ids = SetKey(@, k, s), !.states = SetKey(@, s, k)]

ForgetKey(store, k) ==
    [store EXCEPT !.ids = [x \in DOMAIN @ \ {k} |-> @[x]]]

CreateSubject(store, s, k, frontier) ==
    [ActivateSubject(store, s, k) EXCEPT
        !.chain = Append(@, Node(s, k)),
        !.next = IF s + 1 > @ THEN s + 1 ELSE @,
        !.frontier = frontier]

(* The rows of a list of keys that are not there yet.                      *)
CreateEach(store, keys, frontier) ==
    FoldLeft(LAMBDA w, k : IF k \in DOMAIN w.ids THEN w ELSE CreateSubject(w, w.next, k, frontier),
             store, keys)

(* A row keeps its node, so its place, and the order its frontier.         *)
TransferSubject(store, s, from, to) ==
    LET i == IndexOfKey(store.chain, from)
    IN  [ActivateSubject(ForgetKey(store, from), s, to) EXCEPT
            !.chain = IF i = 0 THEN Append(@, Node(s, to)) ELSE [@ EXCEPT ![i].key = to]]

(* Mutant: the key of a dead row stays in the key index.                   *)
TombstoneKeepsKey(store, s, k, frontier) ==
    [store EXCEPT !.chain = Within(@, {node \in ToSet(@) : node.key # k}),
                  !.states = SetKey(@, s, NoKey),
                  !.frontier = frontier]

TombstoneSubject(store, s, k, frontier) ==
    [ForgetKey(store, k) EXCEPT
        !.chain = Within(@, {node \in ToSet(@) : node.key # k}),
        !.states = SetKey(@, s, NoKey),
        !.frontier = frontier]

TombstoneEach(store, nodes, frontier) ==
    FoldLeft(LAMBDA w, node : TombstoneSubject(w, node.subject, node.key, frontier), store, nodes)

(* Mutant: a row without a right neighbour is put in front of the left one. *)
RestorePlaceBefore(chain, left, right) ==
    LET l == IndexOfSubject(chain, left)
        r == IndexOfSubject(chain, right)
    IN  CASE r # 0 -> r
          [] r = 0 /\ l # 0 -> l
          [] OTHER -> Len(chain) + 1

(* Where a row comes back: in front of its right neighbour, else behind    *)
(* its left one, else at the tail.  Two live neighbours that stand the     *)
(* wrong way round are resolved by the right one as well.                  *)
RestorePlace(chain, left, right) ==
    LET l == IndexOfSubject(chain, left)
        r == IndexOfSubject(chain, right)
    IN  CASE r # 0 -> r
          [] r = 0 /\ l # 0 -> l + 1
          [] OTHER -> Len(chain) + 1

RestoreSubject(store, s, k, left, right, frontier) ==
    [ActivateSubject(store, s, k) EXCEPT
        !.chain = InsertAt(@, RestorePlace(@, left, right), Node(s, k)),
        !.frontier = frontier]

NodesOf(chain, keys) == [i \in DOMAIN keys |-> chain[IndexOfKey(chain, keys[i])]]

MoveKeysToFront(store, keys, frontier) ==
    [store EXCEPT
        !.chain = NodesOf(@, keys) \o Within(@, {node \in ToSet(@) : node.key \notin ToSet(keys)}),
        !.frontier = frontier]

ReorderActiveKeys(store, keys, frontier) ==
    [store EXCEPT !.chain = NodesOf(@, keys), !.frontier = frontier]

(* The neighbours of a live row.                                           *)
NeighborSubjectsForKey(store, k) ==
    LET i == IndexOfKey(store.chain, k)
    IN  [left |-> SubjectAt(store.chain, i - 1), right |-> SubjectAt(store.chain, i + 1)]

(* A complete target in one step: `keys` names the rows that are to live,  *)
(* `order` their order.                                                    *)
CanInstall(store, keys, order) ==
    /\ \A s, t \in DOMAIN keys : keys[s] = keys[t] => s = t
    /\ DOMAIN keys \subseteq DOMAIN store.states
    /\ Len(order) = Cardinality(DOMAIN keys) /\ ToSet(order) = DOMAIN keys

InstallTarget(store, keys, order, frontier) ==
    [ids |-> [k \in {keys[s] : s \in DOMAIN keys} |-> CHOOSE s \in DOMAIN keys : keys[s] = k],
     states |-> [s \in DOMAIN store.states |-> IF s \in DOMAIN keys THEN keys[s] ELSE NoKey],
     chain |-> [i \in DOMAIN order |-> Node(order[i], keys[order[i]])],
     frontier |-> frontier,
     next |-> store.next]

(* What the store's own integrity check asserts: the chain, the key index  *)
(* and the subjects' states tell the same story.                           *)
IndexesAgree(store) ==
    /\ \A i, j \in DOMAIN store.chain :
          store.chain[i].subject = store.chain[j].subject => i = j
    /\ {<<node.key, node.subject>> : node \in ToSet(store.chain)}
          = {<<k, store.ids[k]>> : k \in DOMAIN store.ids}
    /\ {<<node.subject, node.key>> : node \in ToSet(store.chain)}
          = {<<s, store.states[s]>> : s \in {t \in DOMAIN store.states : store.states[t] # NoKey}}
    /\ \A s \in DOMAIN store.states : s < store.next
=============================================================================
