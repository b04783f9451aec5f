----------------------------- MODULE Proposals ------------------------------
(***************************************************************************)
(* What transactions promise, with no queue, ledger or plan in it.  The    *)
(* truth of a cell is a stack of the writes that still stand; the cell     *)
(* shows the top one.  A transaction proposes writes; accepting it makes   *)
(* them ordinary, rejecting it takes exactly its writes out of the stacks, *)
(* which is allowed only when no standing write rests on one of them.      *)
(***************************************************************************)
EXTENDS Naturals, Sequences, SequencesExt

CONSTANTS Cell, Value, Initially, Intent

VARIABLES
    shown,   \* cell -> the value a reader sees
    layers,  \* cell -> the standing writes, oldest first
    status   \* transaction -> "running", "pending", "confirmed" or "rejected"

vars == <<shown, layers, status>>

Settled == 0   \* the author of every write that can no longer be rejected

Top(stack) == IF stack = <<>> THEN Initially ELSE stack[Len(stack)].value
Without(stack, n) ==
    FlattenSeq([i \in DOMAIN stack |-> IF stack[i].by = n THEN <<>> ELSE <<stack[i]>>])
Relabel(stack, n) ==
    [i \in DOMAIN stack |-> IF stack[i].by = n THEN [stack[i] EXCEPT !.by = Settled]
                                               ELSE stack[i]]

(* A transaction cannot be taken out from under another's write, unless a  *)
(* replacement by another, which rests on nothing, lies above it.          *)
Rejectable(stack, n) ==
    \A i \in DOMAIN stack :
        LET others == {j \in i + 1 .. Len(stack) : stack[j].by # n} IN
        stack[i].by = n /\ others # {}
            => \E j \in others : stack[j].intent = "replace"

Init ==
    /\ layers = [c \in Cell |-> <<>>]
    /\ shown = [c \in Cell |-> Initially]
    /\ status = <<>>

Begin ==
    /\ status' = Append(status, "running")
    /\ UNCHANGED <<shown, layers>>

Write(c, v, intent, by) ==
    /\ by = Settled \/ (by \in DOMAIN status /\ status[by] = "running")
    /\ layers' = [layers EXCEPT ![c] = Append(@, [by |-> by, value |-> v, intent |-> intent])]
    /\ shown' = [shown EXCEPT ![c] = v]
    /\ UNCHANGED status

Propose(n) ==
    /\ status[n] = "running"
    /\ status' = [status EXCEPT ![n] = "pending"]
    /\ UNCHANGED <<shown, layers>>

Accept(n) ==
    /\ status[n] = "pending"
    /\ status' = [status EXCEPT ![n] = "confirmed"]
    /\ layers' = [c \in Cell |-> Relabel(layers[c], n)]
    /\ UNCHANGED shown

(* A callback that threw is rejected on the spot, without being proposed.  *)
Reject(n) ==
    /\ status[n] \in {"running", "pending"}
    /\ \A c \in Cell : Rejectable(layers[c], n)
    /\ status' = [status EXCEPT ![n] = "rejected"]
    /\ layers' = [c \in Cell |-> Without(layers[c], n)]
    /\ shown' = [c \in Cell |-> Top(layers'[c])]

Next ==
    \/ Begin
    \/ \E c \in Cell, v \in Value, intent \in Intent, by \in {Settled} \cup DOMAIN status :
           Write(c, v, intent, by)
    \/ \E n \in DOMAIN status : Propose(n) \/ Accept(n) \/ Reject(n)

Spec == Init /\ [][Next]_vars
=============================================================================
