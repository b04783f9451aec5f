-------------------------- MODULE RollbackEvidence --------------------------
(***************************************************************************)
(* What the transaction ledger promises to rollback, with no ledger in it. *)
(* Every turn that is still pending owns the chronological list of the     *)
(* effects that landed after it opened: effects of turns younger than it,  *)
(* at the moment they became confirmed, and effects nobody authored        *)
(* (realizations), at the moment they were observed.  Nothing ever leaves  *)
(* the list of a turn while that turn is pending.                          *)
(***************************************************************************)
EXTENDS Naturals, Sequences

CONSTANT Effect  \* what a turn did to one location; opaque here

VARIABLES
    nextTurnId,  \* the id the next turn takes; ids are never reused
    proposal,    \* pending turn id -> the effects it would keep or undo
    evidence     \* pending turn id -> what landed after it opened, in order

vars == <<nextTurnId, proposal, evidence>>

Pending == DOMAIN proposal

Forget(f, ids) == [p \in DOMAIN f \ ids |-> f[p]]

(* `effects` land now: every pending turn p with Later(p) sees them last.  *)
Landed(effects, Later(_)) ==
    [p \in Pending |-> IF Later(p) THEN evidence[p] \o effects ELSE evidence[p]]

Init ==
    /\ nextTurnId = 1
    /\ proposal = [p \in {} |-> <<>>]
    /\ evidence = [p \in {} |-> <<>>]

Open(effects) ==
    /\ nextTurnId' = nextTurnId + 1
    /\ proposal' = [p \in Pending \cup {nextTurnId} |->
                        IF p = nextTurnId THEN effects ELSE proposal[p]]
    /\ evidence' = [p \in Pending \cup {nextTurnId} |->
                        IF p = nextTurnId THEN <<>> ELSE evidence[p]]

(* An ordinary write: confirmed at birth and younger than every pending.   *)
Author(effects) ==
    /\ nextTurnId' = nextTurnId + 1
    /\ UNCHANGED proposal
    /\ evidence' = Landed(effects, LAMBDA p : TRUE)

Observe(effects) ==
    /\ UNCHANGED <<nextTurnId, proposal>>
    /\ evidence' = Landed(effects, LAMBDA p : TRUE)

(* A confirmed turn is later work only for the turns older than it.        *)
Confirm(t) ==
    /\ t \in Pending
    /\ UNCHANGED nextTurnId
    /\ proposal' = Forget(proposal, {t})
    /\ evidence' = Forget(Landed(proposal[t], LAMBDA p : p < t), {t})

(* Rejection, or teardown of the tree: the rights of the turns are gone.   *)
Discard(ids) ==
    /\ ids \subseteq Pending
    /\ UNCHANGED nextTurnId
    /\ proposal' = Forget(proposal, ids)
    /\ evidence' = Forget(evidence, ids)

CONSTANT EffectLists  \* the effect lists a single turn or observation carries

Next ==
    \/ \E effects \in EffectLists : Open(effects) \/ Author(effects) \/ Observe(effects)
    \/ \E t \in Pending : Confirm(t)
    \/ \E ids \in SUBSET Pending : Discard(ids)

Spec == Init /\ [][Next]_vars
=============================================================================
