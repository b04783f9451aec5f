----------------------- MODULE MCTransactionAuthority -----------------------
(* TLC instances of the transaction ledger.  The effects are opaque: two   *)
(* of them tell an order from its reverse, and one row subject tells a     *)
(* turn that claims from one that does not.                                *)
EXTENDS TransactionAuthority

CONSTANTS e1, e2, e3, s1

MCEffect == {e1, e2, e3}
MCSubject == {s1}
NoSubjects == {}

(* e2 and e3 are two values of one location, e1 is another location.       *)
MCEvidenceKey(e) == IF e = e1 THEN 1 ELSE 2

ListsOfOne == {<<>>, <<e1>>}            \* what is retained, not its order
OrderedLists == {<<e1>>, <<e2, e1>>}    \* the order of arrivals
NoQueue == {<<>>}
Queues == {<<e2>>, <<e3>>}            \* two values of one location
=============================================================================
