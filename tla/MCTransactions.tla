--------------------------- MODULE MCTransactions ---------------------------
(* TLC instances of the transaction runtime.  Cells are interchangeable,   *)
(* and so are the values other than the first: nothing computes with them. *)
EXTENDS Transactions, TLC

CONSTANTS x, y, v0, v1, v2, v3

OneCell == {x}
TwoCells == {x, y}
ThreeValues == {v0, v1, v2}
FourValues == {v0, v1, v2, v3}
Nowhere == {}
Outside == {"outside"}
InCallback == {"callback"}
Anywhere == {"outside", "callback"}

CellsAndValues == Permutations({x, y}) \cup Permutations({v1, v2})
Values == Permutations({v1, v2, v3})
=============================================================================
