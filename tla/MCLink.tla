------------------------------- MODULE MCLink -------------------------------
(* TLC instances of a link over one scalar location.                       *)
EXTENDS Link, TLC

CONSTANTS x, v0, v1, v2

OneCell == {x}
ThreeValues == {v0, v1, v2}
Anywhere == {"outside", "callback"}

Values == Permutations({v1, v2})
=============================================================================
