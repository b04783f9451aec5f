--------------------------- MODULE MCRestoration ---------------------------
(* Instances of Restoration: a position with a leaf and a position with a  *)
(* row, so that a turn may touch one, the other or both.                   *)
EXTENDS Restoration

MCPositions == {"doc", "list"}
MCCells == {"title", "row"}
MCRows == {"row"}
MCOwner == [c \in MCCells |-> IF c = "title" THEN "doc" ELSE "list"]
AllScopes == {MCPositions, {"doc"}}
RootScope == {MCPositions}

EveryKind == {"designated", "plain", "realized"}
Authored == {"designated", "plain"}
NoLets == {}
=============================================================================
