---------------------------- MODULE MCCollection ----------------------------
(***************************************************************************)
(* Collection on small instances.                                          *)
(***************************************************************************)
EXTENDS Collection

CONSTANTS ka, kb, kc, kd    \* business keys

MCThreeKeys == {ka, kb, kc}
MCFourKeys == {ka, kb, kc, kd}
MCTwoRows == <<ka, kb>>
=============================================================================
