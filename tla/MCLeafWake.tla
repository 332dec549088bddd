----------------------------- MODULE MCLeafWake ----------------------------
(***************************************************************************)
(* An instance of LeafWake: two cards.                                     *)
(***************************************************************************)
EXTENDS LeafWake

CONSTANTS own, other

MCCard == {own, other}
=============================================================================
