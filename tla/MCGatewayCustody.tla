-------------------------- MODULE MCGatewayCustody --------------------------
(* GatewayCustody for TLC: two events, a ring of two, a card of one entry. *)
EXTENDS GatewayCustody

CONSTANTS e1, e2

MCEvent == {e1, e2}
=============================================================================
