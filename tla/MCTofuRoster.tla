---------------------------- MODULE MCTofuRoster ----------------------------
(* TofuRoster for TLC.                                                     *)
EXTENDS TofuRoster

CONSTANTS a, b, c

MCThree == {a, b, c}
=============================================================================
