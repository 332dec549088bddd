------------------------------- MODULE MCAdr --------------------------------
(* Adr for TLC.                                                            *)
EXTENDS Adr, TLC

CONSTANTS a, b

MCTwo == {a, b}
MCSymmetry == Permutations(MCTwo)
=============================================================================
