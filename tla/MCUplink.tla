------------------------------ MODULE MCUplink -----------------------------
(***************************************************************************)
(* An instance of Uplink: two networks, one of which a bench build has     *)
(* baked in.                                                               *)
(***************************************************************************)
EXTENDS Uplink

CONSTANTS home, other

MCCred == {home, other}
MCBakes == {<<>>, <<other>>}
=============================================================================
