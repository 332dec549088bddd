----------------------------- MODULE MCLoRaLink ----------------------------
(***************************************************************************)
(* An instance of LoRaLink: two profiles, and sequence numbers that come   *)
(* round after two packets.                                                *)
(***************************************************************************)
EXTENDS LoRaLink

CONSTANTS base, rung

MCProfile == {base, rung}
=============================================================================
