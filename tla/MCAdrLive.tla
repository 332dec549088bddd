----------------------------- MODULE MCAdrLive -----------------------------
(* AdrLive for TLC.                                                        *)
EXTENDS AdrLive

CONSTANTS a, b

MCOne == {a}
MCTwo == {a, b}
=============================================================================
