----------------------------- MODULE MCSdQueue ------------------------------
(* SdQueue for TLC: two events, one without a capture time.                *)
EXTENDS SdQueue

CONSTANTS e1, e2

MCEvent == {e1, e2}

(* e1 was captured in second 2; e2 came from a leaf without a clock, so it *)
(* is keyed by the gateway's own, and steps on to e1's name on a collision.*)
MCCapTime == [e \in MCEvent |-> IF e = e1 THEN 2 ELSE 0]

MCNowKeys == {1}

(* Room for two fulls, or for a full and two thumbs, above the reserve.    *)
MCFreeAtStart == {5}

(* A blank card, and one with a thumb of another box still on it.          *)
MCCardsAtStart ==
    {{}, {[key |-> 2, full |-> FALSE, ev |-> e1, ok |-> TRUE]}}
=============================================================================
