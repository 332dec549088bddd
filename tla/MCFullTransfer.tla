--------------------------- MODULE MCFullTransfer ---------------------------
(* FullTransfer for TLC: one small photo (one chunk as standard, two as    *)
(* max), one large (two and three).                                        *)
EXTENDS FullTransfer

CONSTANTS small, large, standard, max

MCLeaf == {small, large}
MCTier == {standard, max}

MCChunks ==
    [l \in MCLeaf |-> [t \in MCTier |->
        IF l = small THEN (IF t = standard THEN 1 ELSE 2)
                     ELSE (IF t = standard THEN 2 ELSE 3)]]
=============================================================================
