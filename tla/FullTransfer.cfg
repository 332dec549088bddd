SPECIFICATION FairSpec
CONSTANTS
    small = small
    large = large
    standard = standard
    max = max
    None = None
    Leaf <- MCLeaf
    Tier <- MCTier
    Chunks <- MCChunks
    MaxAsks = 3
    MaxFaults = 1
INVARIANTS MaskIsTheSpool TakenWhole
PROPERTIES NoWaste AskedArrives
\* Once every request is answered the system rests.
CHECK_DEADLOCK FALSE
