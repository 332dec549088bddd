CONSTANTS
    None = None
    base = base
    rung = rung
    Profile <- MCProfile

    SeqMod = 2
    MaxSplits = 3
    MaxFaults = 2
    MaxStarts = 1

SPECIFICATION FairSpec

INVARIANTS
    OpsHeal
    NoMix
    CleanArrives

PROPERTIES
    DeafnessEnds
