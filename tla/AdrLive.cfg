\* Two leaves, one of which may fall silent for good; two rungs; pins dropped
\* at any time but mid-sweep.
SPECIFICATION LiveSpec
CONSTANTS
    a = a
    b = b
    None = None
    Leaf <- MCTwo
    Alive <- MCOne
    Min = 1
    Max = 2
    Base = 1
    SilentMax = 1
    SweepAfter = 0
    Operator = TRUE
    MidSweep = FALSE
    Relay = TRUE
INVARIANTS
    TypeOK
    PersistedIsGranted
    WayBack
    Settled
PROPERTIES
    NeverStranded
    OrphanAdopted
