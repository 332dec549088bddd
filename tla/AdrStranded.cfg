\* As AdrLive.cfg, and a pin may be dropped while the shepherd
\* sweeps.
SPECIFICATION Spec
CONSTANTS
    a = a
    b = b
    None = None
    Leaf <- MCTwo
    Min = 1
    Max = 2
    Base = 1
    SilentMax = 1
    SweepAfter = 1
    Operator = TRUE
    MidSweep = TRUE
    Relay = FALSE
INVARIANTS
    WayBack
SYMMETRY MCSymmetry
