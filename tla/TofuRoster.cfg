\* Two slots, three identities, one re-arm per boot.
SPECIFICATION FairSpec
CONSTANTS
    a = a
    b = b
    c = c
    None = None
    Leaf <- MCThree
    RosterMax = 2
    Grace = 1
    Span = 1
    MinHeard = 2
    Cooldown = 0
    MaxPerBoot = 1
    MaxFaults = 1
INVARIANTS Persisted NeverEmptied
PROPERTY Admitted
