CONSTANTS
    Nothing = Nothing
    Flash = Flash
    own = own
    other = other
    Card <- MCCard
    Cap = 2
    KeepPir = TRUE
    MaxShots = 3
    MaxFaults = 2

SPECIFICATION LeafFairSpec

INVARIANTS
    ServedWhole
    NeverErased
    RailsRest

PROPERTIES
    NewestKept
    ComesBack
