\* Two events, one of whose full is asked for; a card of one entry.
SPECIFICATION FairSpec
CONSTANTS
    e1 = e1
    e2 = e2
    None = None
    Event <- MCEvent
    Askable = {e1}
    RingSize = 2
    MaxFiles = 1
    MaxFaults = 2
INVARIANTS RingHonest SpoolOwned
PROPERTY WantedLands
