SPECIFICATION Spec
CONSTANTS
    e1 = e1
    e2 = e2
    None = None
    Event <- MCEvent
    Askable <- MCEvent
    RingSize = 2
    MaxFiles = 1
    MaxFaults = 0
INVARIANT NoClaimOutlivesItsFrame
