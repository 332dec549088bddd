CONSTANTS
    None = None
    Nothing = Nothing
    home = home
    other = other
    Cred <- MCCred
    Bakes <- MCBakes
    RescueFails = 2
    MaxEvents = 2

SPECIFICATION FairSpec

INVARIANTS
    TypeOK
    BridgeFollowsWire
    PortalBounded
    ProvenHonest

PROPERTIES
    DoorOrService

CHECK_DEADLOCK FALSE
