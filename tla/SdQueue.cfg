\* The upload queue under card pulls, hangs, media and write errors, failed
\* removes and power loss.
SPECIFICATION FairSpec
CONSTANTS
    e1 = e1
    e2 = e2
    None = None
    Event <- MCEvent
    CapTime <- MCCapTime
    NowKeys <- MCNowKeys
    FreeAtStart <- MCFreeAtStart
    CardsAtStart <- MCCardsAtStart
    KeyTries = 1
    MaxFiles = 3
    MinFree = 1
    ThumbSize = 1
    FullSize = 2
    WriteStrikes = 2
    RemoveMayFail = TRUE
    MaxArrivals = 3
    MaxFaults = 2
INVARIANTS HaveHonest NoTornAssembly DepthNeverOver
PROPERTIES EntersWhole RoomKept RefinesStore BacklogDrains
\* A wedged probe with nothing in hand and no fault left waits for a new card.
CHECK_DEADLOCK FALSE
