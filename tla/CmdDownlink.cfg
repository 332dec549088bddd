CONSTANTS
    None = None
    a = a
    b = b
    Leaf = {a, b}
    Alive = {a}
    Oversize = {2}
    Split = {3}
    N = 4
    Owner <- MCOwner
    Fetch = {4}
    Slots = 2
    LeafSlots = 2
    AckSlots = 2
    MaxCuts = 1

SPECIFICATION FairSpec

INVARIANTS
    ReceiptHonest

PROPERTIES
    RefinesMailbox
    CommandRuns

CHECK_DEADLOCK FALSE
