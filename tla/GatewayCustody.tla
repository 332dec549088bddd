--------------------------- MODULE GatewayCustody ---------------------------
(***************************************************************************)
(* Who holds a photo.  The gateway takes custody of a frame when its       *)
(* transfer completes, in the SD queue or, failing that, in the depth-1    *)
(* slot (RAM for a thumb, /spool.jpg for a full); it remembers the fact in *)
(* the "have?" ring; a leaf that is told "have" does not send.  The server *)
(* asks for a full again until it has it.                                  *)
(*                                                                         *)
(* gateway/src/main.cpp: queue_upload_owned, queue_upload_spooled, the end *)
(* of handle_chunk, upload_pending, the ring.  The card is the abstract    *)
(* FrameStore, which SdQueue implements (theorem QueueIsStore).  All of it *)
(* runs on the loop task, so a handler is one step.                        *)
(***************************************************************************)
EXTENDS Integers, FiniteSets

CONSTANTS
    Event,          \* capture events
    Askable,        \* bound: the events a user asks the full of
    RingSize,       \* GW_HAVE_RING
    MaxFiles,       \* entries the card has room for
    MaxFaults,      \* bound: reboots, lost replies, flash and media errors
    None            \* empty slot, empty ring entry, no file

ASSUME CustodyAssumption ==
    /\ Askable \subseteq Event
    /\ RingSize \in Nat \ {0}
    /\ MaxFiles \in Nat
    /\ MaxFaults \in Nat

VARIABLES
    store, landed, rejected,    \* the card and the server, as in FrameStore
    mounted,    \* s_sdq.mounted
    slot,       \* s_pending: None or a frame, in RAM or spooled
    jpg,        \* /spool.jpg: None or a frame, sound or damaged
    ring, next, \* s_have, s_have_next
    taken,      \* thumbs the leaf has pushed, once each
    wanted,     \* events whose full the server asks for
    leaked,     \* history: frames let go with their claim left standing
    faults

Card == INSTANCE FrameStore

Frame == Card!Frame
Thumb(e) == [ev |-> e, full |-> FALSE]
Full(e)  == [ev |-> e, full |-> TRUE]

Slot  == [frame : Frame, spooled : BOOLEAN]
Spool == [frame : Frame, sound : BOOLEAN]

cardVars  == <<store, landed, rejected>>
slotVars  == <<slot, jpg>>
ringVars  == <<ring, next>>
leafVars  == <<taken, wanted>>
vars == <<cardVars, mounted, slotVars, ringVars, leafVars, leaked, faults>>

ASSUME NothingAssumption == None \notin Frame \cup Slot \cup Spool

Init ==
    /\ store = {} /\ landed = {} /\ rejected = {}
    /\ mounted \in BOOLEAN
    /\ slot = None /\ jpg = None
    /\ ring = [i \in 0 .. RingSize - 1 |-> None] /\ next = 0
    /\ taken = {} /\ wanted = {} /\ leaked = {} /\ faults = 0

Fault == faults < MaxFaults /\ faults' = faults + 1

-----------------------------------------------------------------------------
(* The ring.                                                               *)

HaveCheck(f) == \E i \in DOMAIN ring : ring[i] = f

(* Mutant of Unnoted: a dropped frame keeps its claim.                     *)
UnnotedNever(r, f) == r

(* have_unnote                                                             *)
Unnoted(r, f) == [i \in DOMAIN r |-> IF r[i] = f THEN None ELSE r[i]]

(* have_note, on top of the ring r: a frame already there is left alone,   *)
(* another takes the place of the oldest.                                  *)
NoteOver(r, f) ==
    IF \E i \in DOMAIN r : r[i] = f
    THEN ring' = r /\ next' = next
    ELSE /\ ring' = [r EXCEPT ![next] = f]
         /\ next' = (next + 1) % RingSize

-----------------------------------------------------------------------------
(* Taking custody.                                                         *)

Spooled == slot # None /\ slot.spooled
InRam   == slot # None /\ ~ slot.spooled

(* sdq_enqueue succeeded: the frame is an entry of the card.               *)
CardTakes(f) ==
    /\ mounted /\ Cardinality(store) < MaxFiles
    /\ \E k \in 0 .. MaxFiles :
         Card!Accept([key |-> k, full |-> f.full, ev |-> f.ev, ok |-> TRUE])

(* No card, or sdq_enqueue failed.                                         *)
CardLeft == UNCHANGED cardVars

(* queue_upload, queue_upload_owned: a thumb, or a full of one chunk.      *)
OwnedToCard(f) ==
    /\ CardTakes(f)
    /\ NoteOver(ring, f)
    /\ leaked' = leaked \ {f}
    /\ UNCHANGED slotVars

(* The slot's frame is disclaimed and dropped.                             *)
OwnedToSlot(f) ==
    /\ CardLeft
    /\ slot' = [frame |-> f, spooled |-> FALSE]
    /\ jpg' = IF Spooled THEN None ELSE jpg
    /\ NoteOver(IF slot = None THEN ring ELSE Unnoted(ring, slot.frame), f)
    /\ leaked' = leaked \ {f}

OwnedArrives(f) == OwnedToCard(f) \/ OwnedToSlot(f)

(* The end of handle_chunk frees /spool.jpg first, and with it the slot's  *)
(* frame when that is spooled: pending_clear, with no have_unnote.         *)
LetGo == IF Spooled THEN {slot.frame} ELSE {}

(* Mutant of FullToCard: the spool is not given back.                      *)
FullToCardKeepsSpool(f) ==
    /\ CardTakes(f)
    /\ slot' = IF Spooled THEN None ELSE slot
    /\ jpg' = [frame |-> f, sound |-> TRUE]
    /\ NoteOver(ring, f)
    /\ leaked' = (leaked \cup LetGo) \ {f}

FullToCard(f) ==
    /\ CardTakes(f)
    /\ slot' = IF Spooled THEN None ELSE slot
    /\ jpg' = None
    /\ NoteOver(ring, f)
    /\ leaked' = (leaked \cup LetGo) \ {f}

FullToSlot(f) ==
    /\ CardLeft
    /\ slot' = [frame |-> f, spooled |-> TRUE]
    /\ jpg' = [frame |-> f, sound |-> TRUE]
    /\ NoteOver(IF InRam THEN Unnoted(ring, slot.frame) ELSE ring, f)
    /\ leaked' = (leaked \cup LetGo) \ {f}

(* The last chunk of a full of several: handle_chunk, queue_upload_spooled. *)
ChunkedArrives(f) == FullToCard(f) \/ FullToSlot(f)

(* A leaf pushes each thumb once.                                          *)
ThumbArrives(e) ==
    /\ e \notin taken
    /\ taken' = taken \cup {e}
    /\ OwnedArrives(Thumb(e))
    /\ UNCHANGED <<mounted, wanted, faults>>

(* The user asks the server for the full of an event it knows.             *)
WantFull(e) ==
    /\ e \in taken \cap Askable /\ e \notin wanted
    /\ wanted' = wanted \cup {e}
    /\ UNCHANGED <<cardVars, mounted, slotVars, ringVars, taken, leaked,
                   faults>>

Owed(e) == e \in wanted /\ Full(e) \notin landed

(* A fetch_full reached the leaf, which asked "have?", was told no and     *)
(* sent everything.                                                        *)
FullArrives(e) ==
    /\ Owed(e) /\ ~ HaveCheck(Full(e))
    /\ OwnedArrives(Full(e)) \/ ChunkedArrives(Full(e))
    /\ UNCHANGED <<mounted, leafVars, faults>>

(* The reply was lost: the leaf fails open and sends what is held already. *)
FullArrivesAgain(e) ==
    /\ Owed(e) /\ HaveCheck(Full(e))
    /\ Fault
    /\ OwnedArrives(Full(e)) \/ ChunkedArrives(Full(e))
    /\ UNCHANGED <<mounted, leafVars>>

(* The rename PART -> JPG failed, after the old spool was cleared.         *)
FullRenameFails(e) ==
    /\ Owed(e)
    /\ Fault
    /\ CardLeft
    /\ slot' = IF Spooled THEN None ELSE slot
    /\ jpg' = None
    /\ leaked' = leaked \cup LetGo
    /\ UNCHANGED <<ringVars, mounted, leafVars>>

-----------------------------------------------------------------------------
(* upload_pending and the pending_clear that follows when it is handled.   *)

ClearSlot ==
    slot' = None /\ jpg' = IF Spooled THEN None ELSE jpg

SlotReadable == InRam \/ (Spooled /\ jpg # None /\ jpg.sound)

SlotOk ==
    /\ SlotReadable
    /\ Card!Land(slot.frame)
    /\ ClearSlot
    /\ UNCHANGED <<mounted, ringVars, leafVars, leaked, faults>>

(* No clear answer: the frame stays, although the server may have it.      *)
SlotRetry ==
    /\ SlotReadable
    /\ Card!Land(slot.frame)
    /\ UNCHANGED <<mounted, slotVars, ringVars, leafVars, leaked, faults>>

(* Rejected for good: handled, so cleared; no have_unnote.                 *)
SlotDrop ==
    /\ SlotReadable
    /\ Card!Reject(slot.frame)
    /\ ClearSlot
    /\ leaked' = leaked \cup {slot.frame}
    /\ UNCHANGED <<mounted, ringVars, leafVars, faults>>

(* Mutant of SlotBad: a bad spool is waited for.                           *)
SlotBadKept ==
    /\ Spooled /\ ~ SlotReadable
    /\ UNCHANGED vars

(* The spool file is bad: "treat as handled; the server re-delivers".      *)
SlotBad ==
    /\ Spooled /\ ~ SlotReadable
    /\ CardLeft
    /\ ClearSlot
    /\ leaked' = leaked \cup {slot.frame}
    /\ UNCHANGED <<mounted, ringVars, leafVars, faults>>

-----------------------------------------------------------------------------
(* The card, through FrameStore's steps, with the claims that go with them. *)

(* Mutant of UnnoteEntry: an entry leaves the card with its claim.         *)
UnnoteEntryNever(e) == UNCHANGED <<ringVars, leaked>>

(* The claim goes with the entry, unless its header cannot be read.        *)
UnnoteEntry(e) ==
    IF e.ok THEN /\ ring' = Unnoted(ring, Card!FrameOf(e))
                 /\ UNCHANGED <<next, leaked>>
            ELSE leaked' = leaked \cup {Card!FrameOf(e)} /\ UNCHANGED ringVars

(* Room is made when an incoming frame finds none.                         *)
CardEvicts(e) ==
    /\ mounted /\ Cardinality(store) = MaxFiles
    /\ \E f \in Frame : Card!Evict(e, f)
    /\ UnnoteEntry(e)
    /\ UNCHANGED <<mounted, slotVars, leafVars, faults>>

(* A POST may land without a clear answer: the entry stays until settled.  *)
CardPosts(e) ==
    /\ mounted /\ e.ok
    /\ Card!Land(Card!FrameOf(e))
    /\ UNCHANGED <<mounted, slotVars, ringVars, leafVars, leaked, faults>>

CardSettles(e) ==
    /\ mounted /\ e.ok
    /\ Card!FrameOf(e) \in landed
    /\ Card!Settle(e)
    /\ UNCHANGED <<mounted, slotVars, ringVars, leafVars, leaked, faults>>

(* Rejected for good: disclaimed, then removed.                            *)
CardRejects(e) ==
    /\ mounted /\ e.ok
    /\ Card!Refuse(e)
    /\ UnnoteEntry(e)
    /\ UNCHANGED <<mounted, slotVars, leafVars, faults>>

CardDiscards(e) ==
    /\ mounted
    /\ Card!Discard(e)
    /\ UnnoteEntry(e)
    /\ UNCHANGED <<mounted, slotVars, leafVars, faults>>

-----------------------------------------------------------------------------
(* The world: media errors, the card going and coming, power.              *)

CardSpoils(e) ==
    /\ e.ok /\ Fault
    /\ Card!Spoil(e)
    /\ UNCHANGED <<mounted, slotVars, ringVars, leafVars, leaked>>

SpoolSpoils ==
    /\ jpg # None /\ Fault
    /\ jpg' = [jpg EXCEPT !.sound = FALSE]
    /\ UNCHANGED <<cardVars, mounted, slot, ringVars, leafVars, leaked>>

CardGoesOrComes ==
    /\ mounted' = ~ mounted
    /\ UNCHANGED <<cardVars, slotVars, ringVars, leafVars, leaked, faults>>

(* The ring and the slot are RAM; boot removes the spool files.            *)
Reboot ==
    /\ Fault
    /\ mounted' \in BOOLEAN
    /\ slot' = None /\ jpg' = None
    /\ ring' = [i \in DOMAIN ring |-> None] /\ next' = 0
    /\ leaked' = {}
    /\ UNCHANGED <<cardVars, leafVars>>

SlotNext == SlotOk \/ SlotRetry \/ SlotDrop \/ SlotBad

CardNext ==
    \E e \in store :
        \/ CardEvicts(e) \/ CardPosts(e) \/ CardSettles(e)
        \/ CardRejects(e) \/ CardDiscards(e) \/ CardSpoils(e)

LeafNext ==
    \E e \in Event :
        \/ ThumbArrives(e) \/ WantFull(e) \/ FullArrives(e)
        \/ FullArrivesAgain(e) \/ FullRenameFails(e)

Next ==
    \/ LeafNext \/ SlotNext \/ CardNext
    \/ SpoolSpoils \/ CardGoesOrComes \/ Reboot

Spec == Init /\ [][Next]_vars

(* loop() uploads from the slot and from the card whenever the network is  *)
(* up; the server acknowledges a frame it is offered again and again, and  *)
(* re-issues a fetch_full until it has the frame.                          *)
Fairness ==
    /\ SF_vars(SlotOk) /\ WF_vars(SlotBad)
    /\ \A e \in Askable :
         /\ SF_vars(FullArrives(e))
         /\ SF_vars(\E c \in store : c.ev = e /\ c.full /\ CardPosts(c))
         /\ SF_vars(\E c \in store : c.ev = e /\ c.full /\ CardDiscards(c))

FairSpec == Spec /\ Fairness

-----------------------------------------------------------------------------
(* Properties.                                                             *)

OnCard(f) == \E c \in store : Card!FrameOf(c) = f
Held(f)   == OnCard(f) \/ (slot # None /\ slot.frame = f)

(* Every variable has its type; the ring has one entry per frame.          *)
TypeOK ==
    /\ store \subseteq Card!Entry /\ landed \subseteq Frame
    /\ rejected \subseteq Frame /\ leaked \subseteq Frame
    /\ mounted \in BOOLEAN
    /\ slot \in Slot \cup {None} /\ jpg \in Spool \cup {None}
    /\ ring \in [0 .. RingSize - 1 -> Frame \cup {None}]
    /\ next \in 0 .. RingSize - 1
    /\ taken \subseteq Event /\ wanted \subseteq Event
    /\ faults \in 0 .. MaxFaults

(* "have" is answered only for a frame the gateway still holds, one the    *)
(* server has, or one of the known drops that keep their claim (leaked).   *)
(* The leaf that is told "have" never sends: a false answer loses a photo. *)
RingHonest ==
    \A f \in Frame : HaveCheck(f) => Held(f) \/ f \in landed \cup leaked

(* What the comment at have_unnote (main.cpp:1020-1022) asks of every      *)
(* drop: a claim never outlives the frame, unless the server has decided   *)
(* on it.                                                                  *)
NoClaimOutlivesItsFrame ==
    \A f \in Frame : HaveCheck(f) => Held(f) \/ f \in landed \cup rejected

(* /spool.jpg and the slot's record of it come and go together and name    *)
(* the same frame: a file without the record is flash nobody frees, a      *)
(* record with another's file would upload one photo under another's id.   *)
SpoolOwned ==
    /\ (jpg # None) <=> Spooled
    /\ jpg # None => jpg.frame = slot.frame

(* At most one claim per frame: have_unnote after a drop leaves no second  *)
(* one behind.                                                             *)
ClaimedOnce ==
    \A i, j \in DOMAIN ring : ring[i] = ring[j] /\ ring[i] # None => i = j

Reaches(e) ==
    \/ Full(e) \in landed \cup rejected
    \/ Full(e) \in leaked /\ HaveCheck(Full(e))

(* A wanted full reaches the server, is refused by it for good, or is one  *)
(* of the drops that keep their claim, provided the card that may hold it  *)
(* keeps coming back.                                                      *)
WantedLands ==
    []<>(mounted \/ store = {}) => \A e \in Askable : e \in wanted ~> Reaches(e)

=============================================================================
