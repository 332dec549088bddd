------------------------- MODULE GatewayCustody_proof ------------------------
(***************************************************************************)
(* Proofs about custody, for every set of events, every size of the ring   *)
(* and of the card.  The invariant is inductive as the conjunction of its  *)
(* four parts: honesty of a displacement needs to know that the slot's     *)
(* frame and the spool file are one (SpoolOwned).                          *)
(***************************************************************************)
EXTENDS GatewayCustody, TLAPS

CustodyInv == TypeOK /\ RingHonest /\ SpoolOwned /\ ClaimedOnce

(* An empty ring, slot and spool satisfy the invariant.                    *)
LEMMA InitCustody == Init => CustodyInv
<1> SUFFICES ASSUME Init PROVE CustodyInv
  OBVIOUS
<1>1. TypeOK
  BY CustodyAssumption DEF Init, TypeOK
<1>2. \A f \in Frame : f # None
  BY NothingAssumption
<1>3. RingHonest /\ ClaimedOnce /\ SpoolOwned
  BY <1>2, Zenon DEF Init, RingHonest, ClaimedOnce, SpoolOwned, Spooled,
                     HaveCheck
<1> QED BY <1>1, <1>3 DEF CustodyInv

(* The records the actions build have their types.                         *)
LEMMA FrameType ==
    /\ \A e \in Event : Thumb(e) \in Frame /\ Full(e) \in Frame
    /\ \A e \in Card!Entry : Card!FrameOf(e) \in Frame
    /\ \A f \in Frame : f # None /\ f.full \in BOOLEAN /\ f.ev \in Event
    /\ \A s \in Slot : s # None /\ s.frame \in Frame /\ s.spooled \in BOOLEAN
    /\ \A j \in Spool : j # None /\ j.frame \in Frame
BY NothingAssumption
   DEF Thumb, Full, Frame, Card!Frame, Card!Entry, Card!FrameOf, Slot, Spool

(* Counting a fault keeps the bound.                                       *)
LEMMA FaultType ==
    ASSUME TypeOK, Fault PROVE faults' \in 0 .. MaxFaults
BY CustodyAssumption DEF TypeOK, Fault

-----------------------------------------------------------------------------
(* The ring's three operations.                                            *)

Ring == [0 .. RingSize - 1 -> Frame \cup {None}]

Once(r) == \A i, j \in DOMAIN r : r[i] = r[j] /\ r[i] # None => i = j

Claims(r) == {f \in Frame : \E i \in DOMAIN r : r[i] = f}

(* have_unnote takes every claim of f, and no other, out of the ring.      *)
LEMMA UnnotedRing ==
    ASSUME NEW r \in Ring, NEW f \in Frame
    PROVE  /\ Unnoted(r, f) \in Ring
           /\ Once(r) => Once(Unnoted(r, f))
           /\ Claims(Unnoted(r, f)) = Claims(r) \ {f}
<1>1. Unnoted(r, f) \in Ring
  BY DEF Unnoted, Ring
<1>2. Once(r) => Once(Unnoted(r, f))
  BY DEF Unnoted, Ring, Once
<1>3. Claims(Unnoted(r, f)) = Claims(r) \ {f}
  BY FrameType DEF Unnoted, Ring, Claims
<1> QED BY <1>1, <1>2, <1>3

(* have_note claims f once, and claims nothing else anew.                  *)
LEMMA NoteOverRing ==
    ASSUME NEW r \in Ring, NEW f \in Frame, NoteOver(r, f),
           next \in 0 .. RingSize - 1
    PROVE  /\ ring' \in Ring /\ next' \in 0 .. RingSize - 1
           /\ Once(r) => Once(ring')
           /\ Claims(ring') \subseteq Claims(r) \cup {f}
<1> USE CustodyAssumption
<1>1. CASE \E i \in DOMAIN r : r[i] = f
  BY <1>1 DEF NoteOver
<1>2. CASE ~ \E i \in DOMAIN r : r[i] = f
  <2>1. ring' = [r EXCEPT ![next] = f] /\ next' = (next + 1) % RingSize
    BY <1>2 DEF NoteOver
  <2>2. ring' \in Ring
    BY <2>1 DEF Ring
  <2>3. next' \in 0 .. RingSize - 1
    BY <2>1
  <2>4. Once(r) => Once(ring')
    BY <1>2, <2>1 DEF Ring, Once
  <2>5. Claims(ring') \subseteq Claims(r) \cup {f}
    BY <2>1 DEF Ring, Claims
  <2> QED BY <2>2, <2>3, <2>4, <2>5
<1> QED BY <1>1, <1>2

(* The invariant in terms of the ring's claims.                            *)
LEMMA ByClaims ==
    ASSUME ring \in Ring
    PROVE  /\ RingHonest <=> \A f \in Claims(ring) :
                                 Held(f) \/ f \in landed \cup leaked
           /\ ClaimedOnce <=> Once(ring)
           /\ TypeOK => \A f \in Frame : HaveCheck(f) <=> f \in Claims(ring)
BY DEF RingHonest, ClaimedOnce, Once, Claims, HaveCheck

(* The same in the next state.                                             *)
LEMMA ByClaimsPrime ==
    ASSUME ring' \in Ring
    PROVE  /\ RingHonest' <=> \A f \in Claims(ring') :
                                  Held(f)' \/ f \in landed' \cup leaked'
           /\ ClaimedOnce' <=> Once(ring')
BY DEF RingHonest, ClaimedOnce, Once, Claims, HaveCheck

-----------------------------------------------------------------------------
(* Every way of taking custody of a frame f keeps the invariant.           *)

Custody(f) == OwnedArrives(f) \/ ChunkedArrives(f)

(* A frame the card takes is on it, and nothing else has left.             *)
LEMMA TakesCard ==
    ASSUME TypeOK, NEW f \in Frame, CardTakes(f)
    PROVE  /\ store' \subseteq Card!Entry /\ store \subseteq store'
           /\ \E c \in store' : Card!FrameOf(c) = f
           /\ UNCHANGED <<landed, rejected>>
<1>1. PICK k \in 0 .. MaxFiles :
         Card!Accept([key |-> k, full |-> f.full, ev |-> f.ev, ok |-> TRUE])
  BY DEF CardTakes
<1> DEFINE c == [key |-> k, full |-> f.full, ev |-> f.ev, ok |-> TRUE]
<1>2. k \in Nat
  BY CustodyAssumption
<1>3. c \in Card!Entry
  BY <1>2, FrameType DEF Card!Entry
<1>4. Card!FrameOf(c) = f
  BY FrameType DEF Card!FrameOf, Frame, Card!Frame
<1>5. store' = store \cup {c} /\ UNCHANGED <<landed, rejected>>
  BY <1>1 DEF Card!Accept
<1> HIDE DEF c
<1> QED BY <1>3, <1>4, <1>5 DEF TypeOK

(* Taking custody of a frame, wherever it goes, keeps the invariant.       *)
LEMMA CustodyKeeps ==
    ASSUME CustodyInv, NEW f \in Frame, Custody(f)
    PROVE  /\ store' \subseteq Card!Entry
           /\ landed' = landed /\ rejected' = rejected
           /\ leaked' \subseteq Frame
           /\ slot' \in Slot \cup {None} /\ jpg' \in Spool \cup {None}
           /\ ring' \in Ring /\ next' \in 0 .. RingSize - 1
           /\ Once(ring') /\ SpoolOwned'
           /\ \A g \in Claims(ring') : Held(g)' \/ g \in landed' \cup leaked'
<1>r. ring \in Ring /\ next \in 0 .. RingSize - 1 /\ Once(ring)
  BY ByClaims DEF CustodyInv, TypeOK, Ring
<1>h. \A g \in Claims(ring) : Held(g) \/ g \in landed \cup leaked
  BY <1>r, ByClaims DEF CustodyInv
<1>t. store \subseteq Card!Entry /\ leaked \subseteq Frame /\ TypeOK
  BY DEF CustodyInv, TypeOK
<1>s. slot \in Slot \cup {None} /\ jpg \in Spool \cup {None} /\ SpoolOwned
  BY DEF CustodyInv, TypeOK
<1>g. LetGo \subseteq Frame
  BY <1>s, FrameType DEF LetGo, Spooled
<1>1. CASE OwnedToCard(f)
  <2>1. CardTakes(f) /\ NoteOver(ring, f) /\ leaked' = leaked \ {f}
        /\ slot' = slot /\ jpg' = jpg
    BY <1>1 DEF OwnedToCard, slotVars
  <2>2. /\ store' \subseteq Card!Entry /\ store \subseteq store'
        /\ \E c \in store' : Card!FrameOf(c) = f
        /\ landed' = landed /\ rejected' = rejected
    BY <1>t, <2>1, TakesCard
  <2>3. /\ ring' \in Ring /\ next' \in 0 .. RingSize - 1 /\ Once(ring')
        /\ Claims(ring') \subseteq Claims(ring) \cup {f}
    BY <1>r, <2>1, NoteOverRing
  <2>4. \A g \in Claims(ring') : Held(g)' \/ g \in landed' \cup leaked'
    BY <1>h, <2>1, <2>2, <2>3 DEF Held, OnCard
  <2>5. SpoolOwned'
    BY <1>s, <2>1 DEF SpoolOwned, Spooled
  <2> QED BY <1>t, <1>s, <2>1, <2>2, <2>3, <2>4, <2>5
<1>2. CASE OwnedToSlot(f)
  <2> DEFINE r == IF slot = None THEN ring ELSE Unnoted(ring, slot.frame)
  <2>1. /\ store' = store /\ landed' = landed /\ rejected' = rejected
        /\ slot' = [frame |-> f, spooled |-> FALSE]
        /\ jpg' = IF Spooled THEN None ELSE jpg
        /\ NoteOver(r, f) /\ leaked' = leaked \ {f}
    BY <1>2 DEF OwnedToSlot, CardLeft, cardVars
  <2>2. /\ r \in Ring /\ Once(r) /\ Claims(r) \subseteq Claims(ring)
        /\ slot # None => slot.frame \notin Claims(r)
    BY <1>r, <1>s, FrameType, UnnotedRing
  <2> HIDE DEF r
  <2>3. /\ ring' \in Ring /\ next' \in 0 .. RingSize - 1 /\ Once(ring')
        /\ Claims(ring') \subseteq Claims(r) \cup {f}
    BY <1>r, <2>1, <2>2, NoteOverRing
  <2>4. \A g \in Claims(r) : OnCard(g) \/ g \in landed \cup leaked
    BY <1>h, <2>2 DEF Held
  <2>5. \A g \in Claims(ring') : Held(g)' \/ g \in landed' \cup leaked'
    BY <2>1, <2>3, <2>4, FrameType DEF Held, OnCard, Slot
  <2>6. slot' \in Slot /\ slot'.spooled = FALSE
    BY <2>1 DEF Slot
  <2>7. SpoolOwned' /\ jpg' \in Spool \cup {None}
    BY <1>s, <2>1, <2>6, FrameType DEF SpoolOwned, Spooled
  <2> QED BY <1>t, <2>1, <2>3, <2>5, <2>6, <2>7
<1>3. CASE FullToCard(f)
  <2>1. /\ CardTakes(f) /\ NoteOver(ring, f)
        /\ leaked' = (leaked \cup LetGo) \ {f}
        /\ slot' = (IF Spooled THEN None ELSE slot) /\ jpg' = None
    BY <1>3 DEF FullToCard
  <2>2. /\ store' \subseteq Card!Entry /\ store \subseteq store'
        /\ \E c \in store' : Card!FrameOf(c) = f
        /\ landed' = landed /\ rejected' = rejected
    BY <1>t, <2>1, TakesCard
  <2>3. /\ ring' \in Ring /\ next' \in 0 .. RingSize - 1 /\ Once(ring')
        /\ Claims(ring') \subseteq Claims(ring) \cup {f}
    BY <1>r, <2>1, NoteOverRing
  <2>4. \A g \in Claims(ring') : Held(g)' \/ g \in landed' \cup leaked'
    BY <1>h, <2>1, <2>2, <2>3 DEF Held, OnCard, LetGo, Spooled
  <2>5. SpoolOwned'
    BY <1>s, <2>1 DEF SpoolOwned, Spooled
  <2> QED BY <1>t, <1>s, <1>g, <2>1, <2>2, <2>3, <2>4, <2>5
<1>4. CASE FullToSlot(f)
  <2> DEFINE r == IF InRam THEN Unnoted(ring, slot.frame) ELSE ring
  <2>1. /\ store' = store /\ landed' = landed /\ rejected' = rejected
        /\ slot' = [frame |-> f, spooled |-> TRUE]
        /\ jpg' = [frame |-> f, sound |-> TRUE]
        /\ NoteOver(r, f) /\ leaked' = (leaked \cup LetGo) \ {f}
    BY <1>4 DEF FullToSlot, CardLeft, cardVars
  <2>2. /\ r \in Ring /\ Once(r) /\ Claims(r) \subseteq Claims(ring)
        /\ InRam => slot.frame \notin Claims(r)
    BY <1>r, <1>s, FrameType, UnnotedRing DEF InRam
  <2> HIDE DEF r
  <2>3. /\ ring' \in Ring /\ next' \in 0 .. RingSize - 1 /\ Once(ring')
        /\ Claims(ring') \subseteq Claims(r) \cup {f}
    BY <1>r, <2>1, <2>2, NoteOverRing
  <2>4. \A g \in Claims(r) : OnCard(g) \/ g \in landed \cup leaked \cup LetGo
    BY <1>h, <2>2, <1>s DEF Held, LetGo, InRam, Spooled
  <2>5. slot' \in Slot /\ slot'.frame = f /\ slot'.spooled /\ slot' # None
    BY <2>1, FrameType DEF Slot
  <2>6. \A g \in Claims(ring') : Held(g)' \/ g \in landed' \cup leaked'
    BY <2>1, <2>3, <2>4, <2>5 DEF Held, OnCard
  <2>7. jpg' \in Spool /\ jpg'.frame = f /\ jpg' # None
    BY <2>1, FrameType DEF Spool
  <2>8. SpoolOwned'
    BY <2>5, <2>7 DEF SpoolOwned, Spooled
  <2> QED BY <1>t, <1>g, <2>1, <2>3, <2>5, <2>6, <2>7, <2>8
<1> QED BY <1>1, <1>2, <1>3, <1>4 DEF Custody, OwnedArrives, ChunkedArrives

-----------------------------------------------------------------------------
(* Every step keeps the invariant.                                         *)

(* The invariant is inductive: one step of the proof per action.           *)
LEMMA CustodyStep == CustodyInv /\ [Next]_vars => CustodyInv'
<1> SUFFICES ASSUME CustodyInv, [Next]_vars PROVE CustodyInv'
  OBVIOUS
<1> USE DEF cardVars, slotVars, ringVars, leafVars
<1>r. ring \in Ring /\ next \in 0 .. RingSize - 1 /\ Once(ring)
  BY ByClaims DEF CustodyInv, TypeOK, Ring
<1>h. \A g \in Claims(ring) : Held(g) \/ g \in landed \cup leaked
  BY <1>r, ByClaims DEF CustodyInv
<1>t. TypeOK /\ SpoolOwned
  BY DEF CustodyInv
<1>s. slot \in Slot \cup {None} /\ jpg \in Spool \cup {None}
  BY <1>t DEF TypeOK
<1>q. ASSUME /\ store' \subseteq Card!Entry /\ landed' \subseteq Frame
             /\ rejected' \subseteq Frame /\ leaked' \subseteq Frame
             /\ mounted' \in BOOLEAN
             /\ slot' \in Slot \cup {None} /\ jpg' \in Spool \cup {None}
             /\ ring' \in Ring /\ next' \in 0 .. RingSize - 1
             /\ taken' \subseteq Event /\ wanted' \subseteq Event
             /\ faults' \in 0 .. MaxFaults
             /\ SpoolOwned' /\ Once(ring')
             /\ \A g \in Claims(ring') :
                   Held(g)' \/ g \in landed' \cup leaked'
      PROVE  CustodyInv'
  BY <1>q, ByClaimsPrime DEF CustodyInv, TypeOK, Ring
<1>1. CASE UNCHANGED vars
  BY <1>1, <1>r, <1>h, <1>t, <1>q
     DEF vars, TypeOK, SpoolOwned, Spooled, Held, OnCard
<1>2. ASSUME NEW e \in Event, ThumbArrives(e) PROVE CustodyInv'
  <2>1. Custody(Thumb(e)) /\ Thumb(e) \in Frame
    BY <1>2, FrameType DEF ThumbArrives, Custody
  <2>2. mounted' = mounted /\ wanted' = wanted /\ faults' = faults
        /\ taken' = taken \cup {e}
    BY <1>2 DEF ThumbArrives
  <2> QED BY <2>1, <2>2, <1>t, <1>q, CustodyKeeps DEF TypeOK
<1>3. ASSUME NEW e \in Event, WantFull(e) PROVE CustodyInv'
  BY <1>3, <1>r, <1>h, <1>t, <1>q
     DEF WantFull, TypeOK, SpoolOwned, Spooled, Held, OnCard
<1>4. ASSUME NEW e \in Event, FullArrives(e) \/ FullArrivesAgain(e)
      PROVE  CustodyInv'
  <2>1. Custody(Full(e)) /\ Full(e) \in Frame
    BY <1>4, FrameType DEF FullArrives, FullArrivesAgain, Custody
  <2>2. mounted' = mounted /\ wanted' = wanted /\ taken' = taken
    BY <1>4 DEF FullArrives, FullArrivesAgain
  <2>3. faults' \in 0 .. MaxFaults
    BY <1>4, <1>t, FaultType DEF FullArrives, FullArrivesAgain, TypeOK
  <2> QED BY <2>1, <2>2, <2>3, <1>t, <1>q, CustodyKeeps DEF TypeOK
<1>5. ASSUME NEW e \in Event, FullRenameFails(e) PROVE CustodyInv'
  <2>1. /\ UNCHANGED <<store, landed, rejected, ring, next, mounted, taken,
                       wanted>>
        /\ slot' = (IF Spooled THEN None ELSE slot) /\ jpg' = None
        /\ leaked' = leaked \cup LetGo
    BY <1>5 DEF FullRenameFails, CardLeft
  <2>2. faults' \in 0 .. MaxFaults
    BY <1>5, <1>t, FaultType DEF FullRenameFails
  <2>3. LetGo \subseteq Frame
    BY <1>s, FrameType DEF LetGo, Spooled
  <2>4. SpoolOwned'
    BY <1>t, <2>1 DEF SpoolOwned, Spooled
  <2>5. \A g \in Claims(ring') : Held(g)' \/ g \in landed' \cup leaked'
    BY <1>h, <2>1 DEF Held, OnCard, LetGo, Spooled
  <2> QED BY <2>1, <2>2, <2>3, <2>4, <2>5, <1>r, <1>t, <1>q DEF TypeOK
<1>6. CASE SlotNext
  <2>1. CASE SlotOk
    <3>1. /\ slot # None /\ landed' = landed \cup {slot.frame}
          /\ slot' = None /\ jpg' = (IF Spooled THEN None ELSE jpg)
          /\ UNCHANGED <<store, rejected, mounted, ring, next, taken, wanted,
                         leaked, faults>>
      BY <2>1 DEF SlotOk, SlotReadable, InRam, Spooled, Card!Land, ClearSlot
    <3>2. slot.frame \in Frame
      BY <1>s, <3>1, FrameType
    <3>3. SpoolOwned'
      BY <1>t, <3>1 DEF SpoolOwned, Spooled
    <3>4. \A g \in Claims(ring') : Held(g)' \/ g \in landed' \cup leaked'
      BY <1>h, <3>1 DEF Held, OnCard
    <3> QED BY <3>1, <3>2, <3>3, <3>4, <1>r, <1>t, <1>q DEF TypeOK
  <2>2. CASE SlotRetry
    <3>1. /\ slot # None /\ landed' = landed \cup {slot.frame}
          /\ UNCHANGED <<store, rejected, mounted, slot, jpg, ring, next,
                         taken, wanted, leaked, faults>>
      BY <2>2 DEF SlotRetry, SlotReadable, InRam, Spooled, Card!Land
    <3>2. slot.frame \in Frame
      BY <1>s, <3>1, FrameType
    <3>3. SpoolOwned'
      BY <1>t, <3>1 DEF SpoolOwned, Spooled
    <3>4. \A g \in Claims(ring') : Held(g)' \/ g \in landed' \cup leaked'
      BY <1>h, <3>1 DEF Held, OnCard
    <3> QED BY <3>1, <3>2, <3>3, <3>4, <1>r, <1>t, <1>q DEF TypeOK
  <2>3. CASE SlotDrop \/ SlotBad
    <3>1. /\ slot # None /\ leaked' = leaked \cup {slot.frame}
          /\ slot' = None /\ jpg' = (IF Spooled THEN None ELSE jpg)
          /\ rejected' \subseteq rejected \cup {slot.frame}
          /\ UNCHANGED <<store, landed, mounted, ring, next, taken, wanted,
                         faults>>
      BY <2>3 DEF SlotDrop, SlotBad, SlotReadable, InRam, Spooled, Card!Reject,
                  ClearSlot, CardLeft
    <3>2. slot.frame \in Frame
      BY <1>s, <3>1, FrameType
    <3>3. SpoolOwned'
      BY <1>t, <3>1 DEF SpoolOwned, Spooled
    <3>4. \A g \in Claims(ring') : Held(g)' \/ g \in landed' \cup leaked'
      BY <1>h, <3>1 DEF Held, OnCard
    <3> QED BY <3>1, <3>2, <3>3, <3>4, <1>r, <1>t, <1>q DEF TypeOK
  <2> QED BY <1>6, <2>1, <2>2, <2>3 DEF SlotNext
<1>7. CASE CardNext
  <2> PICK c \in store : \/ CardEvicts(c) \/ CardPosts(c) \/ CardSettles(c)
                         \/ CardRejects(c) \/ CardDiscards(c) \/ CardSpoils(c)
    BY <1>7 DEF CardNext
  <2> DEFINE f == Card!FrameOf(c)
  <2>f. c \in Card!Entry /\ f \in Frame
    BY <1>t, FrameType DEF TypeOK
  <2>1. CASE CardPosts(c) \/ CardSettles(c)
    <3>1. /\ store' \subseteq store /\ landed' = landed \cup {f}
          /\ store \ {c} \subseteq store'
          /\ UNCHANGED <<rejected, mounted, slot, jpg, ring, next, taken,
                         wanted, leaked, faults>>
      BY <2>1 DEF CardPosts, CardSettles, Card!Land, Card!Settle
    <3>2. SpoolOwned'
      BY <1>t, <3>1 DEF SpoolOwned, Spooled
    <3>3. \A g \in Claims(ring') : Held(g)' \/ g \in landed' \cup leaked'
      BY <1>h, <3>1 DEF Held, OnCard
    <3> HIDE DEF f
    <3> QED BY <3>1, <3>2, <3>3, <2>f, <1>r, <1>t, <1>q DEF TypeOK
  <2>2. CASE CardEvicts(c) \/ CardRejects(c) \/ CardDiscards(c)
    <3>1. /\ store' = store \ {c} /\ UnnoteEntry(c)
          /\ rejected' \subseteq rejected \cup {f}
          /\ UNCHANGED <<landed, mounted, slot, jpg, taken, wanted, faults>>
      BY <2>2 DEF CardEvicts, CardRejects, CardDiscards, Card!Evict,
                  Card!Refuse, Card!Discard
    <3>2. SpoolOwned'
      BY <1>t, <3>1 DEF SpoolOwned, Spooled
    <3>3. \A g \in Frame : g # f => (Held(g)' <=> Held(g))
      BY <3>1 DEF Held, OnCard
    <3>4. /\ ring' \in Ring /\ next' = next /\ Once(ring')
          /\ leaked \subseteq leaked' /\ leaked' \subseteq leaked \cup {f}
          /\ Claims(ring') \subseteq Claims(ring)
          /\ f \in Claims(ring') => f \in leaked'
      <4>1. CASE c.ok
        BY <4>1, <3>1, <2>f, <1>r, UnnotedRing DEF UnnoteEntry
      <4>2. CASE ~ c.ok
        BY <4>2, <3>1, <1>r DEF UnnoteEntry
      <4> QED BY <4>1, <4>2
    <3>5. \A g \in Claims(ring') : Held(g)' \/ g \in landed' \cup leaked'
      <4> HIDE DEF f
      <4> QED BY <1>h, <3>1, <3>3, <3>4 DEF Claims
    <3> HIDE DEF f
    <3> QED BY <3>1, <3>2, <3>4, <3>5, <2>f, <1>r, <1>t, <1>q DEF TypeOK
  <2>3. CASE CardSpoils(c)
    <3> DEFINE d == [c EXCEPT !.ok = FALSE]
    <3>1. /\ store' = (store \ {c}) \cup {d}
          /\ UNCHANGED <<landed, rejected, mounted, slot, jpg, ring, next,
                         taken, wanted, leaked>>
      BY <2>3 DEF CardSpoils, Card!Spoil
    <3>2. faults' \in 0 .. MaxFaults
      BY <2>3, <1>t, FaultType DEF CardSpoils
    <3>3. d \in Card!Entry /\ Card!FrameOf(d) = f
      BY <2>f DEF Card!Entry, Card!FrameOf
    <3>4. SpoolOwned'
      BY <1>t, <3>1 DEF SpoolOwned, Spooled
    <3> HIDE DEF d
    <3>5. \A g \in Frame : Held(g)' <=> Held(g)
      BY <3>1, <3>3 DEF Held, OnCard
    <3>6. \A g \in Claims(ring') : Held(g)' \/ g \in landed' \cup leaked'
      BY <1>h, <3>1, <3>5 DEF Claims
    <3> QED BY <3>1, <3>2, <3>3, <3>4, <3>6, <1>r, <1>t, <1>q DEF TypeOK
  <2> QED BY <2>1, <2>2, <2>3
<1>8. CASE SpoolSpoils
  <2>1. /\ jpg # None /\ jpg' = [jpg EXCEPT !.sound = FALSE]
        /\ UNCHANGED <<store, landed, rejected, mounted, slot, ring, next,
                       taken, wanted, leaked>>
    BY <1>8 DEF SpoolSpoils
  <2>2. faults' \in 0 .. MaxFaults
    BY <1>8, <1>t, FaultType DEF SpoolSpoils
  <2>3. jpg' \in Spool /\ jpg'.frame = jpg.frame
    BY <1>s, <2>1 DEF Spool
  <2>4. SpoolOwned'
    BY <1>t, <2>1, <2>3, FrameType DEF SpoolOwned, Spooled
  <2>5. \A g \in Claims(ring') : Held(g)' \/ g \in landed' \cup leaked'
    BY <1>h, <2>1 DEF Held, OnCard
  <2> QED BY <2>1, <2>2, <2>3, <2>4, <2>5, <1>r, <1>t, <1>q DEF TypeOK
<1>9. CASE CardGoesOrComes
  BY <1>9, <1>r, <1>h, <1>t, <1>q
     DEF CardGoesOrComes, TypeOK, SpoolOwned, Spooled, Held, OnCard
<1>10. CASE Reboot
  <2>1. /\ mounted' \in BOOLEAN /\ slot' = None /\ jpg' = None
        /\ ring' = [i \in DOMAIN ring |-> None] /\ next' = 0 /\ leaked' = {}
        /\ UNCHANGED <<store, landed, rejected, taken, wanted>>
    BY <1>10 DEF Reboot
  <2>2. faults' \in 0 .. MaxFaults
    BY <1>10, <1>t, FaultType DEF Reboot
  <2>3. ring' \in Ring /\ Once(ring') /\ Claims(ring') = {}
    BY <1>r, <2>1, FrameType DEF Ring, Once, Claims
  <2>4. SpoolOwned' /\ next' \in 0 .. RingSize - 1
    BY <2>1, CustodyAssumption DEF SpoolOwned, Spooled
  <2> QED BY <2>1, <2>2, <2>3, <2>4, <1>t, <1>q DEF TypeOK
<1> QED
  BY <1>1, <1>2, <1>3, <1>4, <1>5, <1>6, <1>7, <1>8, <1>9, <1>10
     DEF Next, LeafNext

-----------------------------------------------------------------------------
(* The invariant holds in every behaviour.                                 *)
LEMMA CustodyAlways == Spec => []CustodyInv
<1> QED BY InitCustody, CustodyStep, PTL DEF Spec

(* A leaf told "have" loses nothing the code does not already give up:     *)
(* through displacement, eviction, rejection, media errors and reboots, a  *)
(* claim stands for a frame that is held, that the server has, or that was *)
(* let go at one of the four known places.                                 *)
THEOREM ClaimsHonest == Spec => []RingHonest
<1> QED BY CustodyAlways, PTL DEF CustodyInv

(* /spool.jpg and the slot name one frame and come and go together, so no  *)
(* photo is uploaded under another's id and no flash is left unowned.      *)
THEOREM SpoolAndSlotAgree == Spec => []SpoolOwned
<1> QED BY CustodyAlways, PTL DEF CustodyInv

(* have_unnote leaves no second claim behind, and every variable keeps its *)
(* type.                                                                   *)
THEOREM OneClaimEach == Spec => [](TypeOK /\ ClaimedOnce)
<1> QED BY CustodyAlways, PTL DEF CustodyInv

-----------------------------------------------------------------------------
(* The card.                                                               *)

(* A step of custody is a step of the card's store, or leaves it alone.    *)
LEMMA CardStep ==
    ASSUME TypeOK, [Next]_vars
    PROVE  [Card!StoreNext]_(Card!storeVars)
<1> USE DEF cardVars, slotVars, ringVars, leafVars, Card!storeVars
<1>same. ASSUME UNCHANGED cardVars PROVE [Card!StoreNext]_(Card!storeVars)
  BY <1>same
<1>slot. slot # None => slot.frame \in Card!Frame
  BY FrameType DEF TypeOK, Frame
<1>entry. \A e \in store : Card!FrameOf(e) \in Card!Frame
  BY FrameType DEF TypeOK, Frame
<1>take. ASSUME NEW f, CardTakes(f) PROVE [Card!StoreNext]_(Card!storeVars)
  <2>1. PICK k \in 0 .. MaxFiles :
          Card!Accept([key |-> k, full |-> f.full, ev |-> f.ev, ok |-> TRUE])
    BY <1>take DEF CardTakes
  <2> DEFINE e == [key |-> k, full |-> f.full, ev |-> f.ev, ok |-> TRUE]
  <2>2. Card!Accept(e) /\ e \in store'
    BY <2>1 DEF Card!Accept
  <2> HIDE DEF e
  <2> QED BY <2>2 DEF Card!StoreNext
<1>arrive. ASSUME NEW f, Custody(f) PROVE [Card!StoreNext]_(Card!storeVars)
  BY <1>arrive, <1>take, <1>same
     DEF Custody, OwnedArrives, ChunkedArrives, OwnedToCard, OwnedToSlot, FullToCard,
         FullToSlot, CardLeft
<1>1. CASE LeafNext
  <2> PICK e \in Event : \/ ThumbArrives(e) \/ WantFull(e) \/ FullArrives(e)
                         \/ FullArrivesAgain(e) \/ FullRenameFails(e)
    BY <1>1 DEF LeafNext
  <2>1. CASE ThumbArrives(e)
    BY <2>1, <1>arrive DEF ThumbArrives, Custody
  <2>2. CASE FullArrives(e) \/ FullArrivesAgain(e)
    BY <2>2, <1>arrive DEF FullArrives, FullArrivesAgain, Custody
  <2>3. CASE WantFull(e) \/ FullRenameFails(e)
    BY <2>3, <1>same DEF WantFull, FullRenameFails, CardLeft
  <2> QED BY <2>1, <2>2, <2>3
<1>2. CASE SlotNext
  <2>1. CASE SlotOk \/ SlotRetry
    <3>1. slot # None /\ Card!Land(slot.frame)
      BY <2>1 DEF SlotOk, SlotRetry, SlotReadable, InRam, Spooled
    <3> QED BY <1>slot, <3>1 DEF Card!StoreNext
  <2>2. CASE SlotDrop
    <3>1. slot # None /\ Card!Reject(slot.frame)
      BY <2>2 DEF SlotDrop, SlotReadable, InRam, Spooled
    <3> QED BY <1>slot, <3>1 DEF Card!StoreNext
  <2>3. CASE SlotBad
    BY <2>3, <1>same DEF SlotBad, CardLeft
  <2> QED BY <1>2, <2>1, <2>2, <2>3 DEF SlotNext
<1>3. CASE CardNext
  <2> PICK e \in store : \/ CardEvicts(e) \/ CardPosts(e) \/ CardSettles(e)
                         \/ CardRejects(e) \/ CardDiscards(e) \/ CardSpoils(e)
    BY <1>3 DEF CardNext
  <2>1. CASE CardEvicts(e)
    BY <2>1 DEF CardEvicts, Card!StoreNext, Frame
  <2>2. CASE CardPosts(e)
    BY <2>2, <1>entry DEF CardPosts, Card!StoreNext
  <2>3. CASE CardSettles(e) \/ CardRejects(e) \/ CardDiscards(e) \/ CardSpoils(e)
    BY <2>3 DEF CardSettles, CardRejects, CardDiscards, CardSpoils, Card!StoreNext
  <2> QED BY <2>1, <2>2, <2>3
<1>4. CASE SpoolSpoils \/ CardGoesOrComes \/ Reboot \/ UNCHANGED vars
  BY <1>4, <1>same DEF SpoolSpoils, CardGoesOrComes, Reboot, vars
<1> QED BY <1>1, <1>2, <1>3, <1>4 DEF Next

(* What custody assumes of the card is what FrameStore promises and, by    *)
(* QueueIsStore, sd_queue.inc keeps: no step of the slot, the spool or the *)
(* ring reaches into the card, and a reboot leaves it alone.               *)
THEOREM CardIsStore == Spec => Card!StoreSpec
<1>1. Init => Card!StoreInit
  BY DEF Init, Card!StoreInit
<1>2. CustodyInv /\ [Next]_vars => [Card!StoreNext]_(Card!storeVars)
  BY CardStep DEF CustodyInv
<1> QED BY <1>1, <1>2, CustodyAlways, PTL DEF Spec, Card!StoreSpec

=============================================================================
