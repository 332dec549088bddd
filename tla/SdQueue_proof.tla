---------------------------- MODULE SdQueue_proof ----------------------------
(***************************************************************************)
(* Proofs about the upload queue, for every value of its constants.        *)
(*                                                                         *)
(* The inductive invariant is TypeOK /\ WorkInv: WorkInv is what an        *)
(* operation's later steps rely on from its earlier ones, across every     *)
(* pull, hang, media error and reboot that may come between them.          *)
(***************************************************************************)
EXTENDS SdQueue, FiniteSetTheorems, TLAPS

(* An entry takes at least a byte.                                         *)
LEMMA SizeNat == ASSUME NEW full PROVE SizeOf(full) \in Nat \ {0}
BY SdQueueAssumption DEF SizeOf

(* None is told from every value it stands beside.                         *)
LEMMA NoneIsNothing == None \notin File /\ None \notin Frame /\ None \notin Tmp
BY NoneAssumption

(* A finite set of entries is counted by a number.                         *)
LEMMA CountNat == ASSUME NEW S, IsFiniteSet(S) PROVE Cardinality(S) \in Nat
BY FS_CardinalityType

(* A finite card's count, and the count without one of its entries.        *)
LEMMA CountOne ==
    ASSUME IsFiniteSet(card), NEW f \in card
    PROVE  /\ Cardinality(card) \in Nat
           /\ IsFiniteSet(card \ {f})
           /\ Cardinality(card \ {f}) = Cardinality(card) - 1
           /\ Cardinality(card) - 1 \in Nat
<1>1. IsFiniteSet(card \ {f}) /\ Cardinality(card \ {f}) = Cardinality(card) - 1
  BY FS_RemoveElement
<1>2. Cardinality(card) \in Nat /\ Cardinality(card \ {f}) \in Nat
  BY <1>1, FS_CardinalityType
<1> QED BY <1>1, <1>2

(* What removing the assembly leaves free is a number.                     *)
LEMMA FreeWithoutTmpNat ==
    ASSUME TypeOK
    PROVE  FreeWithoutTmp \in Nat
BY SizeNat DEF FreeWithoutTmp, TypeOK

(* The queue starts well typed, with no work in hand.                      *)
LEMMA InitInv == Init => TypeOK /\ WorkInv
<1> SUFFICES ASSUME Init PROVE TypeOK /\ WorkInv
  OBVIOUS
<1>1. card \subseteq File /\ IsFiniteSet(card)
  BY CardsAssumption DEF Init
<1>2. free \in Nat
  BY SdQueueAssumption DEF Init
<1>3. arrivals \in 0 .. MaxArrivals /\ faults \in 0 .. MaxFaults
  BY SdQueueAssumption DEF Init
<1> QED BY <1>1, <1>2, <1>3 DEF Init, TypeOK, WorkInv

(* The two disk effects of a remove keep the card's type.                  *)
LEMMA RemovedType ==
    ASSUME TypeOK, NEW f \in card, Removed(f) \/ RemoveFailed
    PROVE  /\ card' \subseteq card /\ IsFiniteSet(card') /\ free' \in Nat
           /\ faults' \in 0 .. MaxFaults
           /\ card' = card \/ card' = card \ {f}
<1>1. CASE Removed(f)
  BY <1>1, CountOne, SizeNat DEF Removed, TypeOK
<1>2. CASE RemoveFailed
  BY <1>2, SdQueueAssumption DEF RemoveFailed, Fault, TypeOK
<1> QED BY <1>1, <1>2

(* The two outcomes of removing the assembly keep its type.                *)
LEMMA TmpType ==
    ASSUME TypeOK, TmpGone \/ TmpStays \/ UNCHANGED <<tmp, free, stale>>
    PROVE  tmp' \in Tmp \cup {None} /\ free' \in Nat /\ stale' \in BOOLEAN
BY FreeWithoutTmpNat DEF TmpGone, TmpStays, TypeOK

(* The mount's three outcomes leave the entries and the work alone.        *)
MountEnds == Mount \/ MountFails \/ MountWedges

LEMMA MountKeeps ==
    ASSUME MountEnds
    PROVE  /\ pc = "idle"
           /\ UNCHANGED <<card, opVars, custody, fateVars, present, cdLast,
                          arrivals>>
           /\ TmpGone \/ TmpStays \/ UNCHANGED <<tmp, free, stale>>
           /\ faults' = faults \/ Fault
BY DEF MountEnds, Mount, MountFails, MountWedges, MountDue, Idle, cardVars,
       boundVars

-----------------------------------------------------------------------------
(* Every step of the queue and of the world keeps the types.               *)
LEMMA TypeStep == TypeOK /\ WorkInv /\ [Next]_vars => TypeOK'
<1> SUFFICES ASSUME TypeOK, WorkInv, [Next]_vars PROVE TypeOK'
  OBVIOUS
<1> USE DEF cardVars, slotVars, ramVars, work, opVars, custody, fateVars,
            boundVars
<1>count. Cardinality(card) \in Nat
  BY CountNat DEF TypeOK
<1>strikes. strikes + 1 \in Nat /\ depth + 1 \in Nat
  BY DEF TypeOK
<1>bounds. /\ Fault => faults' \in 0 .. MaxFaults
           /\ arrivals < MaxArrivals => arrivals + 1 \in 0 .. MaxArrivals
  BY SdQueueAssumption DEF TypeOK, Fault
<1>1. CASE UNCHANGED vars
  BY <1>1 DEF TypeOK, vars
<1>2. CASE Housekeeping
  <2>1. CASE SampleCard
    BY <2>1 DEF SampleCard, TypeOK
  <2>4. CASE SeeInsertion
    BY <2>4 DEF SeeInsertion, TypeOK
  <2>5. CASE SeeRemoval
    BY <2>5 DEF SeeRemoval, TypeOK
  <2>2. CASE MountEnds
    <3>1. /\ tmp' \in Tmp \cup {None} /\ free' \in Nat /\ stale' \in BOOLEAN
          /\ faults' \in 0 .. MaxFaults
      BY <1>bounds, <2>2, MountKeeps, TmpType DEF TypeOK
    <3>2. /\ live' \in BOOLEAN /\ mounted' \in BOOLEAN /\ stuck' \in BOOLEAN
          /\ strikes' \in Nat /\ depth' \in Nat
      <4>1. CASE Mount
        BY <1>count, <4>1 DEF Mount, TypeOK
      <4>2. CASE MountFails
        <5>1. /\ live' = FALSE /\ mounted' = mounted /\ stuck' = stuck
              /\ depth' = depth \/ depth' = 0
              /\ strikes' = strikes \/ strikes' = 0
          BY <4>2 DEF MountFails
        <5>2. /\ mounted \in BOOLEAN /\ stuck \in BOOLEAN
              /\ strikes \in Nat /\ depth \in Nat
          BY DEF TypeOK
        <5>3. live' \in BOOLEAN /\ mounted' \in BOOLEAN /\ stuck' \in BOOLEAN
          BY <5>1, <5>2, Zenon
        <5> QED BY <5>1, <5>2, <5>3
      <4>3. CASE MountWedges
        BY <4>3 DEF MountWedges, TypeOK
      <4> QED BY <2>2, <4>1, <4>2, <4>3 DEF MountEnds
    <3> QED BY <2>2, <3>1, <3>2, MountKeeps DEF TypeOK
  <2>3. CASE StatsScan
    BY <1>count, <2>3 DEF StatsScan, TypeOK
  <2> QED BY <1>2, <2>1, <2>2, <2>3, <2>4, <2>5 DEF Housekeeping, MountEnds
<1>3. CASE \E f \in Frame : EnqueueStart(f)
  BY <1>bounds, <1>3 DEF EnqueueStart, TypeOK
<1>4. CASE MakeRoom
  <2>1. CASE RoomScanFails
    BY <2>1 DEF RoomScanFails, BackToIdle, TypeOK
  <2>4. CASE RoomEnough
    BY <1>count, <2>4 DEF RoomEnough, RoomScanned, TypeOK
  <2>5. CASE RoomRefused
    BY <1>count, <2>5 DEF RoomRefused, RoomScanned, BackToIdle, TypeOK
  <2>2. ASSUME NEW f \in card, RoomEvict(f) PROVE TypeOK'
    <3>1. card' \subseteq card /\ IsFiniteSet(card') /\ free' \in Nat
          /\ faults' \in 0 .. MaxFaults /\ phantom' \in Nat
      <4>1. Removed(f) \/ RemoveFailed
        BY <2>2 DEF RoomEvict
      <4>2. phantom' \in Nat
        BY <2>2, SizeNat DEF RoomEvict, TypeOK
      <4> QED BY <4>1, <4>2, RemovedType
    <3>2. est' \in Nat
      BY <2>2, SizeNat DEF RoomEvict, TypeOK
    <3>3. depth' \in Nat
      BY <2>2, CountOne DEF RoomEvict, TypeOK
    <3>4. have' \subseteq Frame /\ orphaned' \subseteq Frame
      <4>1. FrameOf(f) \in Frame
        BY DEF FrameOf, Frame, File, TypeOK
      <4> QED BY <2>2, <4>1 DEF RoomEvict, Unnote, TypeOK
    <3> QED BY <2>2, <3>1, <3>2, <3>3, <3>4 DEF RoomEvict, TypeOK
  <2>3. CASE EvictFull \/ EvictThumb
    BY <2>2, <2>3 DEF EvictFull, EvictThumb
  <2> QED BY <1>4, <2>1, <2>3, <2>4, <2>5 DEF MakeRoom
<1>5. CASE Store
  <2>1. CASE WriteBegin
    <3>1. free' \in Nat
      BY <2>1, SizeNat, FreeWithoutTmpNat DEF WriteBegin
    <3>2. tmp' \in Tmp
      BY <2>1 DEF WriteBegin, WorkInv, Tmp
    <3> QED BY <2>1, <3>1, <3>2 DEF WriteBegin, TypeOK
  <2>2. CASE WriteDone
    <3>1. tmp' \in Tmp
      BY <2>2 DEF WriteDone, WorkInv, Tmp
    <3> QED BY <2>2, <3>1 DEF WriteDone, TypeOK
  <2>3. CASE WriteFails \/ RenameFails
    <3>1. tmp' \in Tmp \cup {None} /\ free' \in Nat /\ stale' \in BOOLEAN
      BY <2>3, TmpType DEF WriteFails, RenameFails, DiscardTmp
    <3>2. faults' \in 0 .. MaxFaults
      BY <1>bounds, <2>3 DEF WriteFails, RenameFails, DiscardTmp, TypeOK
    <3>3. CASE WriteFails
      BY <1>strikes, <3>1, <3>2, <3>3 DEF WriteFails, BackToIdle, TypeOK
    <3>4. CASE RenameFails
      BY <3>1, <3>2, <3>4 DEF RenameFails, BackToIdle, TypeOK
    <3> QED BY <2>3, <3>3, <3>4
  <2>4. CASE Rename
    <3>1. PICK k \in StartKeys(inc), n \in 0 .. KeyTries :
            card' = card \cup {[key |-> k + n, full |-> inc.full,
                                ev |-> tmp.frame.ev, ok |-> tmp.whole]}
      BY <2>4 DEF Rename
    <3>2. k + n \in Nat
      <4>1. CapTime[inc.ev] \in Nat
        BY <2>4, SdQueueAssumption DEF Rename, WorkInv, Frame
      <4>2. k \in Nat
        BY <4>1, SdQueueAssumption DEF StartKeys
      <4> QED BY <4>2, SdQueueAssumption
    <3>3. card' \subseteq File
      BY <2>4, <3>1, <3>2 DEF Rename, WorkInv, Frame, Tmp, File, TypeOK
    <3>4. IsFiniteSet(card')
      BY <3>1, FS_AddElement DEF TypeOK
    <3> QED BY <1>strikes, <2>4, <3>3, <3>4 DEF Rename, BackToIdle, WorkInv, TypeOK
  <2> QED BY <1>5, <2>1, <2>2, <2>3, <2>4 DEF Store
<1>6. CASE Drain
  <2>1. CASE DrainScanFails
    BY <2>1 DEF DrainScanFails, TypeOK
  <2>2. CASE DrainPick
    BY <1>count, <2>2 DEF DrainPick, TypeOK
  <2>3. CASE DrainBad
    <3>1. PICK f \in card : /\ Removed(f) \/ RemoveFailed
                            /\ orphaned' = orphaned \cup {FrameOf(f)}
      BY <2>3 DEF DrainBad
    <3>2. FrameOf(f) \in Frame
      BY DEF FrameOf, Frame, File, TypeOK
    <3> QED BY <2>3, <3>1, <3>2, RemovedType, CountOne DEF DrainBad, TypeOK
  <2>4. CASE DrainRemove
    <3>1. /\ card' \subseteq File /\ IsFiniteSet(card') /\ free' \in Nat
          /\ faults' \in 0 .. MaxFaults
      BY <2>4, RemovedType DEF DrainRemove, WorkInv, TypeOK
    <3> QED BY <2>4, <3>1 DEF DrainRemove, OneLess, BackToIdle, TypeOK
  <2> QED BY <1>6, <2>1, <2>2, <2>3, <2>4 DEF Drain
<1>7. CASE Post
  <2>1. FrameOf(cur) \in Frame
    BY <1>7 DEF Post, PostOk, PostRetry, PostReject, WorkInv, FrameOf, Frame,
                File, TypeOK
  <2> QED BY <1>7, <2>1 DEF Post, PostOk, PostRetry, PostReject, Unnote,
                            BackToIdle, TypeOK
<1>8. CASE World
  <2>1. CASE PullCard
    BY <1>bounds, <2>1 DEF PullCard, TypeOK
  <2>4. CASE InsertCard
    BY <2>4 DEF InsertCard, TypeOK
  <2>5. CASE CardHangs
    BY <1>bounds, <2>5 DEF CardHangs, TypeOK
  <2>2. CASE Reboot
    BY <1>bounds, <2>2 DEF Reboot, BackToIdle, TypeOK
  <2>3. CASE EntryRots
    <3>1. PICK f \in card :
            card' = (card \ {f}) \cup {[f EXCEPT !.ok = FALSE]}
      BY <2>3 DEF EntryRots
    <3>2. card' \subseteq File
      BY <3>1 DEF TypeOK, File
    <3>3. IsFiniteSet(card')
      BY <3>1, CountOne, FS_AddElement DEF TypeOK
    <3> QED BY <2>3, <3>2, <3>3, <1>bounds DEF EntryRots, TypeOK
  <2> QED BY <1>8, <2>1, <2>2, <2>3, <2>4, <2>5 DEF World
<1> QED BY <1>1, <1>2, <1>3, <1>4, <1>5, <1>6, <1>7, <1>8 DEF Next

-----------------------------------------------------------------------------
(* Every step keeps what the operation in hand relies on (WorkInv).        *)
LEMMA WorkStep == TypeOK /\ WorkInv /\ [Next]_vars => WorkInv'
<1> SUFFICES ASSUME TypeOK, WorkInv, [Next]_vars PROVE WorkInv'
  OBVIOUS
<1> USE DEF cardVars, slotVars, ramVars, work, opVars, custody, fateVars,
            boundVars
(* A step that leaves the operation's state alone, or ends it.             *)
<1>same. ASSUME UNCHANGED <<card, tmp, opVars, have, fateVars>>
         PROVE  WorkInv'
  BY <1>same DEF WorkInv
<1>idle. ASSUME BackToIdle PROVE WorkInv'
  BY <1>idle DEF BackToIdle, WorkInv
<1>1. CASE UNCHANGED vars
  BY <1>1, <1>same DEF vars
<1>2. CASE Housekeeping
  <2>1. CASE SampleCard \/ SeeInsertion \/ SeeRemoval \/ StatsScan
    BY <1>same, <2>1 DEF SampleCard, SeeInsertion, SeeRemoval, StatsScan
  <2>2. CASE MountEnds
    BY <2>2, MountKeeps DEF WorkInv
  <2> QED BY <1>2, <2>1, <2>2 DEF Housekeeping, MountEnds
<1>3. CASE \E f \in Frame : EnqueueStart(f)
  BY <1>3 DEF EnqueueStart, WorkInv
<1>4. CASE MakeRoom
  <2>1. CASE RoomScanFails \/ RoomRefused
    BY <1>idle, <2>1 DEF RoomScanFails, RoomRefused
  <2>2. CASE RoomEnough
    BY <2>2 DEF RoomEnough, RoomScanned, WorkInv
  <2>3. CASE EvictFull \/ EvictThumb
    BY <2>3 DEF EvictFull, EvictThumb, RoomEvict, WorkInv
  <2> QED BY <1>4, <2>1, <2>2, <2>3 DEF MakeRoom
<1>5. CASE Store
  <2>1. CASE WriteBegin
    BY <2>1 DEF WriteBegin, WorkInv, Tmp
  <2>2. CASE WriteDone
    BY <2>2 DEF WriteDone, WorkInv, Tmp
  <2>3. CASE WriteFails \/ Rename \/ RenameFails
    BY <1>idle, <2>3 DEF WriteFails, Rename, RenameFails
  <2> QED BY <1>5, <2>1, <2>2, <2>3 DEF Store
<1>6. CASE Drain
  <2>1. CASE DrainScanFails
    BY <1>same, <2>1 DEF DrainScanFails
  <2>2. CASE DrainPick
    BY <2>2 DEF DrainPick, WorkInv
  <2>3. CASE DrainBad
    BY <2>3 DEF DrainBad, DrainGate, Idle, WorkInv
  <2>4. CASE DrainRemove
    BY <1>idle, <2>4 DEF DrainRemove
  <2> QED BY <1>6, <2>1, <2>2, <2>3, <2>4 DEF Drain
<1>7. CASE Post
  <2>1. CASE PostOk
    BY <2>1 DEF PostOk, WorkInv
  <2>2. CASE PostRetry
    BY <1>idle, <2>2 DEF PostRetry
  <2>3. CASE PostReject
    BY <2>3 DEF PostReject, Unnote, WorkInv
  <2> QED BY <1>7, <2>1, <2>2, <2>3 DEF Post
<1>8. CASE World
  <2>1. CASE PullCard \/ InsertCard \/ CardHangs
    BY <1>same, <2>1 DEF PullCard, InsertCard, CardHangs
  <2>2. CASE EntryRots
    BY <2>2 DEF EntryRots, WorkInv
  <2>3. CASE Reboot
    BY <1>idle, <2>3 DEF Reboot
  <2> QED BY <1>8, <2>1, <2>2, <2>3 DEF World
<1> QED BY <1>1, <1>2, <1>3, <1>4, <1>5, <1>6, <1>7, <1>8 DEF Next

-----------------------------------------------------------------------------
(* Every variable has its type throughout.                                 *)
THEOREM TypeCorrect == Spec => []TypeOK
<1>1. TypeOK /\ WorkInv /\ [Next]_vars => (TypeOK /\ WorkInv)'
  BY TypeStep, WorkStep
<1> QED BY <1>1, InitInv, PTL DEF Spec

(* What the operations rely on from one step to the next holds             *)
(* throughout: the assembly is the incoming frame, and an entry is on the  *)
(* card until it has been settled.                                         *)
THEOREM WorkCorrect == Spec => []WorkInv
<1>1. TypeOK /\ WorkInv /\ [Next]_vars => (TypeOK /\ WorkInv)'
  BY TypeStep, WorkStep
<1> QED BY <1>1, InitInv, PTL DEF Spec

-----------------------------------------------------------------------------
(* What is on the card after a step, frame by frame.                       *)
LEMMA OnCardRemoved ==
    ASSUME NEW f \in card, card' = card \/ card' = card \ {f}
    PROVE  \A x \in OnCard : x \in OnCard' \/ x = FrameOf(f)
BY DEF OnCard, FrameOf

(* A card left alone holds the same frames.                                *)
LEMMA OnCardSame ==
    ASSUME card' = card
    PROVE  OnCard' = OnCard
BY DEF OnCard, FrameOf

(* Every step keeps the claims honest.                                     *)
LEMMA HonestStep ==
    TypeOK /\ WorkInv /\ HaveHonest /\ [Next]_vars => HaveHonest'
<1> SUFFICES ASSUME TypeOK, WorkInv, HaveHonest, [Next]_vars
             PROVE  HaveHonest'
  OBVIOUS
<1> USE DEF cardVars, slotVars, ramVars, work, opVars, custody, fateVars,
            boundVars
(* Most steps touch neither the card, nor a claim, nor a frame's fate.     *)
<1>same. ASSUME card' = card, UNCHANGED <<custody, fateVars>>
         PROVE  HaveHonest'
  BY <1>same, OnCardSame DEF HaveHonest
<1>1. CASE UNCHANGED vars
  BY <1>1, <1>same DEF vars
<1>2. CASE Housekeeping
  BY <1>2, <1>same DEF Housekeeping, SampleCard, SeeInsertion, SeeRemoval,
                       Mount, MountFails, MountWedges, StatsScan
<1>3. CASE \E f \in Frame : EnqueueStart(f)
  BY <1>3, <1>same DEF EnqueueStart
<1>4. CASE MakeRoom
  <2>1. CASE RoomScanFails \/ RoomEnough \/ RoomRefused
    BY <2>1, <1>same DEF RoomScanFails, RoomEnough, RoomRefused
  <2>2. ASSUME NEW f \in card, RoomEvict(f) PROVE HaveHonest'
    <3>1. \A x \in OnCard : x \in OnCard' \/ x = FrameOf(f)
      BY <2>2, OnCardRemoved DEF RoomEvict, Removed, RemoveFailed
    <3>2. CASE f.ok
      BY <2>2, <3>1, <3>2 DEF RoomEvict, Unnote, HaveHonest
    <3>3. CASE ~ f.ok
      BY <2>2, <3>1, <3>3 DEF RoomEvict, HaveHonest
    <3> QED BY <3>2, <3>3
  <2> QED BY <1>4, <2>1, <2>2 DEF MakeRoom, EvictFull, EvictThumb
<1>5. CASE Store
  <2>1. CASE WriteBegin \/ WriteDone \/ WriteFails \/ RenameFails
    BY <2>1, <1>same DEF WriteBegin, WriteDone, WriteFails, RenameFails
  <2>2. CASE Rename
    <3>1. PICK k \in StartKeys(inc), n \in 0 .. KeyTries :
            card' = card \cup {[key |-> k + n, full |-> inc.full,
                                ev |-> tmp.frame.ev, ok |-> tmp.whole]}
      BY <2>2 DEF Rename
    <3>2. inc \in OnCard'
      BY <2>2, <3>1 DEF Rename, WorkInv, OnCard, FrameOf, Frame
    <3>3. OnCard \subseteq OnCard'
      BY <3>1 DEF OnCard, FrameOf
    <3> QED BY <2>2, <3>2, <3>3 DEF Rename, HaveHonest
  <2> QED BY <1>5, <2>1, <2>2 DEF Store
<1>6. CASE Drain
  <2>1. CASE DrainScanFails \/ DrainPick
    BY <2>1, <1>same DEF DrainScanFails, DrainPick
  <2>2. CASE DrainBad
    <3>1. PICK f \in card : /\ card' = card \/ card' = card \ {f}
                            /\ orphaned' = orphaned \cup {FrameOf(f)}
      BY <2>2 DEF DrainBad, Removed, RemoveFailed
    <3> QED BY <2>2, <3>1, OnCardRemoved DEF DrainBad, HaveHonest
  <2>3. CASE DrainRemove
    <3>1. \A x \in OnCard : x \in OnCard' \/ x = FrameOf(cur)
      BY <2>3, OnCardRemoved DEF DrainRemove, Removed, RemoveFailed, WorkInv
    <3> QED BY <2>3, <3>1 DEF DrainRemove, WorkInv, HaveHonest
  <2> QED BY <1>6, <2>1, <2>2, <2>3 DEF Drain
<1>7. CASE Post
  BY <1>7, OnCardSame DEF Post, PostOk, PostRetry, PostReject, Unnote,
                          HaveHonest
<1>8. CASE World
  <2>1. CASE PullCard \/ InsertCard \/ CardHangs
    BY <2>1, <1>same DEF PullCard, InsertCard, CardHangs
  <2>2. CASE EntryRots
    <3>1. PICK f \in card :
            card' = (card \ {f}) \cup {[f EXCEPT !.ok = FALSE]}
      BY <2>2 DEF EntryRots
    <3>2. FrameOf([f EXCEPT !.ok = FALSE]) = FrameOf(f)
      BY DEF FrameOf, File, TypeOK
    <3>3. OnCard \subseteq OnCard'
      BY <3>1, <3>2 DEF OnCard, FrameOf
    <3> QED BY <2>2, <3>3 DEF EntryRots, HaveHonest
  <2>3. CASE Reboot
    BY <2>3 DEF Reboot, HaveHonest
  <2> QED BY <1>8, <2>1, <2>2, <2>3 DEF World
<1> QED BY <1>1, <1>2, <1>3, <1>4, <1>5, <1>6, <1>7, <1>8 DEF Next

(* No claim in vain: whatever is evicted, rejected, pulled or lost to a    *)
(* power failure, a frame the gateway answers "have" for is on the card,   *)
(* with the server, or was in an entry that could not be read any more.    *)
THEOREM CustodyHonest == Spec => []HaveHonest
<1>1. Init => TypeOK /\ WorkInv /\ HaveHonest
  BY InitInv DEF Init, HaveHonest
<1>2. TypeOK /\ WorkInv /\ HaveHonest /\ [Next]_vars
        => (TypeOK /\ WorkInv /\ HaveHonest)'
  BY TypeStep, WorkStep, HonestStep
<1> QED BY <1>1, <1>2, PTL DEF Spec

-----------------------------------------------------------------------------
(* Every step keeps a live card clean of torn assemblies.                  *)
LEMMA TornStep == WorkInv /\ NoTornAssembly /\ [Next]_vars => NoTornAssembly'
<1> SUFFICES ASSUME WorkInv, NoTornAssembly, [Next]_vars
             PROVE  NoTornAssembly'
  OBVIOUS
<1> USE DEF cardVars, slotVars, ramVars, work, opVars, NoTornAssembly
<1>1. CASE UNCHANGED vars
  BY <1>1 DEF vars
<1>2. CASE Housekeeping
  BY <1>2 DEF Housekeeping, SampleCard, SeeInsertion, SeeRemoval, Mount,
              MountFails, MountWedges, MountDue, TmpGone, TmpStays, Idle,
              StatsScan
<1>3. CASE \E f \in Frame : EnqueueStart(f)
  BY <1>3 DEF EnqueueStart, Idle
<1>4. CASE MakeRoom
  BY <1>4 DEF MakeRoom, RoomScanFails, RoomEnough, RoomScanned, EvictFull,
              EvictThumb, RoomEvict, RoomRefused, BackToIdle
<1>5. CASE Store
  BY <1>5 DEF Store, WriteBegin, WriteDone, WriteFails, Rename, RenameFails,
              DiscardTmp, TmpGone, TmpStays, BackToIdle
<1>6. CASE Drain
  BY <1>6 DEF Drain, DrainScanFails, DrainPick, DrainBad, DrainRemove,
              DrainGate, Idle, BackToIdle
<1>7. CASE Post
  BY <1>7 DEF Post, PostOk, PostRetry, PostReject, BackToIdle
<1>8. CASE World
  BY <1>8 DEF World, PullCard, InsertCard, CardHangs, EntryRots, Reboot
<1> QED BY <1>1, <1>2, <1>3, <1>4, <1>5, <1>6, <1>7, <1>8 DEF Next

(* A card that answers holds no assembly between operations: every failing *)
(* path of an enqueue, and the mount, has removed it or been refused.      *)
THEOREM AssemblyClean == Spec => []NoTornAssembly
<1>1. Init => WorkInv /\ NoTornAssembly
  BY InitInv DEF Init, NoTornAssembly
<1>2. TypeOK /\ WorkInv /\ [Next]_vars => (TypeOK /\ WorkInv)'
  BY TypeStep, WorkStep
<1> QED BY <1>1, <1>2, InitInv, TornStep, PTL DEF Spec

-----------------------------------------------------------------------------
(* The name the rename settles on is free, so the card gains one entry.    *)
LEMMA RenameAdds ==
    ASSUME TypeOK, WorkInv, Rename
    PROVE  \E e \in File :
             /\ e \notin card /\ card' = card \cup {e} /\ e.ok
             /\ \A o \in card : <<o.key, o.full>> # <<e.key, e.full>>
<1>1. PICK k \in StartKeys(inc), n \in 0 .. KeyTries :
        /\ ~ HasName(card, k + n, inc.full)
        /\ card' = card \cup {[key |-> k + n, full |-> inc.full,
                              ev |-> tmp.frame.ev, ok |-> tmp.whole]}
  BY DEF Rename
<1> DEFINE e == [key |-> k + n, full |-> inc.full, ev |-> tmp.frame.ev,
                 ok |-> tmp.whole]
<1>2. k + n \in Nat
  <2>1. CapTime[inc.ev] \in Nat
    BY SdQueueAssumption DEF Rename, WorkInv, Frame
  <2>2. k \in Nat
    BY <2>1, SdQueueAssumption DEF StartKeys
  <2> QED BY <2>2, SdQueueAssumption
<1>3. e \in File /\ e.ok
  BY <1>2 DEF Rename, WorkInv, Tmp, Frame, File
<1>4. \A o \in card : ~ (o.key = k + n /\ o.full = inc.full)
  BY <1>1 DEF HasName
<1>5. \A o \in card : o # e /\ <<o.key, o.full>> # <<e.key, e.full>>
  BY <1>4
<1> QED BY <1>1, <1>3, <1>5

(* Every step keeps the names apart.                                       *)
LEMMA NamesStep ==
    TypeOK /\ WorkInv /\ NamesUnique /\ [Next]_vars => NamesUnique'
<1> SUFFICES ASSUME TypeOK, WorkInv, NamesUnique, [Next]_vars
             PROVE  NamesUnique'
  OBVIOUS
<1> USE DEF cardVars, NamesUnique
<1>fewer. ASSUME card' \subseteq card PROVE NamesUnique'
  BY <1>fewer
<1>1. CASE UNCHANGED vars
  BY <1>1, <1>fewer DEF vars
<1>2. CASE Housekeeping
  BY <1>2, <1>fewer DEF Housekeeping, SampleCard, SeeInsertion, SeeRemoval,
                        Mount, MountFails, MountWedges, StatsScan
<1>3. CASE \E f \in Frame : EnqueueStart(f)
  BY <1>3, <1>fewer DEF EnqueueStart
<1>4. CASE MakeRoom
  BY <1>4, <1>fewer DEF MakeRoom, RoomScanFails, RoomEnough, RoomRefused,
                        EvictFull, EvictThumb, RoomEvict, Removed, RemoveFailed
<1>5. CASE Store
  <2>1. CASE Rename
    <3>1. PICK e \in File :
            /\ card' = card \cup {e}
            /\ \A o \in card : <<o.key, o.full>> # <<e.key, e.full>>
      BY <2>1, RenameAdds
    <3> QED BY <3>1
  <2>2. CASE ~ Rename
    BY <1>5, <2>2, <1>fewer DEF Store, WriteBegin, WriteDone, WriteFails,
                                RenameFails
  <2> QED BY <2>1, <2>2
<1>6. CASE Drain
  BY <1>6, <1>fewer DEF Drain, DrainScanFails, DrainPick, DrainBad,
                        DrainRemove, Removed, RemoveFailed
<1>7. CASE Post
  BY <1>7, <1>fewer DEF Post, PostOk, PostRetry, PostReject
<1>8. CASE World
  <2>1. CASE PullCard \/ InsertCard \/ CardHangs \/ Reboot
    BY <2>1, <1>fewer DEF PullCard, InsertCard, CardHangs, Reboot
  <2>2. CASE EntryRots
    BY <2>2 DEF EntryRots, File, TypeOK
  <2> QED BY <1>8, <2>1, <2>2 DEF World
<1> QED BY <1>1, <1>2, <1>3, <1>4, <1>5, <1>6, <1>7, <1>8 DEF Next

(* Every step keeps depth at or below the number of entries.               *)
LEMMA DepthStep ==
    TypeOK /\ WorkInv /\ NamesUnique /\ DepthNeverOver /\ [Next]_vars
        => DepthNeverOver'
<1> SUFFICES ASSUME TypeOK, WorkInv, NamesUnique, DepthNeverOver, [Next]_vars
             PROVE  DepthNeverOver'
  OBVIOUS
<1> USE DEF cardVars, slotVars, ramVars, work, opVars, DepthNeverOver
<1>count. Cardinality(card) \in Nat
  BY CountNat DEF TypeOK
<1>removed. ASSUME NEW f \in card, Removed(f) \/ RemoveFailed
            PROVE  Cardinality(card) - 1 <= Cardinality(card')
  <2>1. CASE Removed(f)
    <3>1. Cardinality(card') = Cardinality(card) - 1
      BY <2>1, CountOne DEF Removed, TypeOK
    <3> QED BY <3>1, <1>count
  <2>2. CASE RemoveFailed
    BY <2>2, <1>count DEF RemoveFailed
  <2> QED BY <1>removed, <2>1, <2>2
<1>kept. ASSUME UNCHANGED <<card, live, depth>>, mounted' => mounted
         PROVE  DepthNeverOver'
  BY <1>kept
<1>counted. ASSUME card' = card, depth' = Cardinality(card)
            PROVE  DepthNeverOver'
  BY <1>counted, <1>count
<1>1. CASE UNCHANGED vars
  BY <1>1, <1>kept DEF vars
<1>2. CASE Housekeeping
  <2>1. CASE SampleCard \/ SeeInsertion
    BY <2>1, <1>kept DEF SampleCard, SeeInsertion
  <2>2. CASE SeeRemoval
    BY <2>2 DEF SeeRemoval
  <2>3. CASE Mount
    BY <2>3, <1>counted DEF Mount
  <2>5. CASE MountFails \/ MountWedges
    BY <2>5 DEF MountFails, MountWedges, MountDue
  <2>4. CASE StatsScan
    BY <2>4, <1>counted DEF StatsScan
  <2> QED BY <1>2, <2>1, <2>2, <2>3, <2>4, <2>5 DEF Housekeeping
<1>3. CASE \E f \in Frame : EnqueueStart(f)
  BY <1>3, <1>kept DEF EnqueueStart
<1>4. CASE MakeRoom
  <2>1. CASE RoomScanFails
    BY <2>1 DEF RoomScanFails
  <2>3. CASE RoomEnough \/ RoomRefused
    BY <2>3, <1>counted DEF RoomEnough, RoomRefused, RoomScanned
  <2>2. ASSUME NEW f \in card, RoomEvict(f) PROVE DepthNeverOver'
    BY <2>2, <1>removed DEF RoomEvict
  <2> QED BY <1>4, <2>1, <2>2, <2>3 DEF MakeRoom, EvictFull, EvictThumb
<1>5. CASE Store
  <2>1. CASE WriteBegin \/ WriteDone \/ RenameFails
    BY <2>1, <1>kept DEF WriteBegin, WriteDone, RenameFails
  <2>3. CASE WriteFails
    BY <2>3, <1>kept DEF WriteFails
  <2>2. CASE Rename
    <3>1. PICK e \in File : e \notin card /\ card' = card \cup {e}
      BY <2>2, RenameAdds
    <3>2. Cardinality(card') = Cardinality(card) + 1
      BY <3>1, FS_AddElement DEF TypeOK
    <3> QED BY <2>2, <3>2, <1>count DEF Rename, TypeOK
  <2> QED BY <1>5, <2>1, <2>2, <2>3 DEF Store
<1>6. CASE Drain
  <2>1. CASE DrainScanFails \/ DrainPick
    BY <2>1, <1>count DEF DrainScanFails, DrainPick
  <2>2. CASE DrainBad
    BY <2>2, <1>removed DEF DrainBad
  <2>3. CASE DrainRemove
    <3>1. CASE live
      <4>1. Cardinality(card) - 1 <= Cardinality(card')
        BY <2>3, <3>1, <1>removed DEF DrainRemove, WorkInv
      <4>2. Cardinality(card') \in Nat
        BY <2>3, TypeStep, CountNat DEF Next, Drain, TypeOK
      <4> QED BY <2>3, <3>1, <4>1, <4>2, <1>count
              DEF DrainRemove, OneLess, TypeOK
    <3>2. CASE ~ live
      BY <2>3, <3>2 DEF DrainRemove
    <3> QED BY <3>1, <3>2
  <2> QED BY <1>6, <2>1, <2>2, <2>3 DEF Drain
<1>7. CASE Post
  BY <1>7 DEF Post, PostOk, PostRetry, PostReject
<1>8. CASE World
  <2>1. CASE PullCard \/ InsertCard \/ CardHangs \/ Reboot
    BY <2>1 DEF PullCard, InsertCard, CardHangs, Reboot
  <2>2. CASE EntryRots
    <3>1. PICK f \in card :
            f.ok /\ card' = (card \ {f}) \cup {[f EXCEPT !.ok = FALSE]}
      BY <2>2 DEF EntryRots
    <3>2. [f EXCEPT !.ok = FALSE] \notin card \ {f}
      BY DEF NamesUnique, File, TypeOK
    <3>3. Cardinality(card') = Cardinality(card)
      <4>1. /\ IsFiniteSet(card \ {f})
            /\ Cardinality(card \ {f}) = Cardinality(card) - 1
        BY CountOne DEF TypeOK
      <4>2. Cardinality(card') = Cardinality(card \ {f}) + 1
        BY <3>1, <3>2, <4>1, FS_AddElement
      <4> QED BY <4>1, <4>2, <1>count
    <3> QED BY <2>2, <3>3 DEF EntryRots
  <2> QED BY <1>8, <2>1, <2>2 DEF World
<1> QED BY <1>1, <1>2, <1>3, <1>4, <1>5, <1>6, <1>7, <1>8 DEF Next

(* What a card brings along has unique names, and nothing is mounted yet.  *)
LEMMA InitRest == Init => NamesUnique /\ DepthNeverOver
BY CardsAssumption DEF Init, NamesUnique, DepthNeverOver

(* Two events of one second never share a file.                            *)
THEOREM NamesApart == Spec => []NamesUnique
<1>1. TypeOK /\ WorkInv /\ [Next]_vars => (TypeOK /\ WorkInv)'
  BY TypeStep, WorkStep
<1> QED BY <1>1, InitInv, InitRest, NamesStep, PTL DEF Spec

(* The drain gate is never open on an empty card: whatever a remount, an   *)
(* eviction, a failed remove or a pull left behind, depth does not exceed  *)
(* the entries that are there.                                             *)
THEOREM DepthSound == Spec => []DepthNeverOver
<1>1. TypeOK /\ WorkInv /\ [Next]_vars => (TypeOK /\ WorkInv)'
  BY TypeStep, WorkStep
<1> QED BY <1>1, InitInv, InitRest, NamesStep, DepthStep, PTL DEF Spec

-----------------------------------------------------------------------------
(* The refinement: every step of the queue is a step of the abstract store *)
(* with the card as its contents, or leaves the store alone.               *)
LEMMA StoreStep ==
    TypeOK /\ WorkInv /\ NamesUnique /\ [Next]_vars
        => [StoreView!StoreNext]_(StoreView!storeVars)
<1> SUFFICES ASSUME TypeOK, WorkInv, NamesUnique, [Next]_vars
             PROVE  [StoreView!StoreNext]_(StoreView!storeVars)
  OBVIOUS
<1> USE DEF cardVars, fateVars
<1>same. ASSUME UNCHANGED <<card, landed, rejected>>
         PROVE  [StoreView!StoreNext]_(StoreView!storeVars)
  BY <1>same DEF StoreView!storeVars
<1>frame. \A f \in card : FrameOf(f) \in StoreView!Frame
  BY DEF FrameOf, StoreView!Frame, File, TypeOK
<1>1. CASE UNCHANGED vars
  BY <1>1, <1>same DEF vars
<1>2. CASE Housekeeping
  BY <1>2, <1>same DEF Housekeeping, SampleCard, SeeInsertion, SeeRemoval,
                       Mount, MountFails, MountWedges, StatsScan
<1>3. CASE \E f \in Frame : EnqueueStart(f)
  BY <1>3, <1>same DEF EnqueueStart
<1>4. CASE MakeRoom
  <2>1. CASE RoomScanFails \/ RoomEnough \/ RoomRefused
    BY <2>1, <1>same DEF RoomScanFails, RoomEnough, RoomRefused
  <2>2. ASSUME NEW f \in card, RoomEvict(f),
               \/ IsOldest(f, FullsOn(card))
               \/ /\ FullsOn(card) = {} /\ ~ inc.full
                  /\ IsOldest(f, ThumbsOn(card))
        PROVE  [StoreView!StoreNext]_(StoreView!storeVars)
    <3>1. CASE card' = card
      BY <2>2, <3>1, <1>same DEF RoomEvict
    <3>2. CASE card' = card \ {f}
      <4>1. inc \in StoreView!Frame
        BY <2>2 DEF RoomEvict, WorkInv, Frame, StoreView!Frame
      <4>2. StoreView!Evict(f, inc)
        <5>1. \A o \in card : o.full = f.full => f.key <= o.key
          BY <2>2 DEF IsOldest, FullsOn, ThumbsOn, File, TypeOK
        <5>2. f.full \/ (~ inc.full /\ \A o \in card : ~ o.full)
          BY <2>2 DEF IsOldest, FullsOn
        <5> QED BY <2>2, <3>2, <5>1, <5>2 DEF RoomEvict, StoreView!Evict
      <4> QED BY <4>1, <4>2 DEF StoreView!StoreNext
    <3> QED BY <2>2, <3>1, <3>2 DEF RoomEvict, Removed, RemoveFailed
  <2>3. CASE EvictFull
    BY <2>2, <2>3 DEF EvictFull, IsOldest, FullsOn
  <2>4. CASE EvictThumb
    BY <2>2, <2>4 DEF EvictThumb, IsOldest, ThumbsOn
  <2> QED BY <1>4, <2>1, <2>3, <2>4 DEF MakeRoom
<1>5. CASE Store
  <2>1. CASE WriteBegin \/ WriteDone \/ WriteFails \/ RenameFails
    BY <2>1, <1>same DEF WriteBegin, WriteDone, WriteFails, RenameFails
  <2>2. CASE Rename
    <3>1. PICK e \in File :
            /\ e \notin card /\ card' = card \cup {e} /\ e.ok
            /\ \A o \in card : <<o.key, o.full>> # <<e.key, e.full>>
      BY <2>2, RenameAdds
    <3>2. StoreView!Accept(e)
      BY <2>2, <3>1 DEF Rename, StoreView!Accept
    <3> QED BY <3>1, <3>2 DEF StoreView!StoreNext
  <2> QED BY <1>5, <2>1, <2>2 DEF Store
<1>6. CASE Drain
  <2>1. CASE DrainScanFails \/ DrainPick
    BY <2>1, <1>same DEF DrainScanFails, DrainPick
  <2>2. CASE DrainBad
    <3>1. PICK f \in card : ~ f.ok /\ (Removed(f) \/ RemoveFailed)
      BY <2>2 DEF DrainBad
    <3>2. CASE Removed(f)
      <4>1. StoreView!Discard(f)
        BY <2>2, <3>1, <3>2 DEF DrainBad, Removed, StoreView!Discard
      <4> QED BY <4>1 DEF StoreView!StoreNext
    <3>3. CASE RemoveFailed
      BY <2>2, <3>3, <1>same DEF DrainBad, RemoveFailed
    <3> QED BY <3>1, <3>2, <3>3
  <2>3. CASE DrainRemove
    <3>1. CASE live /\ Removed(cur)
      <4>1. StoreView!Settle(cur)
        BY <2>3, <3>1
           DEF DrainRemove, Removed, WorkInv, FrameOf, StoreView!Settle,
               StoreView!FrameOf
      <4> QED BY <2>3, <4>1 DEF DrainRemove, WorkInv, StoreView!StoreNext
    <3>2. CASE ~ (live /\ Removed(cur))
      BY <2>3, <3>2, <1>same DEF DrainRemove, RemoveFailed
    <3> QED BY <3>1, <3>2
  <2> QED BY <1>6, <2>1, <2>2, <2>3 DEF Drain
<1>7. CASE Post
  <2>1. FrameOf(cur) \in StoreView!Frame
    BY <1>7, <1>frame DEF Post, PostOk, PostRetry, PostReject, WorkInv
  <2>2. CASE PostOk
    BY <2>1, <2>2 DEF PostOk, StoreView!Land, StoreView!StoreNext
  <2>3. CASE PostRetry
    <3>1. CASE landed' = landed
      BY <2>3, <3>1, <1>same DEF PostRetry
    <3>2. CASE landed' = landed \cup {FrameOf(cur)}
      BY <2>1, <2>3, <3>2 DEF PostRetry, StoreView!Land, StoreView!StoreNext
    <3> QED BY <2>3, <3>1, <3>2 DEF PostRetry
  <2>4. CASE PostReject
    BY <2>1, <2>4 DEF PostReject, StoreView!Reject, StoreView!StoreNext
  <2> QED BY <1>7, <2>2, <2>3, <2>4 DEF Post
<1>8. CASE World
  <2>1. CASE PullCard \/ InsertCard \/ CardHangs \/ Reboot
    BY <2>1, <1>same DEF PullCard, InsertCard, CardHangs, Reboot
  <2>2. CASE EntryRots
    <3>1. PICK f \in card :
            card' = (card \ {f}) \cup {[f EXCEPT !.ok = FALSE]}
      BY <2>2 DEF EntryRots
    <3>2. StoreView!Spoil(f)
      BY <2>2, <3>1 DEF EntryRots, StoreView!Spoil
    <3> QED BY <3>2 DEF StoreView!StoreNext
  <2> QED BY <1>8, <2>1, <2>2 DEF World
<1> QED BY <1>1, <1>2, <1>3, <1>4, <1>5, <1>6, <1>7, <1>8 DEF Next

(* The card keeps what it accepted: the queue implements FrameStore.       *)
THEOREM QueueIsStore == Spec => RefinesStore
<1>1. Init => StoreView!StoreInit
  BY CardsAssumption DEF Init, StoreView!StoreInit
<1>2. TypeOK /\ WorkInv /\ [Next]_vars => (TypeOK /\ WorkInv)'
  BY TypeStep, WorkStep
<1> QED BY <1>1, <1>2, InitInv, InitRest, NamesStep, StoreStep, PTL
        DEF Spec, RefinesStore, StoreView!StoreSpec

-----------------------------------------------------------------------------
(* The room an enqueue has made is still there when it renames, short only *)
(* by what was credited without having been removed.                       *)
RoomInv ==
    /\ pc \in {"room", "write"} => est <= free + phantom
    /\ pc = "write" => est >= SizeOf(inc.full) + MinFree
    /\ pc \in {"fill", "rename"} => free + phantom >= MinFree
    /\ pc \in {"write", "fill", "rename"} => Cardinality(card) + 1 <= MaxFiles

(* A rotten entry is an entry still, and not one more.                     *)
LEMMA RotCount ==
    ASSUME TypeOK, EntryRots
    PROVE  Cardinality(card') <= Cardinality(card)
<1>1. PICK f \in card : card' = (card \ {f}) \cup {[f EXCEPT !.ok = FALSE]}
  BY DEF EntryRots
<1> DEFINE r == [f EXCEPT !.ok = FALSE]
<1>2. /\ IsFiniteSet(card \ {f}) /\ Cardinality(card) \in Nat
      /\ Cardinality(card \ {f}) = Cardinality(card) - 1
  BY CountOne DEF TypeOK
<1>3. \/ Cardinality((card \ {f}) \cup {r}) = Cardinality(card \ {f})
      \/ Cardinality((card \ {f}) \cup {r}) = Cardinality(card \ {f}) + 1
  BY <1>2, FS_AddElement
<1> QED BY <1>1, <1>2, <1>3

(* The card gains an entry in a rename only, and then one.                 *)
LEMMA OnlyRenameAdds ==
    ASSUME TypeOK, WorkInv, [Next]_vars
    PROVE  /\ Cardinality(card) \in Nat /\ Cardinality(card') \in Nat
           /\ \/ Cardinality(card') <= Cardinality(card)
              \/ Rename /\ Cardinality(card') = Cardinality(card) + 1
<1> USE DEF cardVars
<1>count. Cardinality(card) \in Nat /\ Cardinality(card') \in Nat
  BY TypeStep, CountNat DEF TypeOK
<1>same. ASSUME UNCHANGED card PROVE Cardinality(card') <= Cardinality(card)
  BY <1>same, <1>count
<1>fewer. ASSUME NEW f \in card, Removed(f) \/ RemoveFailed
          PROVE  Cardinality(card') <= Cardinality(card)
  <2>1. card' = card \/ card' = card \ {f}
    BY <1>fewer, RemovedType
  <2> QED BY <2>1, <1>count, CountOne DEF TypeOK
<1>1. CASE UNCHANGED vars
  BY <1>1, <1>same, <1>count DEF vars
<1>2. CASE Housekeeping \/ (\E f \in Frame : EnqueueStart(f)) \/ Post
  BY <1>2, <1>same, <1>count
     DEF Housekeeping, SampleCard, SeeInsertion, SeeRemoval, Mount, MountFails,
         MountWedges, StatsScan, EnqueueStart, Post, PostOk, PostRetry, PostReject
<1>3. CASE MakeRoom
  <2>1. CASE RoomScanFails \/ RoomEnough \/ RoomRefused
    BY <2>1, <1>same, <1>count DEF RoomScanFails, RoomEnough, RoomRefused
  <2>2. CASE EvictFull \/ EvictThumb
    BY <2>2, <1>fewer, <1>count DEF EvictFull, EvictThumb, RoomEvict
  <2> QED BY <1>3, <2>1, <2>2 DEF MakeRoom
<1>4. CASE Store
  <2>1. CASE WriteBegin \/ WriteDone \/ WriteFails \/ RenameFails
    BY <2>1, <1>same, <1>count DEF WriteBegin, WriteDone, WriteFails, RenameFails
  <2>2. CASE Rename
    <3>1. PICK e \in File : e \notin card /\ card' = card \cup {e}
      BY <2>2, RenameAdds
    <3>2. Cardinality(card') = Cardinality(card) + 1
      BY <3>1, FS_AddElement DEF TypeOK
    <3> QED BY <2>2, <3>2, <1>count
  <2> QED BY <1>4, <2>1, <2>2 DEF Store
<1>5. CASE Drain
  <2>1. CASE DrainScanFails \/ DrainPick
    BY <2>1, <1>same, <1>count DEF DrainScanFails, DrainPick
  <2>2. CASE DrainBad
    BY <2>2, <1>fewer, <1>count DEF DrainBad
  <2>3. CASE DrainRemove
    BY <2>3, <1>fewer, <1>same, <1>count DEF DrainRemove, WorkInv
  <2> QED BY <1>5, <2>1, <2>2, <2>3 DEF Drain
<1>6. CASE World
  BY <1>6, <1>same, <1>count, RotCount
     DEF World, PullCard, InsertCard, CardHangs, Reboot
<1> QED BY <1>1, <1>2, <1>3, <1>4, <1>5, <1>6 DEF Next

(* Nothing a step of the enqueue or of the world does takes that room away.*)
LEMMA RoomStep ==
    ASSUME TypeOK, WorkInv, RoomInv, [Next]_vars
    PROVE  RoomInv'
<1> USE DEF cardVars, slotVars, ramVars, work, opVars, RoomInv
<1>nat. /\ MinFree \in Nat /\ MaxFiles \in Nat /\ SizeOf(inc.full) \in Nat
        /\ free \in Nat /\ est \in Nat /\ phantom \in Nat
  BY SizeNat, SdQueueAssumption DEF TypeOK
<1>idle. ASSUME pc' \in {"idle", "post", "remove"} PROVE RoomInv'
  BY <1>idle
<1>same. ASSUME UNCHANGED <<pc, work, free>> PROVE RoomInv'
  <2>1. ~ Rename
    BY <1>same DEF Rename, BackToIdle
  <2>2. Cardinality(card') <= Cardinality(card)
        /\ Cardinality(card) \in Nat /\ Cardinality(card') \in Nat
    BY <2>1, OnlyRenameAdds
  <2> QED BY <1>same, <1>nat, <2>2
<1>1. CASE UNCHANGED vars
  BY <1>1, <1>same DEF vars
<1>2. CASE Housekeeping
  BY <1>2, <1>idle DEF Housekeeping, SampleCard, SeeInsertion, SeeRemoval,
                       Mount, MountFails, MountWedges, MountDue, StatsScan, Idle
<1>3. CASE \E f \in Frame : EnqueueStart(f)
  BY <1>3, <1>nat DEF EnqueueStart
<1>4. CASE MakeRoom
  <2>1. CASE RoomScanFails \/ RoomRefused
    BY <2>1, <1>idle DEF RoomScanFails, RoomRefused, BackToIdle
  <2>2. CASE RoomEnough
    BY <2>2 DEF RoomEnough, RoomScanned, Fits
  <2>3. ASSUME NEW f \in card, RoomEvict(f) PROVE RoomInv'
    <3>1. SizeOf(f.full) \in Nat
      BY SizeNat
    <3>2. free' + phantom' = free + phantom + SizeOf(f.full)
      BY <2>3, <3>1, <1>nat DEF RoomEvict, Removed, RemoveFailed
    <3>3. est' = est \/ est' = est + SizeOf(f.full)
      BY <2>3 DEF RoomEvict
    <3>4. pc = "room" /\ pc' = "room"
      BY <2>3 DEF RoomEvict
    <3> QED BY <1>nat, <3>1, <3>2, <3>3, <3>4
  <2>4. CASE EvictFull \/ EvictThumb
    BY <2>3, <2>4 DEF EvictFull, EvictThumb
  <2> QED BY <1>4, <2>1, <2>2, <2>4 DEF MakeRoom
<1>5. CASE Store
  <2>1. CASE WriteBegin
    <3>1. FreeWithoutTmp \in Nat /\ FreeWithoutTmp >= free
      BY <1>nat, SizeNat DEF FreeWithoutTmp, TypeOK
    <3>2. free' + phantom' >= MinFree
      BY <2>1, <3>1, <1>nat DEF WriteBegin
    <3> QED BY <2>1, <3>2 DEF WriteBegin
  <2>2. CASE WriteDone
    BY <2>2 DEF WriteDone
  <2>3. CASE WriteFails \/ Rename \/ RenameFails
    BY <2>3, <1>idle DEF WriteFails, Rename, RenameFails, BackToIdle
  <2> QED BY <1>5, <2>1, <2>2, <2>3 DEF Store
<1>6. CASE Drain \/ Post
  BY <1>6, <1>idle DEF Drain, DrainScanFails, DrainPick, DrainBad, DrainRemove,
                       DrainGate, Idle, Post, PostOk, PostRetry, PostReject,
                       BackToIdle
<1>7. CASE World
  <2>1. CASE Reboot
    BY <2>1, <1>idle DEF Reboot, BackToIdle
  <2>2. CASE PullCard \/ InsertCard \/ CardHangs \/ EntryRots
    BY <2>2, <1>same DEF PullCard, InsertCard, CardHangs, EntryRots
  <2> QED BY <1>7, <2>1, <2>2 DEF World
<1> QED BY <1>1, <1>2, <1>3, <1>4, <1>5, <1>6, <1>7 DEF Next

(* The ceilings hold: an entry goes in only below the file limit and with  *)
(* MIN_FREE bytes left, but for bytes an eviction credited in vain.        *)
THEOREM CeilingsHold == Spec => RoomKept
<1>1. Init => TypeOK /\ WorkInv /\ RoomInv
  BY InitInv DEF Init, RoomInv
<1>2. TypeOK /\ WorkInv /\ RoomInv /\ [Next]_vars
        => (TypeOK /\ WorkInv /\ RoomInv)'
  BY TypeStep, WorkStep, RoomStep
<1>3. ASSUME TypeOK, WorkInv, RoomInv, [Next]_vars,
             Cardinality(card') > Cardinality(card)
      PROVE  Cardinality(card') <= MaxFiles /\ free' + phantom >= MinFree
  <2>1. Rename /\ Cardinality(card') = Cardinality(card) + 1
    BY <1>3, OnlyRenameAdds
  <2> QED BY <1>3, <2>1 DEF Rename, RoomInv
<1> QED BY <1>1, <1>2, <1>3, PTL DEF Spec, RoomKept

(* What enters is the frame just handed in, readable, whatever an earlier  *)
(* enqueue or a power loss left in TMP.TMP.                                *)
THEOREM EntriesAreWhole == Spec => EntersWhole
<1>1. TypeOK /\ WorkInv /\ [Next]_vars => (TypeOK /\ WorkInv)'
  BY TypeStep, WorkStep
<1>2. ASSUME TypeOK, WorkInv, [Next]_vars,
             Cardinality(card') > Cardinality(card), NEW f \in card' \ card
      PROVE  f.ok /\ FrameOf(f) = inc
  <2>1. Rename
    BY <1>2, OnlyRenameAdds
  <2>2. PICK k \in StartKeys(inc), n \in 0 .. KeyTries :
          card' = card \cup {[key |-> k + n, full |-> inc.full,
                              ev |-> tmp.frame.ev, ok |-> tmp.whole]}
    BY <2>1 DEF Rename
  <2>3. f = [key |-> k + n, full |-> inc.full, ev |-> tmp.frame.ev,
             ok |-> tmp.whole]
    BY <1>2, <2>2
  <2>4. tmp.frame = inc /\ tmp.whole /\ inc \in Frame
    BY <1>2, <2>1 DEF Rename, WorkInv
  <2>5. inc = [ev |-> inc.ev, full |-> inc.full]
    BY <2>4 DEF Frame
  <2> QED BY <2>3, <2>4, <2>5 DEF FrameOf
<1>3. TypeOK /\ WorkInv /\ [Next]_vars
        => (Cardinality(card') > Cardinality(card)
              => \A f \in card' \ card : f.ok /\ FrameOf(f) = inc)
  BY <1>2
<1> QED BY <1>1, <1>3, InitInv, PTL DEF Spec, EntersWhole
=============================================================================
