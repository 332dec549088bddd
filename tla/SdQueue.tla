------------------------------ MODULE SdQueue ------------------------------
(***************************************************************************)
(* The gateway's SD upload queue: gateway/src/sd_queue.inc and             *)
(* sd_queue_drain.inc, with the custody note queue_upload_owned() takes    *)
(* after a successful enqueue (gateway/src/main.cpp).                      *)
(*                                                                         *)
(* Everything here runs on the loop task, so an enqueue or a drain is not  *)
(* interleaved with another; it is cut into steps because the card can be  *)
(* pulled, fail, or the box lose power between any two of them.  The mount *)
(* runs on a task of its own in the code; here it is one step, which       *)
(* succeeds, fails, or wedges.                                             *)
(***************************************************************************)
EXTENDS Integers, FiniteSets

CONSTANTS
    Event,          \* capture events
    CapTime,        \* their capture second, 0 when the leaf had no clock
    NowKeys,        \* seconds the gateway's own clock may show
    KeyTries,       \* same-second names stepped over before giving up (64)
    MaxFiles,       \* GW_SDQ_MAX_FILES
    MinFree,        \* GW_SDQ_MIN_FREE
    ThumbSize,      \* bytes of a thumb with its header
    FullSize,       \* bytes of a full with its header
    FreeAtStart,    \* room on the card beside foreign data
    CardsAtStart,   \* entries a card may bring along from another box
    WriteStrikes,   \* consecutive failed writes that condemn the card (3)
    RemoveMayFail,  \* a remove on an answering card can fail as a fault
    MaxArrivals,    \* bound: frames handed to the queue
    MaxFaults,      \* bound: reboots, pulls, media and write errors
    None            \* no file, no frame

ASSUME SdQueueAssumption ==
    /\ CapTime \in [Event -> Nat]
    /\ NowKeys \subseteq Nat
    /\ KeyTries \in Nat \ {0}
    /\ MaxFiles \in Nat \ {0}
    /\ MinFree \in Nat /\ ThumbSize \in Nat \ {0} /\ FullSize \in Nat \ {0}
    /\ FreeAtStart \subseteq Nat
    /\ WriteStrikes \in Nat \ {0}
    /\ RemoveMayFail \in BOOLEAN
    /\ MaxArrivals \in Nat /\ MaxFaults \in Nat

Frame == [ev : Event, full : BOOLEAN]

(* A queue entry: /q/<key>.QT or .QF.  ok = FALSE once its header cannot   *)
(* be read back or its length no longer matches (sdq_read_header fails).   *)
File == [key : Nat, full : BOOLEAN, ev : Event, ok : BOOLEAN]

(* TMP.TMP, the assembly that the rename turns into an entry.              *)
Tmp == [frame : Frame, whole : BOOLEAN]

ASSUME CardsAssumption ==
    \A c \in CardsAtStart :
        /\ c \subseteq File /\ IsFiniteSet(c)
        /\ \A f, g \in c : f.key = g.key /\ f.full = g.full => f = g

ASSUME NoneAssumption == None \notin File \cup Frame \cup Tmp

VARIABLES
    card,       \* the entries in /q
    tmp,        \* what /q/TMP.TMP holds, whole or torn; None when absent
    free,       \* free bytes on the card
    present,    \* a card sits in the slot
    live,       \* the mounted file system can still reach it
    cdLast,     \* s_sdq_cd_last: the card-detect sample of the last pass
    mounted,    \* s_sdq.mounted
    stuck,      \* s_sdq_probe_stuck: no more mounts until a card is put in
    depth,      \* s_sdq.depth
    strikes,    \* s_sdq.consec_write_errors
    pc,         \* where the loop task stands in sdq_enqueue / sdq_drain_one
    inc,        \* the frame being enqueued
    est,        \* s_sdq.free_bytes while sdq_make_room runs
    cur,        \* the entry being drained
    have,       \* frames the "have?" ring claims custody of
    landed,     \* frames the server stored
    rejected,   \* frames the server refused for good
    orphaned,   \* history: frames of entries dropped unread, claim standing
    phantom,    \* history: bytes this enqueue thinks it freed, but did not
    stale,      \* history: the card refused the last remove of this TMP.TMP
    arrivals, faults

cardVars  == <<card, tmp, free, stale>>
slotVars  == <<present, live, cdLast>>
ramVars   == <<mounted, stuck, depth, strikes>>
work      == <<inc, est, cur, phantom>>
opVars    == <<pc, work>>
custody   == <<have, orphaned>>
fateVars  == <<landed, rejected>>
boundVars == <<arrivals, faults>>
vars == <<cardVars, slotVars, ramVars, opVars, custody, fateVars, boundVars>>

SizeOf(full) == IF full THEN FullSize ELSE ThumbSize
FrameOf(f) == [ev |-> f.ev, full |-> f.full]
HasName(c, key, full) == \E f \in c : f.key = key /\ f.full = full
OnCard == {FrameOf(f) : f \in card}

Init ==
    /\ card \in CardsAtStart /\ tmp = None /\ free \in FreeAtStart
    /\ present \in BOOLEAN /\ live = FALSE /\ cdLast = "unsampled"
    /\ mounted = FALSE /\ stuck = FALSE /\ depth = 0 /\ strikes = 0
    /\ pc = "idle" /\ inc = None /\ est = 0 /\ cur = None
    /\ have = {} /\ landed = {} /\ rejected = {}
    /\ orphaned = {} /\ phantom = 0 /\ stale = FALSE
    /\ arrivals = 0 /\ faults = 0

Idle == pc = "idle"

(* What every return of sdq_enqueue and sdq_drain_one leaves behind.       *)
BackToIdle ==
    pc' = "idle" /\ inc' = None /\ est' = 0 /\ cur' = None /\ phantom' = 0

Fault == faults < MaxFaults /\ faults' = faults + 1

(* SDQ_FS.remove of an entry on an answering card; nobody looks at its     *)
(* result.                                                                 *)
Removed(f) == /\ card' = card \ {f}
              /\ free' = free + SizeOf(f.full)
              /\ UNCHANGED faults
RemoveFailed == RemoveMayFail /\ Fault /\ UNCHANGED <<card, free>>

(* The room there is once TMP.TMP is gone or truncated.                    *)
FreeWithoutTmp == IF tmp = None THEN free ELSE free + SizeOf(tmp.frame.full)

(* A remove of TMP.TMP on a live card, and one that the card refuses: its  *)
(* result is not looked at either.                                         *)
TmpGone  == tmp' = None /\ free' = FreeWithoutTmp /\ stale' = FALSE
TmpStays ==
    RemoveMayFail /\ tmp # None /\ stale' = TRUE /\ UNCHANGED <<tmp, free>>

(* Mutant of Unnote: an entry goes without its claim being revoked.        *)
UnnoteForgotten(f) == UNCHANGED have

(* have_unnote: custody of the frame is disclaimed.                        *)
Unnote(f) == have' = have \ {FrameOf(f)}

-----------------------------------------------------------------------------
(* Housekeeping: sdq_cd_track, the mount, the 15 s statistics scan.        *)

(* First pass of a boot: only take the reference sample.                   *)
SampleCard ==
    /\ Idle /\ cdLast = "unsampled"
    /\ cdLast' = IF present THEN "in" ELSE "out"
    /\ UNCHANGED <<cardVars, present, live, ramVars, opVars, custody,
                   fateVars, boundVars>>

(* A fresh card has never been probed: it lifts the give-up latch.         *)
SeeInsertion ==
    /\ Idle /\ cdLast = "out" /\ present
    /\ cdLast' = "in"
    /\ stuck' = FALSE
    /\ UNCHANGED <<cardVars, present, live, mounted, depth, strikes, opVars,
                   custody, fateVars, boundVars>>

SeeRemoval ==
    /\ Idle /\ cdLast = "in" /\ ~ present
    /\ cdLast' = "out"
    /\ mounted' = FALSE
    /\ depth' = 0
    /\ UNCHANGED <<cardVars, present, live, stuck, strikes, opVars, custody,
                   fateVars, boundVars>>

MountDue == Idle /\ ~ mounted /\ present /\ cdLast = "in" /\ ~ stuck

(* sdq_mount_blocking: the torn assembly is purged, the entries counted.   *)
Mount ==
    /\ MountDue
    /\ \/ TmpGone /\ UNCHANGED faults
       \/ TmpStays /\ Fault
    /\ live' = TRUE
    /\ mounted' = TRUE
    /\ strikes' = 0
    /\ depth' = Cardinality(card)
    /\ UNCHANGED <<card, present, cdLast, stuck, opVars, custody, fateVars,
                   arrivals>>

(* The card does not mount or /q cannot be made; or, with the purge done,  *)
(* its first scan fails.  It is tried again in a minute.                   *)
MountFails ==
    /\ MountDue /\ Fault
    /\ live' = FALSE
    /\ \/ UNCHANGED <<cardVars, depth, strikes>>
       \/ (TmpGone \/ TmpStays) /\ card' = card /\ depth' = 0 /\ strikes' = 0
    /\ UNCHANGED <<present, cdLast, mounted, stuck, opVars, custody, fateVars,
                   arrivals>>

(* begin() never returns: after GW_SDQ_PROBE_TIMEOUT_MS its task is killed *)
(* and nothing is mounted again, whatever sits in the slot.                *)
MountWedges ==
    /\ MountDue /\ Fault
    /\ live' = FALSE
    /\ stuck' = TRUE
    /\ UNCHANGED <<cardVars, present, cdLast, mounted, depth, strikes, opVars,
                   custody, fateVars, arrivals>>

(* sdq_scan: recount /q, or find it unreadable and mark the card bad.      *)
StatsScan ==
    /\ Idle /\ mounted
    /\ depth' = IF live THEN Cardinality(card) ELSE 0
    /\ mounted' = live
    /\ UNCHANGED <<cardVars, slotVars, stuck, strikes, opVars, custody,
                   fateVars, boundVars>>

-----------------------------------------------------------------------------
(* sdq_enqueue.                                                            *)

(* Mutant of DiscardTmp: a failed enqueue leaves its assembly behind.      *)
TmpLeft == UNCHANGED <<tmp, free, stale, faults>>

(* A failed enqueue removes TMP.TMP, in vain if the card is gone, or       *)
(* refuses.                                                                *)
DiscardTmp ==
    \/ live /\ TmpGone /\ UNCHANGED faults
    \/ live /\ TmpStays /\ Fault
    \/ ~ live /\ UNCHANGED <<tmp, free, stale, faults>>

EnqueueStart(f) ==
    /\ Idle /\ mounted /\ arrivals < MaxArrivals
    /\ arrivals' = arrivals + 1
    /\ pc' = "room" /\ inc' = f /\ est' = free
    /\ UNCHANGED <<cardVars, slotVars, ramVars, cur, phantom, custody,
                   fateVars, faults>>

(* Mutant of Fits: fill the card to the rim.                               *)
FitsToTheRim == /\ Cardinality(card) + 1 <= MaxFiles
                /\ est >= SizeOf(inc.full)

Fits == /\ Cardinality(card) + 1 <= MaxFiles
        /\ est >= SizeOf(inc.full) + MinFree

IsOldest(f, S) == f \in S /\ \A g \in S : f.key <= g.key
FullsOn(c)  == {f \in c : f.full}
ThumbsOn(c) == {f \in c : ~ f.full}

(* Each turn of sdq_make_room's loop begins with a scan.                   *)
RoomScanned == pc = "room" /\ live /\ depth' = Cardinality(card)

RoomScanFails ==
    /\ pc = "room" /\ ~ live
    /\ depth' = 0 /\ mounted' = FALSE
    /\ BackToIdle
    /\ UNCHANGED <<cardVars, slotVars, stuck, strikes, custody, fateVars,
                   boundVars>>

RoomEnough ==
    /\ RoomScanned /\ Fits
    /\ pc' = "write"
    /\ UNCHANGED <<cardVars, slotVars, mounted, stuck, strikes, work, custody,
                   fateVars, boundVars>>

(* sdq_evict: the claim is revoked when the header can still be read, and  *)
(* the estimate is credited when the file could at least be opened.        *)
RoomEvict(f) ==
    /\ pc = "room" /\ live /\ ~ Fits
    /\ \/ Removed(f) /\ UNCHANGED phantom
       \/ RemoveFailed /\ phantom' = phantom + SizeOf(f.full)
    /\ depth' = Cardinality(card) - 1
    /\ IF f.ok
       THEN Unnote(f) /\ est' = est + SizeOf(f.full) /\ UNCHANGED orphaned
       ELSE /\ orphaned' = orphaned \cup {FrameOf(f)}
            /\ est' \in {est, est + SizeOf(f.full)}
            /\ UNCHANGED have
    /\ UNCHANGED <<tmp, stale, slotVars, mounted, stuck, strikes, pc, inc, cur,
                   fateVars, arrivals>>

EvictFull == \E f \in card : IsOldest(f, FullsOn(card)) /\ RoomEvict(f)

EvictThumb ==
    /\ pc = "room"
    /\ FullsOn(card) = {}
    /\ ~ inc.full
    /\ \E f \in card : IsOldest(f, ThumbsOn(card)) /\ RoomEvict(f)

(* Only thumbs left and the incoming frame is a full, or nothing left.     *)
RoomRefused ==
    /\ RoomScanned /\ ~ Fits
    /\ FullsOn(card) = {}
    /\ inc.full \/ card = {}
    /\ BackToIdle
    /\ UNCHANGED <<cardVars, slotVars, mounted, stuck, strikes, custody,
                   fateVars, boundVars>>

(* Mutant of WriteBegin: a leftover is not truncated, but filled up.       *)
WriteBeginOnTop ==
    /\ pc = "write" /\ live
    /\ FreeWithoutTmp >= SizeOf(inc.full)
    /\ tmp' = IF tmp = None THEN [frame |-> inc, whole |-> FALSE] ELSE tmp
    /\ free' = IF tmp = None THEN free - SizeOf(inc.full) ELSE free
    /\ stale' = FALSE
    /\ pc' = "fill"
    /\ UNCHANGED <<card, slotVars, ramVars, work, custody, fateVars,
                   boundVars>>

(* TMP.TMP is opened and being filled.  A leftover is removed first and,   *)
(* should the card refuse that, truncated by the open.                     *)
WriteBegin ==
    /\ pc = "write" /\ live
    /\ FreeWithoutTmp >= SizeOf(inc.full)
    /\ tmp' = [frame |-> inc, whole |-> FALSE]
    /\ free' = FreeWithoutTmp - SizeOf(inc.full)
    /\ stale' = FALSE
    /\ pc' = "fill"
    /\ UNCHANGED <<card, slotVars, ramVars, work, custody, fateVars,
                   boundVars>>

WriteDone ==
    /\ pc = "fill" /\ live
    /\ tmp' = [tmp EXCEPT !.whole = TRUE]
    /\ strikes' = 0
    /\ pc' = "rename"
    /\ UNCHANGED <<card, free, stale, slotVars, mounted, stuck, depth, work,
                   custody, fateVars, boundVars>>

(* The open, a write or the size check failed: on a dead card, for want of *)
(* space, or by a media fault.                                             *)
WriteFails ==
    /\ pc \in {"write", "fill"}
    /\ \/ ~ live /\ DiscardTmp
       \/ pc = "write" /\ FreeWithoutTmp < SizeOf(inc.full) /\ DiscardTmp
       \/ live /\ Fault /\ (TmpGone \/ TmpStays)
    /\ strikes' = strikes + 1
    /\ mounted' = (mounted /\ strikes + 1 < WriteStrikes)
    /\ BackToIdle
    /\ UNCHANGED <<card, slotVars, stuck, depth, custody, fateVars, arrivals>>

(* The key is the capture second, else the gateway's clock.                *)
StartKeys(f) == IF CapTime[f.ev] # 0 THEN {CapTime[f.ev]} ELSE NowKeys

(* The loop steps n past k: k up to k + KeyTries - 1 are tested, and after *)
(* KeyTries taken names it goes on with the next one untested.             *)
SteppedTo(n, k, full) ==
    /\ n \in 0 .. KeyTries
    /\ \A m \in 0 .. n - 1 : HasName(card, k + m, full)
    /\ n < KeyTries => ~ HasName(card, k + n, full)

(* The rename takes the entry in, unless a file of that name exists;       *)
(* queue_upload_owned then notes custody.                                  *)
Rename ==
    /\ pc = "rename" /\ live
    /\ \E k \in StartKeys(inc), n \in 0 .. KeyTries :
         /\ SteppedTo(n, k, inc.full)
         /\ ~ HasName(card, k + n, inc.full)
         /\ card' = card \cup {[key |-> k + n, full |-> inc.full,
                                ev |-> tmp.frame.ev, ok |-> tmp.whole]}
    /\ tmp' = None /\ stale' = FALSE
    /\ depth' = depth + 1
    /\ have' = have \cup {inc}
    /\ orphaned' = orphaned \ {inc}
    /\ BackToIdle
    /\ UNCHANGED <<free, slotVars, mounted, stuck, strikes, fateVars,
                   boundVars>>

(* The name is taken, the card is gone, or the rename fails on a live one. *)
RenameFails ==
    /\ pc = "rename"
    /\ \/ ~ live /\ DiscardTmp
       \/ /\ \E k \in StartKeys(inc), n \in 0 .. KeyTries :
                SteppedTo(n, k, inc.full) /\ HasName(card, k + n, inc.full)
          /\ DiscardTmp
       \/ live /\ Fault /\ (TmpGone \/ TmpStays)
    /\ BackToIdle
    /\ UNCHANGED <<card, slotVars, ramVars, custody, fateVars, arrivals>>

-----------------------------------------------------------------------------
(* sdq_drain_one, gated by loop() on s_sdq.mounted && s_sdq.depth.         *)

IsNewest(f) ==
    /\ f \in card
    /\ \A g \in card : g.key < f.key \/ (g.key = f.key /\ (g = f \/ ~ f.full))

DrainGate == Idle /\ mounted /\ depth > 0

DrainScanFails ==
    /\ DrainGate /\ ~ live
    /\ depth' = 0 /\ mounted' = FALSE
    /\ UNCHANGED <<cardVars, slotVars, stuck, strikes, opVars, custody,
                   fateVars, boundVars>>

DrainPick ==
    /\ DrainGate /\ live
    /\ \E f \in card : IsNewest(f) /\ f.ok /\ cur' = f
    /\ depth' = Cardinality(card)
    /\ pc' = "post"
    /\ UNCHANGED <<cardVars, slotVars, mounted, stuck, strikes, inc, est,
                   phantom, custody, fateVars, boundVars>>

(* Mutant of DrainBad: an unreadable entry is skipped, not dropped.        *)
DrainBadSkipped ==
    /\ DrainGate /\ live
    /\ \E f \in card : IsNewest(f) /\ ~ f.ok
    /\ UNCHANGED vars

(* Unreadable: dropped so that it cannot block the entries behind it.      *)
DrainBad ==
    /\ DrainGate /\ live
    /\ \E f \in card :
         /\ IsNewest(f) /\ ~ f.ok
         /\ Removed(f) \/ RemoveFailed
         /\ orphaned' = orphaned \cup {FrameOf(f)}
    /\ depth' = Cardinality(card) - 1
    /\ UNCHANGED <<tmp, stale, slotVars, mounted, stuck, strikes, opVars, have,
                   fateVars, arrivals>>

(* Mutant of PostRetry: an ambiguous answer deletes the entry.             *)
PostRetryDeletes ==
    /\ pc = "post"
    /\ landed' \in {landed, landed \cup {FrameOf(cur)}}
    /\ pc' = "remove"
    /\ UNCHANGED <<cardVars, slotVars, ramVars, work, custody, rejected,
                   boundVars>>

(* upload_body's three outcomes.  A retry is ambiguous: the server may     *)
(* have stored the frame although the answer was lost.                     *)
PostOk ==
    /\ pc = "post"
    /\ landed' = landed \cup {FrameOf(cur)}
    /\ pc' = "remove"
    /\ UNCHANGED <<cardVars, slotVars, ramVars, work, custody, rejected,
                   boundVars>>

PostRetry ==
    /\ pc = "post"
    /\ landed' \in {landed, landed \cup {FrameOf(cur)}}
    /\ BackToIdle
    /\ UNCHANGED <<cardVars, slotVars, ramVars, custody, rejected,
                   boundVars>>

PostReject ==
    /\ pc = "post"
    /\ rejected' = rejected \cup {FrameOf(cur)}
    /\ Unnote(cur)
    /\ pc' = "remove"
    /\ UNCHANGED <<cardVars, slotVars, ramVars, work, landed, orphaned,
                   boundVars>>

(* Mutant of OneLess: the entry is gone and still counted.                 *)
OneLessForgotten == depth

OneLess == IF depth > 0 THEN depth - 1 ELSE 0

(* The remove silently does nothing when the card has gone meanwhile.      *)
DrainRemove ==
    /\ pc = "remove"
    /\ IF live THEN Removed(cur) \/ RemoveFailed
               ELSE UNCHANGED <<card, free, faults>>
    /\ depth' = OneLess
    /\ BackToIdle
    /\ UNCHANGED <<tmp, stale, slotVars, mounted, stuck, strikes, custody,
                   fateVars, arrivals>>

-----------------------------------------------------------------------------
(* The world.                                                              *)

(* The card is taken out, with or without the loop noticing the edge.      *)
PullCard ==
    /\ Fault /\ present
    /\ present' = FALSE /\ live' = FALSE
    /\ UNCHANGED <<cardVars, cdLast, ramVars, opVars, custody, fateVars,
                   arrivals>>

InsertCard ==
    /\ ~ present
    /\ present' = TRUE
    /\ UNCHANGED <<cardVars, live, cdLast, ramVars, opVars, custody,
                   fateVars, boundVars>>

(* The file system stops answering until it is mounted again.              *)
CardHangs ==
    /\ Fault /\ live
    /\ live' = FALSE
    /\ UNCHANGED <<cardVars, present, cdLast, ramVars, opVars, custody,
                   fateVars, arrivals>>

(* A medium error in one entry that is not open just then.                 *)
EntryRots ==
    /\ Fault
    /\ \E f \in card : /\ f.ok /\ f # cur
                       /\ card' = (card \ {f}) \cup {[f EXCEPT !.ok = FALSE]}
    /\ UNCHANGED <<tmp, free, stale, slotVars, ramVars, opVars, custody,
                   fateVars, arrivals>>

(* Power loss or reset at any point: the card survives, RAM does not.      *)
Reboot ==
    /\ Fault
    /\ live' = FALSE /\ cdLast' = "unsampled"
    /\ mounted' = FALSE /\ stuck' = FALSE /\ depth' = 0 /\ strikes' = 0
    /\ have' = {} /\ orphaned' = {}
    /\ BackToIdle
    /\ UNCHANGED <<cardVars, present, fateVars, arrivals>>

-----------------------------------------------------------------------------
Housekeeping ==
    \/ SampleCard \/ SeeInsertion \/ SeeRemoval
    \/ Mount \/ MountFails \/ MountWedges
    \/ StatsScan

MakeRoom ==
    RoomScanFails \/ RoomEnough \/ EvictFull \/ EvictThumb \/ RoomRefused

Store == WriteBegin \/ WriteDone \/ WriteFails \/ Rename \/ RenameFails

Drain == DrainScanFails \/ DrainPick \/ DrainBad \/ DrainRemove

Post == PostOk \/ PostRetry \/ PostReject

World == PullCard \/ InsertCard \/ CardHangs \/ EntryRots \/ Reboot

Next ==
    \/ Housekeeping
    \/ \E f \in Frame : EnqueueStart(f)
    \/ MakeRoom
    \/ Store
    \/ Drain
    \/ Post
    \/ World

Spec == Init /\ [][Next]_vars

(* loop() runs for ever and calls sdq_loop() and sdq_drain_one() on every  *)
(* radio-quiet pass; an upload outage ends, so a frame that is posted      *)
(* again and again is answered one day.  Arrivals and faults owe nothing.  *)
Fairness ==
    /\ WF_vars(SampleCard) /\ WF_vars(SeeInsertion) /\ WF_vars(SeeRemoval)
    /\ WF_vars(Mount)
    /\ WF_vars(StatsScan)
    /\ WF_vars(MakeRoom) /\ WF_vars(Store) /\ WF_vars(Drain) /\ WF_vars(Post)
    /\ SF_vars(PostOk \/ PostReject)

FairSpec == Spec /\ Fairness

-----------------------------------------------------------------------------
(* Properties.                                                             *)

(* Every variable has its type.                                            *)
TypeOK ==
    /\ card \subseteq File /\ IsFiniteSet(card)
    /\ tmp \in Tmp \cup {None}
    /\ free \in Nat /\ est \in Nat /\ phantom \in Nat
    /\ present \in BOOLEAN /\ live \in BOOLEAN
    /\ cdLast \in {"unsampled", "in", "out"}
    /\ stale \in BOOLEAN
    /\ mounted \in BOOLEAN /\ stuck \in BOOLEAN
    /\ depth \in Nat /\ strikes \in Nat
    /\ pc \in {"idle", "room", "write", "fill", "rename", "post", "remove"}
    /\ inc \in Frame \cup {None}
    /\ cur \in File \cup {None}
    /\ have \subseteq Frame /\ orphaned \subseteq Frame
    /\ landed \subseteq Frame /\ rejected \subseteq Frame
    /\ arrivals \in 0 .. MaxArrivals /\ faults \in 0 .. MaxFaults

(* Custody is never claimed in vain: a frame the gateway answers "have" for *)
(* is on the card, or the server has it, or it was in an entry that had     *)
(* become unreadable and was dropped with nothing left to name it by.       *)
(* Across evictions, rejects, remounts and reboots (sd_queue.inc:166-168).  *)
HaveHonest == have \subseteq OnCard \cup landed \cup orphaned

(* Between operations a card that answers carries no assembly, torn or     *)
(* whole, unless it refused to remove it (sd_queue.inc:284, 319, 399):     *)
(* nothing else that fails, and no power loss, leaves one behind.          *)
NoTornAssembly ==
    live /\ pc \notin {"fill", "rename"} => tmp = None \/ stale

(* What enters the queue is readable and is the frame just handed in, kind *)
(* and all: never a leftover of an earlier enqueue that could not be       *)
(* removed, whatever was cut short before (sd_queue.inc:238, 274).         *)
EntersWhole ==
    [][ Cardinality(card') > Cardinality(card)
          => \A f \in card' \ card : f.ok /\ FrameOf(f) = inc ]_vars

(* loop() drains when depth is not zero: depth never counts an entry that   *)
(* is not there.  It may be short by one whose remove failed, until the     *)
(* next scan.                                                               *)
DepthNeverOver == mounted /\ live => depth <= Cardinality(card)

(* An entry goes in only under the file ceiling, and with MIN_FREE bytes    *)
(* still free afterwards: short only by what sdq_evict credited to the      *)
(* estimate without having removed it (GW_SDQ_MAX_FILES, GW_SDQ_MIN_FREE).  *)
RoomKept ==
    [][ Cardinality(card') > Cardinality(card)
          => Cardinality(card') <= MaxFiles /\ free' + phantom >= MinFree ]_vars

(* What the steps of an operation rely on: the frame at hand is the one in  *)
(* TMP.TMP, and the entry being drained stays on the card until it is       *)
(* settled with the server.                                                 *)
WorkInv ==
    /\ pc \in {"room", "write", "fill", "rename"} => inc \in Frame
    /\ pc \in {"fill", "rename"} => tmp \in Tmp /\ tmp.frame = inc
    /\ pc = "rename" => tmp.whole
    /\ pc \in {"post", "remove"} => cur \in card
    /\ pc = "remove" => \/ FrameOf(cur) \in landed
                       \/ FrameOf(cur) \in rejected \ have

(* One file per name: the key steps past every name that is taken.          *)
NamesUnique ==
    \A f, g \in card : f.key = g.key /\ f.full = g.full => f = g

StoreView == INSTANCE FrameStore WITH store <- card

(* The queue is a FrameStore: accepted frames stay until settled, evicted   *)
(* in the documented order, or spoiled.                                     *)
RefinesStore == StoreView!StoreSpec

(* Once the card stays in the slot and faults have ended, the backlog       *)
(* drains to nothing: no torn entry blocks it, no miscounted depth hides    *)
(* it, no dead mount is kept and a failed one is tried again.  A probe that *)
(* wedged is the exception the code makes (sd_queue.inc:547-563, 581): a    *)
(* reboot or a card put in must come first.                                 *)
BacklogDrains == <>[]present => <>[](card = {} \/ stuck)

=============================================================================
