------------------------------ MODULE LeafWake -----------------------------
(***************************************************************************)
(* One leaf from wake to wake (leaf/src/main.cpp, leaf_store.cpp): the     *)
(* brownout nap and the battery lock-out that gate a boot, the capture     *)
(* whose original goes to the card or, without one, to a ring in flash,    *)
(* and the command window in which originals are asked for again, the      *)
(* clock is set and a card is formatted.  Power may fail, and cards be     *)
(* pulled and exchanged, between any two steps.  The radio is in           *)
(* CmdDownlink and Adr.                                                    *)
(***************************************************************************)
EXTENDS Integers, FiniteSets

CONSTANTS
    Card, Nothing, Flash,
    Cap,            \* LEAF_STORE_MAX_FULL
    KeepPir,        \* LEAF_LOCKOUT_KEEP_PIR: the PIR stays armed in lock-out
    MaxShots,       \* bound: captures
    MaxFaults       \* bound: resets, cards moved, operations that fail

ASSUME LeafAssumption ==
    /\ Nothing \notin Card /\ Flash \notin Card /\ Flash # Nothing
    /\ Cap \in Nat \ {0} /\ KeepPir \in BOOLEAN /\ MaxShots \in Nat /\ MaxFaults \in Nat

VARIABLES
    slot, fs,   \* external: the card in the slot; per card fat, raw (no filesystem), bad
    files,      \* /tcfull2 on each card, and in flash
    vb,         \* external: the cell as read: flat (below LOCKOUT), mid, or full
                \* (from RESUME, or off the scale: a blind sense is not believed)
    low,        \* g_lowbatt, in RTC memory
    late,       \* how many shots the clock is behind
    ext0,       \* the PIR is armed
    rails,      \* the switched rails that are up
    pc, cause,  \* where setup() is, and what woke it
    brown,      \* esp_reset_reason() says brownout
    backend,    \* s_fs: Nothing, Flash, or the card that was mounted
    seen,       \* s_state
    shots,      \* captures so far
    reported,   \* history: shots whose save came back false
    torn,       \* history: shots of which less than the original was served
    erased,     \* history: readable cards formatted; put in after the gate?
    entered,    \* history: cards put in while a format is under way
    due,        \* history: "nap" after a brownout, "charge" after a lock-out
    forgotten,  \* history: of what is due, what a later reset wiped out
    faults

world   == <<slot, fs, files, vb>>
rtc     == <<low, late, ext0>>
boot    == <<rails, pc, cause, brown, backend, seen>>
debts   == <<due, forgotten>>
leafHistory == <<reported, torn, erased, entered, debts>>
leafVars    == <<world, rtc, boot, shots, leafHistory, faults>>

Medium == Card \cup {Flash}

(* ev: the shot; late: how far behind the clock was, hence the file's time.*)
File == [ev : 1 .. MaxShots, late : 0 .. MaxShots, size : {"whole", "short", "zero"}]

LeafInit ==
    /\ slot \in Card \cup {Nothing} /\ fs \in [Card -> {"fat", "raw", "bad"}]
    /\ files = [d \in Medium |-> {}]
    /\ vb \in {"flat", "mid", "full"}
    /\ low = FALSE /\ late = 0 /\ ext0 = FALSE
    /\ pc = "boot" /\ cause = "cold" /\ brown = FALSE
    /\ rails = {} /\ backend = Nothing /\ seen = "unset"
    /\ shots = 0
    /\ reported = {} /\ torn = {} /\ erased = {} /\ entered = {}
    /\ due = {} /\ forgotten = {}
    /\ faults = 0

Fault == faults < MaxFaults /\ faults' = faults + 1

---------------------------------------------------------------------------
(* The world.                                                              *)

(* A person at the card slot.                                              *)
CardMoves(c) ==
    /\ c # slot /\ Fault /\ slot' = c
    /\ entered' = entered \cup {k \in Card : pc = "format" /\ k = c}
    /\ UNCHANGED <<fs, files, vb, rtc, boot, shots, reported, torn, erased, debts>>

(* The cell is read once per wake, so it may as well move while asleep.    *)
CellMoves(v) ==
    /\ pc = "asleep" /\ v # vb /\ vb' = v
    /\ IF v = "full"
       THEN due' = due \ {"charge"} /\ forgotten' = forgotten \ {"charge"}
       ELSE UNCHANGED debts
    /\ UNCHANGED <<slot, fs, files, rtc, boot, shots>>
    /\ UNCHANGED <<reported, torn, erased, entered, faults>>

(* Power lost, a brownout or a panic: RTC memory is new, with it the       *)
(* lock-out, and so is the clock unless the RTC kept it.  Only the reason  *)
(* of this reset is known afterwards.                                      *)
Reset(b) ==
    /\ Fault
    /\ pc' = "boot" /\ cause' = "cold" /\ brown' = b /\ rails' = {}
    /\ due' = (IF b THEN due \cup {"nap"} ELSE due)
    /\ forgotten' = (IF b THEN due \ {"nap"} ELSE due)
    /\ low' = FALSE /\ ext0' = FALSE
    /\ late' \in (IF b THEN {shots} ELSE {late, shots})
    /\ backend' = Nothing /\ seen' = "unset"
    /\ entered' = {}
    /\ UNCHANGED <<world, shots, reported, torn, erased>>

---------------------------------------------------------------------------
(* The gates of a boot.                                                    *)

(* Deep sleep: all rails off, and what is in RAM is gone.                  *)
DeepSleep(armed) ==
    /\ pc' = "asleep" /\ ext0' = armed /\ rails' = {}
    /\ cause' = "none" /\ backend' = Nothing /\ seen' = "unset"

(* Mutant of WakeUp: the reason of the reset before the last is read.      *)
WakeKeepsReason(c) ==
    /\ pc = "asleep" /\ (c = "pir" => ext0)
    /\ pc' = "boot" /\ cause' = c /\ UNCHANGED brown
    /\ rails' = {r \in {"cam"} : c = "pir"}
    /\ backend' = Nothing /\ seen' = "unset"
    /\ UNCHANGED <<world, rtc, shots, leafHistory, faults>>

(* A wake by the PIR raises the camera's rail at once, before any gate.    *)
WakeUp(c) ==
    /\ pc = "asleep" /\ (c = "pir" => ext0)
    /\ pc' = "boot" /\ cause' = c /\ brown' = FALSE
    /\ rails' = {r \in {"cam"} : c = "pir"}
    /\ backend' = Nothing /\ seen' = "unset"
    /\ UNCHANGED <<world, rtc, shots, leafHistory, faults>>

(* brownout_backoff_sleep, before any rail is touched; the timer only.     *)
Nap ==
    /\ pc = "boot" /\ brown
    /\ DeepSleep(FALSE)
    /\ due' = due \ {"nap"} /\ forgotten' = forgotten \ {"nap"}
    /\ UNCHANGED <<world, low, late, brown, shots>>
    /\ UNCHANGED <<reported, torn, erased, entered, faults>>

(* Mutant of Resumes: no hysteresis.                                       *)
ResumesEarly == vb # "flat"

(* Charged past RESUME, or a sense that cannot be right.                   *)
Resumes == vb = "full"

(* The over-discharge gate: charged enough, or not low to begin with.      *)
GatePasses ==
    /\ pc = "boot" /\ ~ brown
    /\ IF low THEN Resumes ELSE vb # "flat"
    /\ pc' = "work" /\ low' = FALSE
    /\ UNCHANGED <<world, ext0, late, rails, cause, brown, backend, seen>>
    /\ UNCHANGED <<shots, leafHistory, faults>>

(* Still low: back down, by way of the walk-up window if the PIR woke it   *)
(* and the last window is long enough ago.                                 *)
GateHolds ==
    /\ pc = "boot" /\ ~ brown /\ low /\ ~ Resumes
    /\ \/ DeepSleep(KeepPir)
       \/ /\ cause = "pir" /\ pc' = "walkup" /\ rails' = {}
          /\ UNCHANGED <<ext0, cause, backend, seen>>
    /\ UNCHANGED <<world, low, late, brown, shots, leafHistory, faults>>

(* lockout_walkup_window: Bluetooth alone, until it ends.                  *)
WalkUpEnds ==
    /\ pc = "walkup" /\ DeepSleep(KeepPir)
    /\ UNCHANGED <<world, low, late, brown, shots, leafHistory, faults>>

(* Found flat: the radio for one last announce,                            *)
GateCloses ==
    /\ pc = "boot" /\ ~ brown /\ ~ low /\ vb = "flat"
    /\ low' = TRUE /\ pc' = "gasp" /\ rails' = rails \cup {"radio"}
    /\ UNCHANGED <<world, ext0, late, cause, brown, backend, seen>>
    /\ UNCHANGED <<shots, leafHistory, faults>>

(* and lowbatt_sleep.                                                      *)
Gasp ==
    /\ pc = "gasp" /\ DeepSleep(KeepPir)
    /\ due' = due \cup {"charge"} /\ forgotten' = forgotten \ {"charge"}
    /\ UNCHANGED <<world, low, late, brown, shots>>
    /\ UNCHANGED <<reported, torn, erased, entered, faults>>

---------------------------------------------------------------------------
(* The store.                                                              *)

(* LittleFS.begin, which formats a flash it cannot mount, or fails.        *)
FlashBegins ==
    \/ backend' = Flash /\ UNCHANGED <<files, faults>>
    \/ backend' = Flash /\ Fault /\ files' = [files EXCEPT ![Flash] = {}]
    \/ backend' = Nothing /\ Fault /\ UNCHANGED files

(* leaf_store_begin: until it has a backend the card is tried, then flash. *)
Mounted ==
    IF backend # Nothing THEN UNCHANGED <<backend, seen, files, faults>>
    ELSE IF slot # Nothing /\ fs[slot] = "fat"
         THEN backend' = slot /\ seen' = "sd" /\ UNCHANGED <<files, faults>>
         ELSE FlashBegins /\ seen' = IF slot = Nothing THEN "none" ELSE "unmountable"

(* A card that was mounted and is gone, or was exchanged, does not answer; *)
(* the driver may find its way into the new one when it next opens a file. *)
Answers(d) == d = Flash \/ d = slot

Remounts ==
    /\ pc \in {"evict", "window"} /\ backend \in Card
    /\ slot \notin {Nothing, backend} /\ fs[slot] = "fat"
    /\ backend' = slot
    /\ UNCHANGED <<world, rtc, rails, pc, cause, brown, seen>>
    /\ UNCHANGED <<shots, leafHistory, faults>>

(* Cold boot and check-in: an announce; the first also lists the store.    *)
Announce ==
    /\ pc = "work" /\ cause # "pir" /\ pc' = "window"
    /\ rails' = rails \cup {"radio"} /\ cause' = "none"
    /\ IF cause = "cold" THEN Mounted ELSE UNCHANGED <<backend, seen, files, faults>>
    /\ UNCHANGED <<slot, fs, vb, rtc, brown, shots, leafHistory>>

(* on_pir_event, on a PIR wake or, while somebody is served, on an edge of *)
(* the PIR: thumb and original back to back, then the alert.  Either may   *)
(* fail to be grabbed, and the detector may dismiss the shot.              *)
Capture ==
    /\ pc = "window" \/ (pc = "work" /\ cause = "pir")
    /\ rails' = {"cam", "radio"} /\ cause' = "none"
    /\ \/ pc' = "window" /\ shots' \in {shots, shots + 1}
       \/ pc' = "save" /\ shots' = shots + 1
    /\ shots' <= MaxShots
    /\ UNCHANGED <<world, rtc, brown, backend, seen, leafHistory, faults>>

SaveBegins ==
    /\ pc = "save" /\ Mounted
    /\ IF backend' = Nothing
       THEN pc' = "window" /\ reported' = reported \cup {shots}
       ELSE pc' = "evict" /\ UNCHANGED reported
    /\ UNCHANGED <<slot, fs, vb, rtc, rails, cause, brown, shots>>
    /\ UNCHANGED <<torn, erased, entered, debts>>

Full == backend = Flash /\ Cardinality(files[Flash]) >= Cap

(* Mutant of Oldest: the last one the directory lists.                     *)
OldestListed(f) == f \in files[Flash]

(* By the time of last write; the directory's order among equals.          *)
Oldest(f) ==
    /\ f \in files[Flash]
    /\ \A g \in files[Flash] : f.ev - f.late <= g.ev - g.late

(* evict_for_space goes round until there is room.                         *)
Evict(f) ==
    /\ pc = "evict" /\ Full /\ Oldest(f)
    /\ \/ files' = [files EXCEPT ![Flash] = @ \ {f}] /\ UNCHANGED faults
       \/ UNCHANGED files /\ Fault
    /\ UNCHANGED <<slot, fs, vb, rtc, boot, shots, leafHistory>>

Shot(size) == [ev |-> shots, late |-> late, size |-> size]

(* The file is opened, which leaves an entry of no bytes: once there is    *)
(* room, or when the directory does not open and nobody counts.            *)
OpenFile ==
    /\ pc = "evict" /\ Answers(backend)
    /\ IF Full THEN Fault ELSE UNCHANGED faults
    /\ pc' = "write" /\ files' = [files EXCEPT ![backend] = @ \cup {Shot("zero")}]
    /\ UNCHANGED <<slot, fs, vb, rtc, rails, cause, brown, backend, seen>>
    /\ UNCHANGED <<shots, leafHistory>>

OpenFails ==
    /\ pc = "evict" /\ ~ Full
    /\ IF Answers(backend) THEN Fault ELSE UNCHANGED faults
    /\ pc' = "window" /\ reported' = reported \cup {shots}
    /\ UNCHANGED <<world, rtc, rails, cause, brown, backend, seen, shots>>
    /\ UNCHANGED <<torn, erased, entered, debts>>

Rewrite(S) == files' = [files EXCEPT ![backend] = (@ \ {Shot("zero")}) \cup S]

(* Mutant of Write: a quiet write is trusted.                              *)
WriteTrusting ==
    /\ pc = "write" /\ pc' = "window"
    /\ \/ Answers(backend) /\ Rewrite({Shot("whole")}) /\ UNCHANGED <<reported, faults>>
       \/ /\ Answers(backend) /\ Fault /\ UNCHANGED reported
          /\ \E size \in {"short", "zero"} : Rewrite({Shot(size)})
    /\ UNCHANGED <<slot, fs, vb, rtc, rails, cause, brown, backend, seen, shots>>
    /\ UNCHANGED <<torn, erased, entered, debts>>

(* Written and verified; a short write, removed if it can be; or a write   *)
(* that claimed more than a second look finds, and stays.                  *)
Write ==
    /\ pc = "write" /\ pc' = "window"
    /\ \/ Answers(backend) /\ Rewrite({Shot("whole")}) /\ UNCHANGED <<reported, faults>>
       \/ /\ Answers(backend) /\ Fault /\ reported' = reported \cup {shots}
          /\ \/ Rewrite({})
             \/ \E size \in {"short", "zero"} : Rewrite({Shot(size)})
       \/ /\ ~ Answers(backend) /\ reported' = reported \cup {shots}
          /\ UNCHANGED <<files, faults>>
    /\ UNCHANGED <<slot, fs, vb, rtc, rails, cause, brown, backend, seen, shots>>
    /\ UNCHANGED <<torn, erased, entered, debts>>

---------------------------------------------------------------------------
(* The command window, and a maintenance window after it.                  *)

(* fetch_full: leaf_store_load; an empty file cannot be loaded.            *)
FetchFull(e) ==
    /\ pc = "window" /\ Mounted
    /\ torn' = torn \cup {k \in {e} : backend' # Nothing /\ Answers(backend')
                                  /\ \E f \in files'[backend'] :
                                        f.ev = e /\ f.size = "short"}
    /\ UNCHANGED <<slot, fs, vb, rtc, rails, pc, cause, brown, shots>>
    /\ UNCHANGED <<reported, erased, entered, debts>>

TimeSync ==
    /\ pc = "window" /\ late' = 0
    /\ UNCHANGED <<world, low, ext0, boot, shots, leafHistory, faults>>

(* Mutant of Unreadable: what the boot found is trusted.                   *)
UnreadableAtBoot == seen = "unmountable"

(* The gate of a format: the card answers, and has no filesystem now.      *)
Unreadable == fs[slot] = "raw"

(* format_card, confirmed: the gate.  A refusal changes nothing.           *)
FormatGate ==
    /\ pc = "window" /\ backend \notin Card /\ slot # Nothing
    /\ Unreadable
    /\ pc' = "format"
    /\ UNCHANGED <<world, rtc, rails, cause, brown, backend, seen>>
    /\ UNCHANGED <<shots, leafHistory, faults>>

(* f_mkfs, minutes of it on the card that is in the slot by then, and the  *)
(* mount that proves it: the store moves to the card.  Cut short, or not   *)
(* mounting, the card is left with no filesystem.                          *)
Mkfs ==
    /\ pc = "format" /\ pc' = "window"
    /\ slot # Nothing /\ fs[slot] # "bad" /\ entered' = {}
    /\ files' = [files EXCEPT ![slot] = {}]
    /\ erased' = erased \cup {<<c, c \in entered>> : c \in {k \in {slot} : fs[k] = "fat"}}
    /\ \/ /\ fs' = [fs EXCEPT ![slot] = "fat"] /\ backend' = slot /\ seen' = "sd"
          /\ UNCHANGED faults
       \/ fs' = [fs EXCEPT ![slot] = "raw"] /\ Fault /\ UNCHANGED <<backend, seen>>
    /\ UNCHANGED <<slot, vb, rtc, rails, cause, brown, shots>>
    /\ UNCHANGED <<reported, torn, debts>>

(* No card, a bad one, or one the driver does not find its way into.       *)
MkfsFails ==
    /\ pc = "format" /\ pc' = "window" /\ entered' = {}
    /\ slot \in Card \ entered => fs[slot] = "bad"
    /\ UNCHANGED <<world, rtc, rails, cause, brown, backend, seen, shots>>
    /\ UNCHANGED <<reported, torn, erased, debts, faults>>

(* arm_and_sleep: PIR and timer.                                           *)
Sleep ==
    /\ pc = "window" /\ DeepSleep(TRUE)
    /\ UNCHANGED <<world, low, late, brown, shots, leafHistory, faults>>

---------------------------------------------------------------------------
Setup ==
    \/ Nap \/ GatePasses \/ GateHolds \/ WalkUpEnds \/ GateCloses \/ Gasp
    \/ Announce \/ SaveBegins \/ OpenFile \/ OpenFails \/ Write
    \/ Mkfs \/ MkfsFails \/ Sleep
    \/ (pc = "work" /\ Capture)
    \/ \E f \in files[Flash] : Evict(f)

LeafNext ==
    \/ Setup
    \/ \E c \in {"pir", "timer"} : WakeUp(c)
    \/ Capture \/ TimeSync \/ FormatGate \/ Remounts
    \/ \E e \in 1 .. MaxShots : FetchFull(e)
    \/ \E c \in Card \cup {Nothing} : CardMoves(c)
    \/ \E v \in {"flat", "mid", "full"} : CellMoves(v)
    \/ \E b \in BOOLEAN : Reset(b)

LeafSpec == LeafInit /\ [][LeafNext]_leafVars

(* setup() runs on, and the timer wakes what sleeps.                       *)
LeafFairSpec == LeafSpec /\ WF_leafVars(Setup) /\ WF_leafVars(WakeUp("timer"))

---------------------------------------------------------------------------
(* Properties.                                                             *)

(* "A ring of the newest": what is evicted is older than all that is kept, *)
(* unless the clock lost time between the two (evict_for_space; the seed   *)
(* of setup() after a power loss).                                         *)
NewestKept ==
    [][pc = "evict" =>
         \A f \in files[Flash] \ files'[Flash], g \in files[Flash] \cap files'[Flash] :
            f.ev < g.ev \/ f.late > g.late]_leafVars

(* What answers a fetch_full is the whole original, whatever was cut off,  *)
(* pulled or lied about while it was written, save where leaf_store_save   *)
(* itself said that it had failed.                                         *)
ServedWhole == torn \subseteq reported

(* leaf_store.h: "A card the leaf can read is never formatted, whatever    *)
(* the command says".  It may be one put in while f_mkfs was under way,    *)
(* after the gate had proved another unreadable; no other.                 *)
NeverErased == \A e \in erased : e[2]

(* After a brownout no rail is raised before a nap, and after a lock-out   *)
(* none before the cell was charged, whatever it reads in between and      *)
(* whatever woke the leaf, but for the camera's from a wake by the PIR to  *)
(* the gate (setup(), lockout_walkup_window: "with the camera and radio    *)
(* rails held off throughout").  What a later reset made it forget is      *)
(* excepted: a lock-out is kept in RTC memory alone.                       *)
RailsRest ==
    /\ "nap" \in due \ forgotten => rails = {}
    /\ "charge" \in due \ forgotten =>
          rails \subseteq {r \in {"cam"} : pc = "boot" /\ cause = "pir"}

(* Every wake ends, and a leaf with a charged cell goes on serving.        *)
ComesBack ==
    /\ []<>(pc = "asleep")
    /\ <>[](vb = "full") => []<>(pc = "window")
=============================================================================
