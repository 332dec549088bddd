-------------------------------- MODULE Adr --------------------------------
(***************************************************************************)
(* Adaptive radio profile.  Gateway and leaf must be tuned to one profile  *)
(* to hear each other.  The gateway grants a profile into the receive      *)
(* window that follows a leaf's announce and retunes at once; the leaf     *)
(* moves when its window closes and confirms on the new profile.  Grant    *)
(* and confirm can be lost, either end can lose power, and the gateway may *)
(* serve several leaves: each of its timers and each of the leaf's         *)
(* counters is there to bring the two together again on the base profile.  *)
(*                                                                         *)
(* gateway/src/main.cpp (rf_*, maybe_grant_profile, shepherd_*, the        *)
(* announce part of loop, /rf/base, /pin/clear) and leaf/src/main.cpp      *)
(* (rf_profile_wake_begin, rf_orphan_sweep_begin, handle_radio_profile,    *)
(* the end of a wake).  Signal strength, the switch cooldown and the       *)
(* up-shift backoff only decide whether and which way to step: any step    *)
(* inside the family may be taken, or none.                                *)
(***************************************************************************)
EXTENDS Integers, FiniteSets

CONSTANTS
    Leaf,           \* the leaves of a site, at most GW_ROSTER_MAX
    Min, Max,       \* GW_RF_FAMILY_MIN, GW_RF_FAMILY_MAX
    Base,           \* LORA_PROFILE_BASE
    SilentMax,      \* LEAF_RF_SILENT_WAKES_MAX
    SweepAfter,     \* LEAF_RF_SWEEP_AFTER_WAKES
    Operator,       \* bound: somebody uses /rf/base
    MidSweep,       \* bound: pins are dropped while the shepherd sweeps
    Relay,          \* bound: a relay carries announces across profiles
    None            \* no profile, 0xFF

Profile == Min .. Max

ASSUME AdrAssumption ==
    /\ IsFiniteSet(Leaf)
    /\ Min \in Nat /\ Max \in Nat /\ Base \in Profile
    /\ SilentMax \in Nat \ {0} /\ SweepAfter \in Nat
    /\ Operator \in BOOLEAN /\ MidSweep \in BOOLEAN /\ Relay \in BOOLEAN
    /\ None \notin Nat

VARIABLES
    gw,         \* s_rf, the roster's shepherd marks, the persisted index
    hold,       \* rf_hold_active()
    quiet,      \* no direct announce for GW_RF_SCAN_SILENT_MS
    lf          \* each leaf: its RTC memory and the wake it is in

vars == <<gw, hold, quiet, lf>>

Gateway == [
    current  : Profile,             \* the radio
    granted  : Profile,             \* what the leaf is believed to run
    pending  : Profile \cup {None}, \* grant sent, not confirmed
    prev     : Profile,
    scanning : BOOLEAN,
    since    : 0 .. 2,              \* announces_since_tx, as far as it counts
    shep     : Profile \cup {None}, \* shep_rung
    owed     : SUBSET Leaf,         \* shep_wait
    recent   : SUBSET Leaf,         \* heard on base within the grace time
    roster   : SUBSET Leaf,
    nvs      : Profile]             \* what a reboot finds

Rungs == Max - Min

LeafState == [
    profile : Profile,              \* g_rf_profile
    due     : BOOLEAN,              \* g_rf_grant_until has passed
    silent  : 0 .. SilentMax,       \* g_rf_silent_wakes, as far as it counts
    ever    : BOOLEAN,              \* g_rf_ever_contact
    orphan  : 0 .. SweepAfter,      \* g_rf_orphan_wakes, as far as it counts
    step    : 0 .. 2 * Rungs,       \* g_rf_sweep_step, modulo its period
    awake   : BOOLEAN,
    tuned   : Profile,              \* the radio, this wake
    contact : BOOLEAN,              \* s_contact
    stash   : Profile \cup {None}]  \* the radio_profile received this wake

PoweredUp == [profile |-> Base, due |-> FALSE, silent |-> 0, ever |-> FALSE,
              orphan |-> 0, step |-> 0, awake |-> FALSE, tuned |-> Base,
              contact |-> FALSE, stash |-> None]

(* setup(): the persisted profile is a hint, so a gateway that starts off  *)
(* base starts scanning.                                                   *)
Booted(nvs, roster) ==
    [current |-> nvs, granted |-> nvs, pending |-> None,
     prev |-> nvs, scanning |-> nvs # Base, since |-> 0, shep |-> None,
     owed |-> {}, recent |-> {}, roster |-> roster, nvs |-> nvs]

Init ==
    /\ gw = Booted(Base, {})
    /\ hold = FALSE /\ quiet = FALSE
    /\ lf = [l \in Leaf |-> PoweredUp]

Several(g) == Cardinality(g.roster) > 1

-----------------------------------------------------------------------------
(* The gateway hears a leaf directly: the announce handler and the part of *)
(* loop() that follows, up to the frames it sends.                         *)

(* TOFU: a free slot is claimed by the first direct announce.              *)
Pinned(g, l) == [g EXCEPT !.roster = @ \cup {l}]

HeardOnBase(g, l) ==
    IF g.current = Base
    THEN [g EXCEPT !.recent = @ \cup {l}, !.owed = @ \ {l}]
    ELSE g

(* rf_on_leaf_announce, first half: the grant in flight is confirmed.      *)
Confirms(g) == g.pending # None /\ g.current = g.pending

(* Mutant of Confirmed: the confirmed rung is not persisted.               *)
ConfirmedForgotten(g) ==
    IF Confirms(g)
    THEN [g EXCEPT !.granted = g.pending, !.pending = None]
    ELSE g

Confirmed(g) ==
    IF Confirms(g)
    THEN [g EXCEPT !.granted = g.pending, !.nvs = g.pending,
                   !.pending = None]
    ELSE g

(* shepherd_arm: who was not heard on base just now may still hold rung.   *)
Armed(g, rung) ==
    LET owed == g.roster \ g.recent
    IN  [g EXCEPT !.owed = owed, !.shep = IF owed = {} THEN @ ELSE rung]

(* rf_on_leaf_announce, second half: the scan has found a leaf.            *)
Adopted(g) ==
    LET h == [g EXCEPT !.scanning = FALSE, !.granted = g.current,
                       !.nvs = g.current]
    IN  IF ~ g.scanning THEN g
        ELSE IF Several(g) /\ g.granted \notin {h.granted, Base}
                /\ g.shep = None
        THEN Armed(h, g.granted)
        ELSE h

OnAnnounce(g, l) ==
    LET h == HeardOnBase(Pinned(g, l), l)
    IN  Adopted(Confirmed([h EXCEPT !.since = IF @ < 2 THEN @ + 1 ELSE @]))

(* maybe_grant_profile.  What it does to g, and the profile it sends.      *)
Silence(g) == [gw |-> g, sent |-> None]

(* The site has several leaves and is not all on base.                     *)
WalkBack(g) ==
    LET h == [g EXCEPT !.current = Base, !.granted = Base, !.nvs = Base,
                       !.scanning = FALSE, !.since = 0]
    IN  [gw |-> IF g.granted # Base /\ g.shep = None
                THEN Armed(h, g.granted) ELSE h,
         sent |-> Base]

Keepalive(g) == [gw |-> [g EXCEPT !.since = 0], sent |-> g.granted]

Shift(g, want) ==
    [gw |-> [g EXCEPT !.pending = want, !.prev = g.current,
                      !.current = want, !.since = 0],
     sent |-> want]

(* One radio: the profiles one step away inside the family.                *)
Neighbours(p) == {q \in Profile : q = p + 1 \/ q = p - 1}

(* busy: a command was just sent, or an assembly is open.                  *)
MaybeGrant(g, busy) ==
    IF g.pending # None THEN {Silence(g)}
    ELSE IF Several(g)
    THEN {IF g.granted # Base \/ g.current # Base THEN WalkBack(g)
                                                  ELSE Silence(g)}
    ELSE IF hold \/ g.scanning \/ busy THEN {Silence(g)}
    ELSE IF g.granted # Base /\ g.since = 2 THEN {Keepalive(g)}
    ELSE {Silence(g)} \cup {Shift(g, q) : q \in Neighbours(g.current)}

(* rf_loop ends an idle shepherd in every pass that finds it on base.      *)
ShepherdIdle == gw.shep # None /\ (gw.owed = {} \/ ~ Several(gw))

Attentive == ~ (ShepherdIdle /\ gw.current = Base)

(* The reply, if any, as the leaf may get it: a grant that was sent and    *)
(* not lost, and whether anything at all came through.                     *)
Reply(grant, other) ==
    {[stash |-> None, contact |-> FALSE], [stash |-> None, contact |-> other]}
    \cup IF grant = None THEN {} ELSE {[stash |-> grant, contact |-> TRUE]}

-----------------------------------------------------------------------------
(* A leaf's wake.                                                          *)

Set(l, r) == lf' = [lf EXCEPT ![l] = r]

(* Mutant of NextStep: the rotation does not advance.                      *)
NextStepStuck(step) == step

(* The sweep's rotation: from Max down, without Base, which every other    *)
(* wake is for.                                                            *)
Swept(step) ==
    LET p == Max - ((step \div 2) % Rungs)
    IN  IF step % 2 = 1 \/ Rungs = 0 THEN Base
        ELSE IF p > Base THEN p ELSE p - 1

NextStep(step) == IF Rungs = 0 THEN step ELSE (step + 1) % (2 * Rungs)

(* rf_profile_wake_begin                                                   *)
Reverts(r) == r.profile # Base /\ (r.silent = SilentMax \/ r.due)

Sweeps(r, timer) ==
    r.profile = Base /\ timer /\ ~ r.ever /\ r.orphan = SweepAfter

WakeBegin(r, timer) ==
    LET up == [r EXCEPT !.awake = TRUE, !.contact = FALSE, !.stash = None]
    IN  IF Reverts(r)
        THEN [up EXCEPT !.profile = Base, !.due = FALSE, !.silent = 0,
                        !.tuned = Base]
        ELSE IF Sweeps(r, timer)
        THEN [up EXCEPT !.tuned = Swept(r.step), !.step = NextStep(r.step)]
        ELSE [up EXCEPT !.tuned = r.profile]

(* A wake the gateway hears: it settles what was in flight, may grant, and *)
(* the leaf may receive what it sent.                                      *)
WakeHeard(l, timer) ==
    /\ ~ lf[l].awake /\ Attentive
    /\ \E busy \in BOOLEAN :
         LET r == WakeBegin(lf[l], timer)
         IN  /\ r.tuned = gw.current
             /\ \E m \in MaybeGrant(OnAnnounce(gw, l), busy) :
                  /\ gw' = m.gw
                  /\ \E a \in Reply(m.sent, TRUE) :
                       Set(l, [r EXCEPT !.stash = a.stash,
                                        !.contact = a.contact])
    /\ quiet' = FALSE
    /\ UNCHANGED hold

(* The announce is not heard; a thumb pushed over a link is contact all    *)
(* the same, and the gateway notes that a leaf is there.                   *)
WakeUnheard(l, timer) ==
    /\ ~ lf[l].awake
    /\ LET r == WakeBegin(lf[l], timer)
       IN  \E c \in {FALSE, ~ timer /\ r.tuned = gw.current} :
              /\ Set(l, [r EXCEPT !.contact = c])
              /\ quiet' = (quiet /\ ~ c)
    /\ UNCHANGED <<gw, hold>>

(* A relay hears the announce and carries commands back: contact, but none *)
(* of the gateway's radio state moves (rf_on_leaf_announce(false)).        *)
WakeRelayed(l, timer) ==
    /\ Relay /\ ~ lf[l].awake /\ l \in gw.roster
    /\ Set(l, [WakeBegin(lf[l], timer) EXCEPT !.contact = TRUE])
    /\ UNCHANGED <<gw, hold, quiet>>

(* The end of setup(): what the wake says about the gateway.               *)
Asleep(r) ==
    LET s == [r EXCEPT
                !.awake = FALSE, !.contact = FALSE, !.stash = None,
                !.tuned = Base,
                !.silent = IF r.profile = Base THEN @
                           ELSE IF r.contact THEN 0
                           ELSE IF @ < SilentMax THEN @ + 1 ELSE @]
    IN  IF r.contact THEN [s EXCEPT !.ever = TRUE, !.orphan = 0, !.step = 0]
        ELSE IF ~ r.ever /\ r.orphan < SweepAfter
        THEN [s EXCEPT !.orphan = @ + 1]
        ELSE s

(* handle_radio_profile                                                    *)
Moved(r) == [r EXCEPT !.profile = r.stash, !.tuned = r.stash, !.silent = 0,
                      !.due = FALSE]

(* The window closes with nothing to move to: no grant, or a keepalive.    *)
SleepQuietly(l) ==
    /\ lf[l].awake
    /\ lf[l].stash \in {None, lf[l].profile}
    /\ Set(l, Asleep(IF lf[l].stash = None THEN lf[l] ELSE Moved(lf[l])))
    /\ UNCHANGED <<gw, hold, quiet>>

Confirming(l) ==
    lf[l].awake /\ lf[l].stash \notin {None, lf[l].profile}

(* The leaf moves, announces on the new profile and sleeps: what the       *)
(* gateway answers finds no window.                                        *)
ConfirmHeard(l) ==
    /\ Confirming(l) /\ Attentive
    /\ lf[l].stash = gw.current
    /\ \E busy \in BOOLEAN :
         \E m \in MaybeGrant(OnAnnounce(gw, l), busy) : gw' = m.gw
    /\ Set(l, Asleep(Moved(lf[l])))
    /\ quiet' = FALSE
    /\ UNCHANGED hold

ConfirmLost(l) ==
    /\ Confirming(l)
    /\ Set(l, Asleep(Moved(lf[l])))
    /\ UNCHANGED <<gw, hold, quiet>>

(* g_unixtime passes g_rf_grant_until.                                     *)
GrantExpires(l) ==
    /\ lf[l].profile # Base /\ ~ lf[l].due
    /\ Set(l, [lf[l] EXCEPT !.due = TRUE])
    /\ UNCHANGED <<gw, hold, quiet>>

(* RTC memory is gone; the next wake is the "hello" on base.               *)
LeafPowerLoss(l) ==
    /\ Set(l, PoweredUp)
    /\ UNCHANGED <<gw, hold, quiet>>

-----------------------------------------------------------------------------
(* The gateway's timers: rf_loop.                                          *)

(* Twenty seconds outlast any window in which a grant is being acted on.   *)
WindowsOver == \A l \in Leaf : lf[l].stash = None

(* Mutant of ConfirmTimeout: the grant is given up, the radio stays.       *)
ConfirmTimeoutStays ==
    /\ gw.pending # None /\ WindowsOver
    /\ gw' = [gw EXCEPT !.pending = None]
    /\ UNCHANGED <<hold, quiet, lf>>

(* Mutant of ConfirmTimeout: the field it reverts to was just cleared. *)
ConfirmTimeoutSwapped ==
    /\ gw.pending # None /\ WindowsOver
    /\ gw' = [gw EXCEPT !.current = None, !.pending = None]
    /\ UNCHANGED <<hold, quiet, lf>>

ConfirmTimeout ==
    /\ gw.pending # None /\ WindowsOver
    /\ gw' = [gw EXCEPT !.current = gw.prev, !.pending = None]
    /\ UNCHANGED <<hold, quiet, lf>>

(* Ninety seconds without a direct announce: the confirm timeout and every *)
(* window that followed the last one are over.                             *)
FallsQuiet ==
    /\ ~ quiet /\ gw.pending = None /\ WindowsOver
    /\ quiet' = TRUE
    /\ UNCHANGED <<gw, hold, lf>>

ScanToggle ==
    /\ gw.pending = None /\ gw.granted # Base /\ quiet
    /\ gw' = [gw EXCEPT !.scanning = TRUE,
                        !.current = IF @ = gw.granted THEN Base
                                                      ELSE gw.granted]
    /\ UNCHANGED <<hold, quiet, lf>>

(* Mutant of ShepherdEnd: the radio stays where the sweep had parked it.   *)
ShepherdEndParked ==
    /\ gw.shep # None
    /\ gw' = [gw EXCEPT !.shep = None, !.owed = {}]
    /\ UNCHANGED <<hold, quiet, lf>>

(* Nobody is owed, the site has one leaf, or four hours have gone by.      *)
ShepherdEnd ==
    /\ gw.shep # None
    /\ gw' = [gw EXCEPT !.shep = None, !.owed = {}, !.current = Base]
    /\ UNCHANGED <<hold, quiet, lf>>

(* The first toggle comes thirty seconds after the shepherd is armed, and  *)
(* no toggle while frames of an exchange still arrive.                     *)
ShepherdToggle ==
    /\ gw.shep # None /\ ~ ShepherdIdle
    /\ gw.pending = None /\ ~ hold /\ WindowsOver
    /\ gw' = [gw EXCEPT !.current = IF @ = Base THEN gw.shep ELSE Base]
    /\ UNCHANGED <<hold, quiet, lf>>

(* GW_RF_SHEPHERD_GRACE_MS after a leaf was heard on base.                 *)
GraceOver(l) ==
    /\ l \in gw.recent
    /\ gw' = [gw EXCEPT !.recent = @ \ {l}]
    /\ UNCHANGED <<hold, quiet, lf>>

(* The operator, power.                                                    *)

(* POST /rf/base, with a hold or without.                                  *)
RfBase ==
    /\ Operator
    /\ gw' = [gw EXCEPT !.current = Base, !.granted = Base, !.nvs = Base,
                        !.pending = None, !.scanning = FALSE]
    /\ hold' \in BOOLEAN
    /\ UNCHANGED <<quiet, lf>>

(* POST /rf/resume, or the hold has run out.                               *)
HoldEnds ==
    /\ hold /\ hold' = FALSE
    /\ UNCHANGED <<gw, quiet, lf>>

(* clear_roster empties the roster, tofu_rearm_scan drops one of several.  *)
RosterShrinks ==
    /\ MidSweep \/ gw.shep = None
    /\ \E gone \in {gw.roster} \cup {{l} : l \in gw.roster} :
         /\ gone # {}
         /\ gw' = [gw EXCEPT !.roster = @ \ gone, !.owed = @ \ gone,
                              !.recent = @ \ gone]
    /\ UNCHANGED <<hold, quiet, lf>>

Reboot ==
    /\ gw' = Booted(gw.nvs, gw.roster)
    /\ hold' = FALSE /\ quiet' = FALSE
    /\ UNCHANGED lf

(* timer: a scheduled check-in, and not motion or a cold boot.             *)
Wake(l, timer) ==
    WakeHeard(l, timer) \/ WakeUnheard(l, timer) \/ WakeRelayed(l, timer)

WindowCloses(l) == SleepQuietly(l) \/ ConfirmHeard(l) \/ ConfirmLost(l)

RfLoop ==
    ConfirmTimeout \/ FallsQuiet \/ ScanToggle \/ ShepherdEnd \/ ShepherdToggle

(* What goes on by itself.                                                 *)
Course ==
    \/ \E l \in Leaf :
         \/ \E timer \in BOOLEAN : Wake(l, timer)
         \/ WindowCloses(l) \/ GrantExpires(l) \/ GraceOver(l)
    \/ RfLoop \/ HoldEnds

(* What a site is spared in the end: power cuts and the operator.          *)
Disturbance ==
    (\E l \in Leaf : LeafPowerLoss(l)) \/ RfBase \/ RosterShrinks \/ Reboot

Next == Course \/ Disturbance

Spec == Init /\ [][Next]_vars

-----------------------------------------------------------------------------
(* Properties.                                                             *)

(* Every variable has its type.                                            *)
TypeOK ==
    /\ gw \in Gateway
    /\ hold \in BOOLEAN /\ quiet \in BOOLEAN
    /\ lf \in [Leaf -> LeafState]

(* The gateway never camps off base without a timer that brings it back:   *)
(* a grant waits for its confirm, a believed off-base leaf is scanned for, *)
(* or the shepherd sweeps.                                                 *)
WayBack ==
    gw.current # Base =>
        gw.pending # None \/ gw.granted # Base \/ gw.shep # None

(* Whatever happens between a decision and its write to flash, a reboot    *)
(* comes back to the rung the gateway believes in.                         *)
PersistedIsGranted == gw.nvs = gw.granted

(* With nothing in flight the radio is where the gateway believes the leaf *)
(* to be.                                                                  *)
Settled ==
    gw.pending = None /\ ~ gw.scanning /\ gw.shep = None
        => gw.current = gw.granted

=============================================================================
