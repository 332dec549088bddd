----------------------------- MODULE TofuRoster -----------------------------
(***************************************************************************)
(* Which leaves a gateway manages.  The first direct announce with a       *)
(* health tail claims a free slot (trust on first use) and the pins are    *)
(* kept in flash.  A leaf whose flash was wiped comes back under a new     *)
(* identity and its old pin holds a slot for ever, so after a while a pin  *)
(* not heard since boot is dropped, if some other leaf has proven that the *)
(* gateway's own ears work.                                                *)
(*                                                                         *)
(* gateway/src/main.cpp: load_roster, save_roster, clear_roster, the       *)
(* roster part of received_announce, tofu_note_live, tofu_witness_ok and   *)
(* tofu_rearm_scan.  A clock counts in units of which Grace, Span and      *)
(* Cooldown are small multiples; it is an age that stops at the value the  *)
(* code compares it with.  A relayed announce changes none of this state,  *)
(* and which of several silent pins goes first is left open.               *)
(***************************************************************************)
EXTENDS Integers, FiniteSets

CONSTANTS
    Leaf,           \* identities, those of wiped leaves included
    RosterMax,      \* GW_ROSTER_MAX
    Grace,          \* GW_TOFU_REARM_GRACE_MS
    Span,           \* GW_TOFU_REARM_MIN_SPAN_MS
    MinHeard,       \* GW_TOFU_REARM_MIN_HEARD
    Cooldown,       \* GW_TOFU_REARM_COOLDOWN_MS
    MaxPerBoot,     \* GW_TOFU_REARM_MAX_PER_BOOT
    MaxFaults,      \* bound: reboots, cleared rosters, deaf spells
    None            \* no leaf, a free slot, no stranger

(* Four slots and two re-arms per boot: the roster is never walked out.    *)
ASSUME TofuAssumption ==
    /\ IsFiniteSet(Leaf) /\ None \notin Leaf
    /\ RosterMax \in Nat /\ MaxPerBoot \in Nat /\ MaxPerBoot < RosterMax
    /\ Grace \in Nat /\ Span \in Nat /\ Cooldown \in Nat
    /\ MinHeard \in Nat \ {0}
    /\ MaxFaults \in Nat

VARIABLES
    entry,      \* s_roster, by identity
    live,       \* s_live_*: the one stranger that may bear witness
    up, cool,   \* millis(), and how long ago the last re-arm was
    rearms,     \* s_rearms_done
    save,       \* s_pin_save_pending
    nvs,        \* the gw-leaf namespace
    alive,      \* identities of leaves that work
    deaf,       \* the gateway's receive path is broken
    faults

ramVars   == <<entry, live, up, cool, rearms, save>>
worldVars == <<alive, deaf>>
vars == <<ramVars, nvs, worldVars, faults>>

Counted == 0 .. MinHeard
Entry == [direct : BOOLEAN, n : Counted, age : 0 .. Span]
Stranger == [id : Leaf, n : Counted, age : 0 .. Span]
Flash == [roster : SUBSET Leaf, pin : Leaf \cup {None}]

ASSUME SlotAssumption == None \notin Entry \cup Stranger

Roster == {l \in Leaf : entry[l] # None}

Fault == faults < MaxFaults /\ faults' = faults + 1

Fresh == [direct |-> FALSE, n |-> 0, age |-> 0]

(* load_roster: the roster, or the single pin of gateway-0.9.0.            *)
Restored ==
    IF nvs.roster # {} THEN nvs.roster
    ELSE {l \in Leaf : nvs.pin = l}

RestoredEntries == [l \in Leaf |-> IF l \in Restored THEN Fresh ELSE None]

(* A roster migrated from the single pin is yet to be written as such.     *)
Migrates == nvs.roster = {} /\ nvs.pin # None

Init ==
    /\ nvs \in Flash /\ Cardinality(nvs.roster) <= RosterMax
    /\ nvs.roster # {} => nvs.pin = None
    /\ alive \in SUBSET Leaf
    /\ entry = RestoredEntries /\ live = None
    /\ up = 0 /\ cool = Cooldown /\ rearms = 0
    /\ save = Migrates
    /\ deaf = FALSE
    /\ faults = 0

-----------------------------------------------------------------------------
(* A direct announce is heard.                                             *)

Hears(l) == l \in alive /\ ~ deaf

(* Mutant of Counts: every announce starts the span anew.                  *)
CountsAnew(c) ==
    [c EXCEPT !.n = IF @ < MinHeard THEN @ + 1 ELSE @, !.age = 0]

(* tofu_note_live, of one counter                                          *)
Counts(c) == [c EXCEPT !.n = IF @ < MinHeard THEN @ + 1 ELSE @]

(* A member; an empty announce (a path response) has no health tail.       *)
MemberHeard(l, health) ==
    /\ Hears(l) /\ l \in Roster
    /\ entry' = [entry EXCEPT ![l] =
           [(IF health THEN Counts(@) ELSE @) EXCEPT !.direct = TRUE]]
    /\ UNCHANGED <<live, up, cool, rearms, save, nvs, worldVars, faults>>

(* Noted as a stranger first, in the only slot there is for one.           *)
NoteStranger(l) ==
    live' = IF live # None /\ live.id = l THEN Counts(live)
            ELSE [id |-> l, n |-> 1, age |-> 0]

(* Mutant of Enrols: the pin is not written to flash.                      *)
EnrolsUnsaved(l) ==
    /\ Hears(l) /\ l \notin Roster
    /\ Cardinality(Roster) < RosterMax
    /\ NoteStranger(l)
    /\ entry' = [entry EXCEPT ![l] = [Fresh EXCEPT !.direct = TRUE]]
    /\ UNCHANGED <<up, cool, rearms, save, nvs, worldVars, faults>>

(* A free slot is claimed.                                                 *)
Enrols(l) ==
    /\ Hears(l) /\ l \notin Roster
    /\ Cardinality(Roster) < RosterMax
    /\ NoteStranger(l)
    /\ entry' = [entry EXCEPT ![l] = [Fresh EXCEPT !.direct = TRUE]]
    /\ save' = TRUE
    /\ UNCHANGED <<up, cool, rearms, nvs, worldVars, faults>>

(* No slot: the leaf is foreign, but it bears witness.                     *)
StrangerHeard(l) ==
    /\ Hears(l) /\ l \notin Roster
    /\ Cardinality(Roster) >= RosterMax
    /\ NoteStranger(l)
    /\ UNCHANGED <<entry, up, cool, rearms, save, nvs, worldVars, faults>>

-----------------------------------------------------------------------------
(* loop().                                                                 *)

Proven(c) == c.n >= MinHeard /\ c.age >= Span

(* tofu_witness_ok                                                         *)
Witness(v) ==
    \/ \E m \in Roster \ {v} : Proven(entry[m])
    \/ live # None /\ live.id # v /\ Proven(live)

(* Mutant of MayRearm: re-arms are not counted.                            *)
MayRearmUnbudgeted == up >= Grace /\ cool >= Cooldown

MayRearm == up >= Grace /\ cool >= Cooldown /\ rearms < MaxPerBoot

Victims == {v \in Roster : ~ entry[v].direct /\ Witness(v)}

(* tofu_rearm_scan                                                         *)
Rearm ==
    /\ MayRearm
    /\ \E v \in Victims : entry' = [entry EXCEPT ![v] = None]
    /\ rearms' = IF rearms < MaxPerBoot THEN rearms + 1 ELSE rearms
    /\ cool' = 0
    /\ save' = TRUE
    /\ UNCHANGED <<live, up, nvs, worldVars, faults>>

(* save_roster.  A blob of no bytes is not written (Preferences).          *)
Save ==
    /\ save /\ save' = FALSE
    /\ nvs' = [nvs EXCEPT !.roster = IF Roster = {} THEN @ ELSE Roster]
    /\ UNCHANGED <<entry, live, up, cool, rearms, worldVars, faults>>

(* POST /pin/clear; what strangers and re-arms left in RAM stays.          *)
ClearRoster ==
    /\ Fault
    /\ entry' = [l \in Leaf |-> None]
    /\ nvs' = [roster |-> {}, pin |-> None]
    /\ UNCHANGED <<live, up, cool, rearms, save, worldVars>>

Reboot ==
    /\ Fault
    /\ entry' = RestoredEntries /\ live' = None
    /\ up' = 0 /\ cool' = Cooldown /\ rearms' = 0
    /\ save' = Migrates
    /\ UNCHANGED <<nvs, worldVars>>

-----------------------------------------------------------------------------
(* Time and the world.  The scan runs in every pass of loop(), so what it  *)
(* will do it has done before minutes go by or ears fail.                  *)

ScanDone == ~ (MayRearm /\ Victims # {})

Older(age, limit) == IF age < limit THEN age + 1 ELSE age

Ages(c) == IF c = None \/ c.n = 0 THEN c
           ELSE [c EXCEPT !.age = Older(@, Span)]

Tick ==
    /\ ScanDone
    /\ up' = Older(up, Grace) /\ cool' = Older(cool, Cooldown)
    /\ entry' = [l \in Leaf |-> Ages(entry[l])]
    /\ live' = Ages(live)
    /\ UNCHANGED <<rearms, save, nvs, worldVars, faults>>

(* An antenna snaps, a radio wedges.                                       *)
GoesDeaf ==
    /\ Fault /\ ScanDone
    /\ ~ deaf /\ deaf' = TRUE
    /\ UNCHANGED <<ramVars, nvs, alive>>

HearsAgain ==
    /\ deaf /\ deaf' = FALSE
    /\ UNCHANGED <<ramVars, nvs, alive, faults>>

(* A leaf is installed, gets a new battery, or comes back from a wipe       *)
(* under another identity.                                                 *)
Joins(l) ==
    /\ l \notin alive /\ alive' = alive \cup {l}
    /\ UNCHANGED <<ramVars, nvs, deaf, faults>>

(* It is taken down, runs dry, or is wiped.                                *)
Departs(l) ==
    /\ l \in alive /\ alive' = alive \ {l}
    /\ UNCHANGED <<ramVars, nvs, deaf, faults>>

Heard(l) ==
    (\E health \in BOOLEAN : MemberHeard(l, health))
        \/ Enrols(l) \/ StrangerHeard(l)

World == GoesDeaf \/ HearsAgain \/ \E l \in Leaf : Joins(l) \/ Departs(l)

Next ==
    \/ \E l \in Leaf : Heard(l)
    \/ Rearm \/ Save \/ Tick
    \/ ClearRoster \/ Reboot \/ World

Spec == Init /\ [][Next]_vars

(* loop() and the clock go on; a leaf that announces is heard one day.     *)
Fairness ==
    /\ WF_vars(Tick \/ Rearm)
    /\ \A l \in Leaf : SF_vars(Enrols(l) \/ StrangerHeard(l))

FairSpec == Spec /\ Fairness

-----------------------------------------------------------------------------
(* Properties.                                                             *)

(* Every variable has its type; the roster has at most RosterMax entries.  *)
TypeOK ==
    /\ entry \in [Leaf -> Entry \cup {None}]
    /\ Cardinality(Roster) <= RosterMax
    /\ live \in Stranger \cup {None}
    /\ up \in 0 .. Grace /\ cool \in 0 .. Cooldown
    /\ rearms \in 0 .. MaxPerBoot /\ save \in BOOLEAN
    /\ nvs \in Flash /\ Cardinality(nvs.roster) <= RosterMax
    /\ alive \subseteq Leaf /\ deaf \in BOOLEAN
    /\ faults \in 0 .. MaxFaults

(* What the next boot restores is the roster, once the deferred write is   *)
(* done: no dropped or cleared pin rises again, no enrolled one is lost.   *)
Persisted == ~ save => Restored = Roster

(* A roster that re-arms had emptied could not be written, and its ghosts  *)
(* would be back at the next boot; the site would be the first stranger's  *)
(* by the gateway's own doing.  So it is empty in RAM only if in flash.    *)
NeverEmptied == Roster = {} => Restored = {}

OnlyStranger(l) == l \in alive /\ ~ deaf /\ alive \subseteq Roster \cup {l}

(* The full roster's deadlock is broken: a leaf that came back under a new *)
(* identity and is the only stranger is enrolled one day, unless every pin *)
(* has been heard in this boot or the boot's re-arms are spent.            *)
Admitted ==
    \A l \in Leaf :
        <>[]OnlyStranger(l)
            => []<>(\/ l \in Roster \/ rearms = MaxPerBoot
                    \/ \A m \in Roster : entry[m].direct)

=============================================================================
