-------------------------- MODULE TofuRoster_proof --------------------------
(***************************************************************************)
(* Proofs about the roster, for every set of identities and every setting  *)
(* of the re-arm.  The inductive part is what a stranger's evidence means: *)
(* it is heard on a full roster, so while it is outside the roster and a   *)
(* pin is still silent, only re-arms have made room, and their budget is   *)
(* smaller than the roster (StrangerOutside).                              *)
(***************************************************************************)
EXTENDS TofuRoster, FiniteSetTheorems, TLAPS

Silent == {l \in Roster : ~ entry[l].direct}

(* A silent pin left by re-arms in a roster that had been full.            *)
StrangerOutside ==
    live # None /\ live.id \notin Roster /\ Silent # {}
        => Cardinality(Roster) + rearms >= RosterMax

(* The noted stranger that has a slot got it by being heard direct.        *)
StrangerInside ==
    live # None /\ live.id \in Roster => entry[live.id].direct

RosterInv ==
    TypeOK /\ StrangerOutside /\ StrangerInside /\ NeverEmptied /\ Persisted

-----------------------------------------------------------------------------
(* The data.                                                               *)

(* A counter and an entry are not "nothing"; what counting and ageing give *)
(* is an entry, or a stranger, of the same identity and directness.        *)
LEMMA CounterTypes ==
    /\ Fresh \in Entry /\ [Fresh EXCEPT !.direct = TRUE] \in Entry
    /\ \A c \in Entry : c # None /\ c.direct \in BOOLEAN
    /\ \A c \in Stranger : c # None /\ c.id \in Leaf
    /\ \A c \in Entry :
         /\ Counts(c) \in Entry /\ Ages(c) \in Entry
         /\ Ages(c).direct = c.direct
         /\ [c EXCEPT !.direct = TRUE] \in Entry
         /\ [c EXCEPT !.direct = TRUE].direct
    /\ \A c \in Stranger :
         /\ Counts(c) \in Stranger /\ Counts(c).id = c.id
         /\ Ages(c) \in Stranger /\ Ages(c).id = c.id
    /\ \A l \in Leaf : [id |-> l, n |-> 1, age |-> 0] \in Stranger
    /\ Ages(None) = None
<1>0. /\ \A c \in Entry : c # None
      /\ \A c \in Stranger : c # None
  BY SlotAssumption, Zenon
<1>1. /\ Fresh \in Entry /\ [Fresh EXCEPT !.direct = TRUE] \in Entry
      /\ \A c \in Entry : c.direct \in BOOLEAN
      /\ \A c \in Stranger : c.id \in Leaf
      /\ \A l \in Leaf : [id |-> l, n |-> 1, age |-> 0] \in Stranger
      /\ Ages(None) = None
  <2>1. 1 \in Counted /\ 0 \in Counted /\ 0 \in 0 .. Span
    BY TofuAssumption DEF Counted
  <2>2. /\ Fresh \in Entry /\ [Fresh EXCEPT !.direct = TRUE] \in Entry
        /\ \A c \in Entry : c.direct \in BOOLEAN
    BY <2>1 DEF Fresh, Entry
  <2>3. /\ \A c \in Stranger : c.id \in Leaf
        /\ \A l \in Leaf : [id |-> l, n |-> 1, age |-> 0] \in Stranger
    BY <2>1 DEF Stranger
  <2>4. Ages(None) = None
    BY DEF Ages
  <2> QED BY <2>2, <2>3, <2>4
<1>2. ASSUME NEW c \in Entry
      PROVE  /\ Counts(c) \in Entry /\ Ages(c) \in Entry
             /\ Ages(c).direct = c.direct
             /\ [c EXCEPT !.direct = TRUE] \in Entry
             /\ [c EXCEPT !.direct = TRUE].direct
  <2>1. Counts(c) \in Entry
    BY TofuAssumption DEF Entry, Counted, Counts
  <2>2. Ages(c) \in Entry /\ Ages(c).direct = c.direct
    BY TofuAssumption DEF Entry, Counted, Ages, Older
  <2>3. [c EXCEPT !.direct = TRUE] \in Entry
        /\ [c EXCEPT !.direct = TRUE].direct
    BY DEF Entry
  <2> QED BY <2>1, <2>2, <2>3
<1>3. ASSUME NEW c \in Stranger
      PROVE  /\ Counts(c) \in Stranger /\ Counts(c).id = c.id
             /\ Ages(c) \in Stranger /\ Ages(c).id = c.id
  BY TofuAssumption DEF Stranger, Counted, Counts, Ages, Older
<1> QED BY <1>0, <1>1, <1>2, <1>3

(* A roster is a finite set; what flash restores is a roster.              *)
LEMMA RosterFacts ==
    /\ IsFiniteSet(Roster) /\ Roster \subseteq Leaf
    /\ Cardinality(Roster) \in Nat
BY TofuAssumption, FS_Subset, FS_CardinalityType DEF Roster

(* What a boot restores is a roster of no more entries than slots.         *)
LEMMA RestoredFacts ==
    ASSUME nvs \in Flash, Cardinality(nvs.roster) <= RosterMax
    PROVE  /\ Restored \subseteq Leaf
           /\ Cardinality(Restored) <= RosterMax
<1>1. Restored \subseteq Leaf
  BY DEF Restored, Flash
<1>2. CASE nvs.roster # {}
  BY <1>1, <1>2 DEF Restored
<1>3. CASE nvs.roster = {} /\ nvs.pin \in Leaf
  <2>1. Restored = {} \cup {nvs.pin}
    BY <1>3 DEF Restored
  <2>2. IsFiniteSet({}) /\ Cardinality({}) = 0
    BY FS_EmptySet
  <2>3. Cardinality({} \cup {nvs.pin}) = 1
    <3>1. nvs.pin \notin {}
      OBVIOUS
    <3>2. Cardinality({} \cup {nvs.pin})
            = IF nvs.pin \in {} THEN Cardinality({}) ELSE Cardinality({}) + 1
      BY <2>2, FS_AddElement, Zenon
    <3> QED BY <3>1, <3>2, <2>2
  <2>4. RosterMax >= 1
    BY TofuAssumption
  <2> QED BY <1>1, <2>1, <2>3, <2>4
<1>4. CASE nvs.roster = {} /\ nvs.pin = None
  <2>1. Restored = {}
    BY <1>4, TofuAssumption DEF Restored
  <2> QED BY <1>1, <2>1, FS_EmptySet, TofuAssumption
<1> QED BY <1>2, <1>3, <1>4 DEF Flash

(* The entries that a boot restores.                                       *)
LEMMA RestoredRoster ==
    ASSUME Restored \subseteq Leaf
    PROVE  /\ RestoredEntries \in [Leaf -> Entry \cup {None}]
           /\ {l \in Leaf : RestoredEntries[l] # None} = Restored
BY CounterTypes DEF RestoredEntries

(* Counting a fault keeps the bound.                                       *)
LEMMA FaultBound ==
    ASSUME TypeOK, Fault PROVE faults' \in 0 .. MaxFaults
BY TofuAssumption DEF TypeOK, Fault

(* What is noted of a stranger is a stranger, and it is that leaf.         *)
LEMMA Noted ==
    ASSUME TypeOK, NEW l \in Leaf, NoteStranger(l)
    PROVE  live' \in Stranger /\ live' # None /\ live'.id = l
<1>1. CASE live # None /\ live.id = l
  BY <1>1, CounterTypes DEF TypeOK, NoteStranger
<1>2. CASE ~ (live # None /\ live.id = l)
  BY <1>2, CounterTypes DEF NoteStranger
<1> QED BY <1>1, <1>2

-----------------------------------------------------------------------------
(* A step that keeps the roster and what flash restores keeps the two      *)
(* properties that relate them.                                            *)
LEMMA SameRoster ==
    ASSUME RosterInv, Roster' = Roster, UNCHANGED <<nvs, save>>
    PROVE  NeverEmptied' /\ Persisted'
BY DEF RosterInv, NeverEmptied, Persisted, Restored

(* The initial state, and a boot.                                          *)
LEMMA BootInv ==
    ASSUME nvs \in Flash, Cardinality(nvs.roster) <= RosterMax,
           entry = RestoredEntries, live = None
    PROVE  /\ entry \in [Leaf -> Entry \cup {None}]
           /\ Roster = Restored
           /\ Cardinality(Roster) <= RosterMax
           /\ StrangerOutside /\ StrangerInside /\ NeverEmptied /\ Persisted
<1>1. /\ entry \in [Leaf -> Entry \cup {None}]
      /\ Roster = Restored /\ Cardinality(Roster) <= RosterMax
  BY RestoredFacts, RestoredRoster DEF Roster
<1> QED
  BY <1>1 DEF StrangerOutside, StrangerInside, NeverEmptied, Persisted

(* The invariant holds after the first boot, whatever the flash held.      *)
LEMMA InitRoster == Init => RosterInv
<1> SUFFICES ASSUME Init PROVE RosterInv
  OBVIOUS
<1>1. /\ entry \in [Leaf -> Entry \cup {None}]
      /\ Cardinality(Roster) <= RosterMax
      /\ StrangerOutside /\ StrangerInside /\ NeverEmptied /\ Persisted
  BY BootInv DEF Init
<1>2. TypeOK
  <2>1. up \in 0 .. Grace /\ cool \in 0 .. Cooldown
        /\ rearms \in 0 .. MaxPerBoot /\ faults \in 0 .. MaxFaults
    BY TofuAssumption DEF Init
  <2>2. save \in BOOLEAN /\ alive \subseteq Leaf /\ deaf \in BOOLEAN
        /\ live \in Stranger \cup {None}
    BY DEF Init, Migrates
  <2> QED BY <1>1, <2>1, <2>2 DEF Init, TypeOK
<1> QED BY <1>1, <1>2 DEF RosterInv

-----------------------------------------------------------------------------
(* Announces.                                                              *)

(* A member's announce changes evidence only.                              *)
LEMMA MemberHeardInv ==
    ASSUME RosterInv, NEW l \in Leaf, NEW health \in BOOLEAN,
           MemberHeard(l, health)
    PROVE  RosterInv'
<1> DEFINE e == [(IF health THEN Counts(entry[l]) ELSE entry[l])
                    EXCEPT !.direct = TRUE]
<1>1. entry[l] \in Entry
  BY DEF MemberHeard, Roster, RosterInv, TypeOK
<1>2. e \in Entry /\ e # None /\ e.direct
  BY <1>1, CounterTypes
<1>3. entry' = [entry EXCEPT ![l] = e]
  BY DEF MemberHeard
<1> HIDE DEF e
<1>4. /\ entry' \in [Leaf -> Entry \cup {None}]
      /\ Roster' = Roster /\ Silent' \subseteq Silent
      /\ \A k \in Roster : entry[k].direct => entry'[k].direct
  BY <1>2, <1>3 DEF MemberHeard, Roster, Silent, RosterInv, TypeOK
<1>5. TypeOK'
  BY <1>4 DEF MemberHeard, RosterInv, TypeOK, worldVars
<1>6. StrangerOutside' /\ StrangerInside'
  BY <1>4 DEF MemberHeard, RosterInv, StrangerOutside, StrangerInside
<1>7. NeverEmptied' /\ Persisted'
  BY <1>4, SameRoster DEF MemberHeard
<1> QED BY <1>5, <1>6, <1>7 DEF RosterInv

(* An enrolment takes a free slot and asks to be written.                  *)
LEMMA EnrolsInv ==
    ASSUME RosterInv, NEW l \in Leaf, Enrols(l) PROVE RosterInv'
<1> DEFINE e == [Fresh EXCEPT !.direct = TRUE]
<1>1. e \in Entry /\ e # None /\ e.direct
  BY CounterTypes
<1>2. entry' = [entry EXCEPT ![l] = e]
  BY DEF Enrols
<1> HIDE DEF e
<1>3. /\ entry' \in [Leaf -> Entry \cup {None}]
      /\ Roster' = Roster \cup {l} /\ entry'[l].direct
  BY <1>1, <1>2 DEF Enrols, Roster, RosterInv, TypeOK
<1>4. Cardinality(Roster') <= RosterMax
  <2>1. Cardinality(Roster \cup {l}) = Cardinality(Roster) + 1
    BY RosterFacts, FS_AddElement DEF Enrols
  <2>2. Cardinality(Roster) < RosterMax
    BY DEF Enrols
  <2> QED BY <1>3, <2>1, <2>2, RosterFacts, TofuAssumption
<1>5. live' \in Stranger /\ live'.id = l
  BY Noted DEF Enrols, RosterInv
<1>6. TypeOK'
  BY <1>3, <1>4, <1>5 DEF Enrols, RosterInv, TypeOK, worldVars
<1>7. StrangerOutside' /\ StrangerInside'
  BY <1>3, <1>5 DEF StrangerOutside, StrangerInside
<1>8. NeverEmptied' /\ Persisted'
  BY <1>3 DEF Enrols, NeverEmptied, Persisted
<1> QED BY <1>6, <1>7, <1>8 DEF RosterInv

(* A stranger is enrolled where there is room, else it bears witness.      *)
LEMMA StrangerHeardInv ==
    ASSUME RosterInv, NEW l \in Leaf, StrangerHeard(l) PROVE RosterInv'
<1>1. Roster' = Roster
  BY DEF StrangerHeard, Roster
<1>2. live' \in Stranger /\ live'.id = l
  BY Noted DEF StrangerHeard, RosterInv
<1>3. TypeOK'
  BY <1>1, <1>2 DEF StrangerHeard, RosterInv, TypeOK, worldVars
<1>4. StrangerOutside' /\ StrangerInside'
  <2>1. rearms' \in Nat /\ Cardinality(Roster') \in Nat
    BY <1>1, <1>3, RosterFacts, TofuAssumption DEF TypeOK
  <2>2. Cardinality(Roster') >= RosterMax /\ l \notin Roster'
    BY <1>1 DEF StrangerHeard
  <2> QED BY <1>2, <2>1, <2>2, TofuAssumption
             DEF StrangerOutside, StrangerInside
<1>5. NeverEmptied' /\ Persisted'
  BY <1>1, SameRoster DEF StrangerHeard
<1> QED BY <1>3, <1>4, <1>5 DEF RosterInv

-----------------------------------------------------------------------------
(* The loop.                                                               *)

(* What is left after a re-arm: its witness, or a roster that had been     *)
(* full and is larger than the budget of re-arms.                          *)
LEMMA RearmLeaves ==
    ASSUME RosterInv, MayRearm, NEW v \in Victims
    PROVE  Roster \ {v} # {}
<1>0. v \in Roster /\ v \in Silent
  BY DEF Victims, Silent
<1>1. CASE \E m \in Roster \ {v} : Proven(entry[m])
  BY <1>1
<1>2. CASE live # None /\ live.id # v
  <2>1. CASE live.id \in Roster
    BY <1>2, <2>1
  <2>2. CASE live.id \notin Roster
    <3>1. Cardinality(Roster) + rearms >= RosterMax
      BY <1>0, <1>2, <2>2 DEF RosterInv, StrangerOutside
    <3>2. Cardinality(Roster) >= 2
      BY <3>1, RosterFacts, TofuAssumption DEF RosterInv, TypeOK, MayRearm
    <3>3. Cardinality(Roster \ {v}) # 0
      <4>1. Cardinality(Roster \ {v}) = Cardinality(Roster) - 1
        BY <1>0, RosterFacts, FS_RemoveElement
      <4> QED BY <3>2, <4>1, RosterFacts
    <3> QED BY <3>3, FS_EmptySet
  <2> QED BY <2>1, <2>2
<1> QED BY <1>1, <1>2 DEF Victims, Witness

(* A re-arm drops one silent pin and spends one of the budget.             *)
LEMMA RearmInv ==
    ASSUME RosterInv, Rearm PROVE RosterInv'
<1>1. PICK v \in Victims : entry' = [entry EXCEPT ![v] = None]
  BY DEF Rearm
<1>2. v \in Roster /\ v \in Leaf /\ ~ entry[v].direct
  BY DEF Victims, Roster
<1>3. /\ entry' \in [Leaf -> Entry \cup {None}]
      /\ Roster' = Roster \ {v}
      /\ \A k \in Roster' : entry'[k] = entry[k]
  BY <1>1, <1>2 DEF Roster, RosterInv, TypeOK
<1>4. /\ Cardinality(Roster') = Cardinality(Roster) - 1
      /\ Cardinality(Roster) \in Nat
  BY <1>2, <1>3, RosterFacts, FS_RemoveElement
<1>5. rearms \in Nat /\ rearms' = rearms + 1 /\ rearms' \in 0 .. MaxPerBoot
  BY TofuAssumption DEF Rearm, MayRearm, RosterInv, TypeOK
<1>6. TypeOK'
  <2>1. Cardinality(Roster') <= RosterMax
    BY <1>4, TofuAssumption DEF RosterInv, TypeOK
  <2> QED BY <1>3, <1>5, <2>1, TofuAssumption
             DEF Rearm, RosterInv, TypeOK, worldVars
<1>7. StrangerInside'
  BY <1>3 DEF Rearm, RosterInv, StrangerInside
<1>8. StrangerOutside'
  <2> SUFFICES ASSUME live # None, live.id \notin Roster'
               PROVE  Cardinality(Roster') + rearms' >= RosterMax
    BY DEF Rearm, StrangerOutside
  <2>1. live.id # v
    BY <1>2 DEF RosterInv, StrangerInside
  <2>2. live.id \notin Roster /\ v \in Silent
    BY <1>2, <1>3, <2>1 DEF Silent
  <2>3. Cardinality(Roster) + rearms >= RosterMax
    BY <2>2 DEF RosterInv, StrangerOutside
  <2> QED BY <1>4, <1>5, <2>3, TofuAssumption
<1>9. Roster' # {}
  BY <1>3, RearmLeaves DEF Rearm
<1>10. NeverEmptied' /\ Persisted'
  BY <1>9 DEF Rearm, NeverEmptied, Persisted
<1> QED BY <1>6, <1>7, <1>8, <1>10 DEF RosterInv

(* The write: an empty roster is skipped, and flash then has none either.  *)
LEMMA SaveInv ==
    ASSUME RosterInv, Save PROVE RosterInv'
<1>1. Roster' = Roster /\ Silent' = Silent
  BY DEF Save, Roster, Silent
<1>2. /\ nvs' \in Flash /\ Cardinality(nvs'.roster) <= RosterMax
      /\ Roster # {} => nvs'.roster = Roster
      /\ Roster = {} => nvs' = nvs
  <2>1. nvs \in Flash /\ Roster \subseteq Leaf
    BY RosterFacts DEF RosterInv, TypeOK
  <2>2. CASE Roster = {}
    BY <2>1, <2>2 DEF Save, Flash, RosterInv, TypeOK
  <2>3. CASE Roster # {}
    BY <2>1, <2>3 DEF Save, Flash, RosterInv, TypeOK
  <2> QED BY <2>2, <2>3
<1>3. TypeOK'
  BY <1>1, <1>2 DEF Save, RosterInv, TypeOK, worldVars
<1>4. StrangerOutside' /\ StrangerInside'
  BY <1>1 DEF Save, RosterInv, StrangerOutside, StrangerInside
<1>5. Restored' = Roster'
  BY <1>1, <1>2 DEF RosterInv, NeverEmptied, Restored
<1>6. NeverEmptied' /\ Persisted'
  BY <1>5 DEF NeverEmptied, Persisted
<1> QED BY <1>3, <1>4, <1>6 DEF RosterInv

(* Minutes go by: evidence ages, the roster stays.                         *)
LEMMA TickInv ==
    ASSUME RosterInv, Tick PROVE RosterInv'
<1>1. /\ entry' \in [Leaf -> Entry \cup {None}]
      /\ Roster' = Roster
      /\ \A k \in Roster : entry'[k].direct = entry[k].direct
  BY CounterTypes DEF Tick, Roster, RosterInv, TypeOK
<1>2. live' \in Stranger \cup {None} /\ (live' = None <=> live = None)
      /\ (live # None => live'.id = live.id)
  BY CounterTypes DEF Tick, RosterInv, TypeOK
<1>3. TypeOK'
  BY <1>1, <1>2, TofuAssumption DEF Tick, RosterInv, TypeOK, worldVars, Older
<1>4. StrangerOutside' /\ StrangerInside'
  BY <1>1, <1>2
     DEF Tick, RosterInv, StrangerOutside, StrangerInside, Silent
<1>5. NeverEmptied' /\ Persisted'
  BY <1>1, SameRoster DEF Tick
<1> QED BY <1>3, <1>4, <1>5 DEF RosterInv

(* The operator clears roster and flash together.                          *)
LEMMA ClearRosterInv ==
    ASSUME RosterInv, ClearRoster PROVE RosterInv'
<1>1. Roster' = {} /\ entry' \in [Leaf -> Entry \cup {None}]
  BY DEF ClearRoster, Roster
<1>2. Cardinality(Roster') = 0 /\ Cardinality({}) = 0
  BY <1>1, FS_EmptySet
<1>3. nvs' \in Flash /\ nvs'.roster = {} /\ nvs'.pin = None
  BY DEF ClearRoster, Flash
<1>4. TypeOK'
  BY <1>1, <1>2, <1>3, FaultBound, TofuAssumption
     DEF ClearRoster, RosterInv, TypeOK, worldVars
<1>5. StrangerOutside' /\ StrangerInside'
  BY <1>1 DEF StrangerOutside, StrangerInside, Silent
<1>6. Restored' = {}
  BY <1>3, TofuAssumption DEF Restored
<1> QED BY <1>1, <1>4, <1>5, <1>6 DEF RosterInv, NeverEmptied, Persisted

(* A reboot restores the roster from flash and starts evidence afresh.     *)
LEMMA RebootInv ==
    ASSUME RosterInv, Reboot PROVE RosterInv'
<1>1. Restored' = Restored /\ Restored \subseteq Leaf
      /\ Cardinality(Restored) <= RosterMax
  BY RestoredFacts DEF Reboot, Restored, RosterInv, TypeOK
<1>2. Roster' = Restored' /\ entry' \in [Leaf -> Entry \cup {None}]
  BY <1>1, RestoredRoster DEF Reboot, Roster
<1>3. TypeOK'
  BY <1>1, <1>2, FaultBound, TofuAssumption
     DEF Reboot, RosterInv, TypeOK, worldVars, Migrates
<1>4. StrangerOutside' /\ StrangerInside'
  BY DEF Reboot, StrangerOutside, StrangerInside
<1> QED BY <1>2, <1>3, <1>4 DEF RosterInv, NeverEmptied, Persisted

(* The world touches neither RAM nor flash.                                *)
LEMMA WorldInv ==
    ASSUME RosterInv, World PROVE RosterInv'
<1>1. UNCHANGED <<ramVars, nvs>>
  BY DEF World, GoesDeaf, HearsAgain, Joins, Departs
<1>2. Roster' = Roster /\ Silent' = Silent
  BY <1>1 DEF ramVars, Roster, Silent
<1>3. alive' \subseteq Leaf /\ deaf' \in BOOLEAN /\ faults' \in 0 .. MaxFaults
  <2>1. CASE GoesDeaf
    BY <2>1, FaultBound DEF GoesDeaf, RosterInv, TypeOK
  <2>2. CASE HearsAgain \/ \E l \in Leaf : Joins(l) \/ Departs(l)
    BY <2>2 DEF HearsAgain, Joins, Departs, RosterInv, TypeOK
  <2> QED BY <2>1, <2>2 DEF World
<1>4. TypeOK'
  BY <1>1, <1>2, <1>3 DEF ramVars, RosterInv, TypeOK
<1>5. StrangerOutside' /\ StrangerInside'
  BY <1>1, <1>2 DEF ramVars, RosterInv, StrangerOutside, StrangerInside
<1>6. NeverEmptied' /\ Persisted'
  BY <1>1, <1>2, SameRoster DEF ramVars
<1> QED BY <1>4, <1>5, <1>6 DEF RosterInv

-----------------------------------------------------------------------------
(* The theorems.                                                           *)

(* Every step keeps the invariant.                                         *)
LEMMA RosterStep == RosterInv /\ [Next]_vars => RosterInv'
<1> SUFFICES ASSUME RosterInv, [Next]_vars PROVE RosterInv'
  OBVIOUS
<1>1. CASE \E l \in Leaf : Heard(l)
  BY <1>1, MemberHeardInv, EnrolsInv, StrangerHeardInv DEF Heard
<1>2. CASE Rearm
  BY <1>2, RearmInv
<1>3. CASE Save
  BY <1>3, SaveInv
<1>4. CASE Tick
  BY <1>4, TickInv
<1>5. CASE ClearRoster
  BY <1>5, ClearRosterInv
<1>6. CASE Reboot
  BY <1>6, RebootInv
<1>7. CASE World
  BY <1>7, WorldInv
<1>8. CASE UNCHANGED vars
  BY <1>8 DEF vars, ramVars, worldVars, RosterInv, TypeOK, StrangerOutside,
              StrangerInside, NeverEmptied, Persisted, Roster, Silent, Restored
<1> QED BY <1>1, <1>2, <1>3, <1>4, <1>5, <1>6, <1>7, <1>8 DEF Next

(* The roster, the witnesses and the flash keep their types, and the       *)
(* roster never has more entries than slots.                               *)
THEOREM RosterTypes == Spec => []TypeOK
<1>1. RosterInv => TypeOK
  BY DEF RosterInv
<1> QED BY InitRoster, RosterStep, <1>1, PTL DEF Spec

(* Re-arms never empty the roster: one empty in RAM is empty in flash.     *)
THEOREM RosterNeverEmptied == Spec => []NeverEmptied
<1>1. RosterInv => NeverEmptied
  BY DEF RosterInv
<1> QED BY InitRoster, RosterStep, <1>1, PTL DEF Spec

(* With no write pending, a boot restores exactly the roster.              *)
THEOREM RosterPersisted == Spec => []Persisted
<1>1. RosterInv => Persisted
  BY DEF RosterInv
<1> QED BY InitRoster, RosterStep, <1>1, PTL DEF Spec

=============================================================================
