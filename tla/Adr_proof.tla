----------------------------- MODULE Adr_proof -----------------------------
(***************************************************************************)
(* Proofs about the radio profiles, for every family of rungs, every set   *)
(* of leaves and every setting of the leaf's counters.  What brings the    *)
(* gateway home is spread over three timers, and each assumes that the     *)
(* others are not at work: Tidy is that assumption, and is inductive.      *)
(***************************************************************************)
EXTENDS Adr, TLAPS, FiniteSetTheorems

(* Where a change may interrupt another: at most one of grant, scan and    *)
(* shepherd is at work, and each knows the rung that it will leave.        *)
Tidy(g) ==
    /\ g.nvs = g.granted
    /\ g.pending # None => /\ ~ g.scanning /\ g.shep = None
                           /\ g.prev = g.granted
    /\ g.scanning => g.granted # Base /\ g.current \in {g.granted, Base}
    /\ g.shep # None => g.granted = Base /\ Several(g)
    /\ (g.pending = None /\ ~ g.scanning /\ g.shep = None)
          => g.current = g.granted

TidyInv == TypeOK /\ Tidy(gw)

(* No rung is the code for none.                                           *)
LEMMA RungIsSome == \A p \in Profile : p # None /\ p \in Nat
BY AdrAssumption DEF Profile

-----------------------------------------------------------------------------
(* What a heard announce does to the gateway's state.                      *)

(* The announce handler keeps the gateway's state well-formed.             *)
LEMMA AnnounceType ==
    ASSUME NEW g \in Gateway, NEW l \in Leaf PROVE OnAnnounce(g, l) \in Gateway
<1> USE RungIsSome, AdrAssumption
<1> DEFINE p == Pinned(g, l)
           h == HeardOnBase(p, l)
           i == [h EXCEPT !.since = IF @ < 2 THEN @ + 1 ELSE @]
           c == Confirmed(i)
<1>1. p \in Gateway
  BY DEF Pinned, Gateway
<1>2. h \in Gateway
  <2> HIDE DEF p
  <2> QED BY <1>1 DEF HeardOnBase, Gateway
<1>3. i \in Gateway
  <2> HIDE DEF h
  <2> QED BY <1>2 DEF Gateway
<1>4. c \in Gateway
  <2> HIDE DEF i
  <2> QED BY <1>3 DEF Confirmed, Confirms, Gateway
<1>5. Adopted(c) \in Gateway
  <2> HIDE DEF c
  <2> QED BY <1>4 DEF Adopted, Armed, Gateway
<1> QED BY <1>5 DEF OnAnnounce

(* A pin makes a site of several leaves no smaller.                        *)
LEMMA PinnedSeveral ==
    ASSUME NEW g \in Gateway, NEW l \in Leaf, Several(g)
    PROVE  Cardinality(g.roster \cup {l}) > 1
<1>1. IsFiniteSet(g.roster)
  BY AdrAssumption, FS_Subset DEF Gateway
<1>2. Cardinality(g.roster) \in Nat
  BY <1>1, FS_CardinalityType
<1>3. \/ Cardinality(g.roster \cup {l}) = Cardinality(g.roster)
      \/ Cardinality(g.roster \cup {l}) = Cardinality(g.roster) + 1
  BY <1>1, FS_AddElement
<1> QED BY <1>2, <1>3 DEF Several

(* The announce handler keeps the gateway tidy.                            *)
LEMMA AnnounceTidy ==
    ASSUME NEW g \in Gateway, NEW l \in Leaf, Tidy(g)
    PROVE  Tidy(OnAnnounce(g, l))
<1> USE RungIsSome, AdrAssumption
<1> DEFINE p == Pinned(g, l)
           h == HeardOnBase(p, l)
           i == [h EXCEPT !.since = IF @ < 2 THEN @ + 1 ELSE @]
           c == Confirmed(i)
<1>1. p \in Gateway /\ Tidy(p)
  BY PinnedSeveral DEF Pinned, Gateway, Tidy, Several
<1>2. h \in Gateway /\ Tidy(h)
  <2> HIDE DEF p
  <2> QED BY <1>1 DEF HeardOnBase, Gateway, Tidy, Several
<1>3. i \in Gateway /\ Tidy(i)
  <2> HIDE DEF h
  <2> QED BY <1>2 DEF Gateway, Tidy, Several
<1>4. c \in Gateway /\ Tidy(c)
  <2> HIDE DEF i
  <2> QED BY <1>3 DEF Confirmed, Confirms, Gateway, Tidy, Several
<1>5. Tidy(Adopted(c))
  <2> HIDE DEF c
  <2> QED BY <1>4 DEF Adopted, Armed, Gateway, Tidy, Several
<1> QED BY <1>5 DEF OnAnnounce

(* So does what is decided after the announce.                             *)
LEMMA GrantTidy ==
    ASSUME NEW g \in Gateway, NEW busy \in BOOLEAN,
           NEW m \in MaybeGrant(g, busy)
    PROVE  /\ m.gw \in Gateway /\ m.sent \in Profile \cup {None}
           /\ Tidy(g) => Tidy(m.gw)
<1> USE RungIsSome, AdrAssumption
<1>1. CASE m = Silence(g)
  BY <1>1 DEF Silence
<1>2. CASE m = WalkBack(g) /\ g.pending = None /\ Several(g)
  <2> DEFINE h == [g EXCEPT !.current = Base, !.granted = Base, !.nvs = Base,
                            !.scanning = FALSE, !.since = 0]
  <2>1. h \in Gateway /\ Several(h) /\ Tidy(h)
    <3> DEFINE k == [g EXCEPT !.current = Base, !.granted = Base]
    <3>5. k \in Gateway
      BY DEF Gateway
    <3> DEFINE j == [k EXCEPT !.nvs = Base, !.scanning = FALSE]
    <3>6. j \in Gateway
      <4> HIDE DEF k
      <4> QED BY <3>5 DEF Gateway
    <3>7. h = [j EXCEPT !.since = 0]
      BY DEF Gateway
    <3>1. h \in Gateway
      <4> HIDE DEF j, h
      <4> QED BY <3>6, <3>7 DEF Gateway
    <3>2. h.roster = g.roster /\ h.shep = g.shep /\ h.pending = None
      BY <1>2 DEF Gateway
    <3>3. h.granted = Base /\ h.nvs = Base /\ h.current = Base /\ ~ h.scanning
      BY DEF Gateway
    <3>4. Several(h)
      BY <1>2, <3>2 DEF Several
    <3> QED BY <3>1, <3>2, <3>3, <3>4 DEF Tidy
  <2>2. ASSUME g.granted # Base, g.shep = None
        PROVE  Armed(h, g.granted) \in Gateway /\ Tidy(Armed(h, g.granted))
    <3> HIDE DEF h
    <3>1. /\ h.pending = None /\ h.granted = Base
          /\ h.current = Base /\ ~ h.scanning
      BY <1>2 DEF h, Gateway
    <3>2. g.granted \in Profile
      BY DEF Gateway
    <3> QED BY <2>1, <3>1, <3>2 DEF Armed, Gateway, Tidy, Several
  <2> QED BY <1>2, <2>1, <2>2 DEF WalkBack
<1>3. CASE m = Keepalive(g)
  BY <1>3 DEF Keepalive, Gateway, Tidy, Several
<1>4. ASSUME NEW q \in Neighbours(g.current), m = Shift(g, q),
             g.pending = None, ~ g.scanning, ~ Several(g)
      PROVE  /\ m.gw \in Gateway /\ m.sent \in Profile \cup {None}
             /\ Tidy(g) => Tidy(m.gw)
  <2>1. q \in Profile /\ m.sent = q
    BY <1>4 DEF Neighbours, Shift
  <2>2. m.gw \in Gateway
    <3>1. g.current \in Profile /\ 0 \in 0 .. 2
      BY DEF Gateway
    <3>2. m.gw = [g EXCEPT !.pending = q, !.prev = g.current, !.current = q,
                           !.since = 0]
      BY <1>4 DEF Shift
    <3> QED BY <2>1, <3>1, <3>2 DEF Gateway
  <2>3. ASSUME Tidy(g) PROVE Tidy(m.gw)
    <3>1. g.shep = None /\ g.current = g.granted
      BY <1>4, <2>3 DEF Tidy
    <3> QED BY <1>4, <2>1, <2>3, <3>1 DEF Shift, Gateway, Tidy
  <2> QED BY <2>1, <2>2, <2>3
<1> QED BY <1>1, <1>2, <1>3, <1>4 DEF MaybeGrant

-----------------------------------------------------------------------------
(* The leaf's record.                                                      *)

(* The sweep stays inside the family.                                      *)
LEMMA SweptInFamily ==
    ASSUME NEW step \in 0 .. 2 * Rungs
    PROVE  Swept(step) \in Profile /\ NextStep(step) \in 0 .. 2 * Rungs
<1> USE AdrAssumption
<1>1. Rungs \in Nat
  BY DEF Rungs, Profile
<1>2. CASE Rungs = 0
  BY <1>2 DEF Swept, NextStep
<1>3. CASE Rungs # 0
  <2> DEFINE w == (step \div 2) % Rungs
  <2>1. w \in 0 .. Rungs - 1
    BY <1>1, <1>3
  <2>2. Swept(step) \in Profile
    <3> HIDE DEF w
    <3> DEFINE p == Max - w
    <3>1. p \in Min + 1 .. Max
      BY <2>1 DEF Rungs, Profile
    <3>2. Swept(step) \in {Base, p, p - 1}
      BY Zenon DEF Swept, w, p
    <3> QED BY <3>1, <3>2 DEF Profile
  <2>3. NextStep(step) \in 0 .. 2 * Rungs
    BY <1>1, <1>3 DEF NextStep
  <2> QED BY <2>2, <2>3
<1> QED BY <1>2, <1>3

(* A wake begins, and ends, with a well-formed record.                     *)
LEMMA WakeBeginType ==
    ASSUME NEW r \in LeafState, NEW timer \in BOOLEAN
    PROVE  WakeBegin(r, timer) \in LeafState
<1> USE AdrAssumption
<1> DEFINE up == [r EXCEPT !.awake = TRUE, !.contact = FALSE, !.stash = None]
<1>1. up \in LeafState
  BY DEF LeafState
<1>2. Swept(r.step) \in Profile /\ NextStep(r.step) \in 0 .. 2 * Rungs
  BY SweptInFamily DEF LeafState
<1> DEFINE b == [up EXCEPT !.profile = Base, !.due = FALSE, !.silent = 0,
                           !.tuned = Base]
           s == [up EXCEPT !.tuned = Swept(r.step), !.step = NextStep(r.step)]
           t == [up EXCEPT !.tuned = r.profile]
<1>3. WakeBegin(r, timer) \in {b, s, t}
  BY Zenon DEF WakeBegin
<1>4. b \in LeafState /\ t \in LeafState
  <2>1. r.profile \in Profile /\ 0 \in 0 .. SilentMax /\ Base \in Profile
    BY DEF LeafState
  <2> DEFINE k == [up EXCEPT !.profile = Base, !.due = FALSE]
  <2> HIDE DEF up
  <2>2. k \in LeafState /\ t \in LeafState
    BY <1>1, <2>1 DEF LeafState
  <2>3. b = [k EXCEPT !.silent = 0, !.tuned = Base]
    BY <1>1 DEF LeafState
  <2> HIDE DEF k
  <2>4. [k EXCEPT !.silent = 0, !.tuned = Base] \in LeafState
    BY <2>1, <2>2 DEF LeafState
  <2> QED BY <2>2, <2>3, <2>4
<1>5. s \in LeafState
  <2> HIDE DEF up
  <2> QED BY <1>1, <1>2 DEF LeafState
<1> QED BY <1>3, <1>4, <1>5

(* Falling asleep counts within bounds; moving takes the granted rung.     *)
LEMMA AsleepType ==
    ASSUME NEW r \in LeafState
    PROVE  Asleep(r) \in LeafState
<1> USE AdrAssumption
<1> DEFINE s == [r EXCEPT
                !.awake = FALSE, !.contact = FALSE, !.stash = None,
                !.tuned = Base,
                !.silent = IF r.profile = Base THEN @
                           ELSE IF r.contact THEN 0
                           ELSE IF @ < SilentMax THEN @ + 1 ELSE @]
<1>1. s \in LeafState /\ s.orphan = r.orphan
  <2> DEFINE k == [r EXCEPT !.awake = FALSE, !.contact = FALSE, !.stash = None]
             n == IF r.profile = Base THEN r.silent
                  ELSE IF r.contact THEN 0
                  ELSE IF r.silent < SilentMax THEN r.silent + 1 ELSE r.silent
  <2>1. n \in 0 .. SilentMax /\ Base \in Profile
    BY DEF LeafState
  <2>2. k \in LeafState /\ k.orphan = r.orphan
    BY DEF LeafState
  <2>3. s = [k EXCEPT !.tuned = Base, !.silent = n]
    BY DEF LeafState
  <2> HIDE DEF k, n, s
  <2> QED BY <2>1, <2>2, <2>3 DEF LeafState
<1>2. CASE r.contact
  <2>1. Asleep(r) = [s EXCEPT !.ever = TRUE, !.orphan = 0, !.step = 0]
    BY <1>2 DEF Asleep
  <2>2. 0 \in 0 .. SweepAfter /\ 0 \in 0 .. 2 * Rungs
    BY DEF Rungs, Profile
  <2> HIDE DEF s
  <2> QED BY <1>1, <2>1, <2>2 DEF LeafState
<1>3. CASE ~ r.contact /\ ~ r.ever /\ r.orphan < SweepAfter
  <2>1. Asleep(r) = [s EXCEPT !.orphan = @ + 1]
    BY <1>3 DEF Asleep
  <2>2. r.orphan + 1 \in 0 .. SweepAfter
    BY <1>3 DEF LeafState
  <2> HIDE DEF s
  <2> QED BY <1>1, <2>1, <2>2 DEF LeafState
<1>4. CASE ~ r.contact /\ ~ (~ r.ever /\ r.orphan < SweepAfter)
  <2>1. Asleep(r) = s
    BY <1>4 DEF Asleep
  <2> QED BY <1>1, <2>1
<1> QED BY <1>2, <1>3, <1>4

(* A leaf that moves to its stashed profile stays well-formed.             *)
LEMMA MovedType ==
    ASSUME NEW r \in LeafState, r.stash # None
    PROVE  Moved(r) \in LeafState
<1>1. r.stash \in Profile /\ 0 \in 0 .. SilentMax
  BY AdrAssumption DEF LeafState
<1> QED BY <1>1 DEF Moved, LeafState
-----------------------------------------------------------------------------
(* Types, and what the leaf may bring about.                               *)

USE DEF TypeOK

(* A leaf's action replaces its own record by a well-formed one.           *)
LEMMA SetType ==
    ASSUME TypeOK, NEW l \in Leaf, NEW r \in LeafState, Set(l, r)
    PROVE  lf' \in [Leaf -> LeafState]
BY DEF Set

(* The initial state is well-formed and tidy.                              *)
LEMMA InitTidy == Init => TidyInv
<1> SUFFICES ASSUME Init PROVE TidyInv
  OBVIOUS
<1> USE AdrAssumption, RungIsSome
<1>1. PoweredUp \in LeafState
  BY DEF PoweredUp, LeafState, Rungs, Profile
<1>2. gw \in Gateway
  BY DEF Init, Booted, Gateway
<1>3. Tidy(gw)
  BY DEF Init, Booted, Tidy
<1> QED BY <1>1, <1>2, <1>3 DEF Init, TidyInv

(* A wake keeps the types, and leaves the gateway tidy.                    *)
LEMMA WakeStep ==
    ASSUME TypeOK, NEW l \in Leaf, NEW timer \in BOOLEAN, Wake(l, timer)
    PROVE  TypeOK' /\ (Tidy(gw) => Tidy(gw'))
<1> DEFINE r == WakeBegin(lf[l], timer)
<1>1. r \in LeafState
  BY WakeBeginType
<1> HIDE DEF r
<1>2. \A c \in BOOLEAN : [r EXCEPT !.contact = c] \in LeafState
  BY <1>1 DEF LeafState
<1>3. CASE WakeHeard(l, timer)
  <2>1. PICK busy \in BOOLEAN :
           \E m \in MaybeGrant(OnAnnounce(gw, l), busy) :
             /\ gw' = m.gw
             /\ \E a \in Reply(m.sent, TRUE) :
                  Set(l, [r EXCEPT !.stash = a.stash, !.contact = a.contact])
    BY <1>3 DEF WakeHeard, r
  <2>2. PICK m \in MaybeGrant(OnAnnounce(gw, l), busy) :
             /\ gw' = m.gw
             /\ \E a \in Reply(m.sent, TRUE) :
                  Set(l, [r EXCEPT !.stash = a.stash, !.contact = a.contact])
    BY <2>1
  <2>3. PICK a \in Reply(m.sent, TRUE) :
             Set(l, [r EXCEPT !.stash = a.stash, !.contact = a.contact])
    BY <2>2
  <2>4. OnAnnounce(gw, l) \in Gateway
    BY AnnounceType
  <2>5. gw' \in Gateway /\ m.sent \in Profile \cup {None}
    BY <2>2, <2>4, GrantTidy
  <2>6. Tidy(gw) => Tidy(gw')
    BY <2>2, <2>4, GrantTidy, AnnounceTidy
  <2>7. a.stash \in Profile \cup {None} /\ a.contact \in BOOLEAN
    <3>1. \/ a = [stash |-> None, contact |-> FALSE]
          \/ a = [stash |-> None, contact |-> TRUE]
          \/ m.sent # None /\ a = [stash |-> m.sent, contact |-> TRUE]
      BY Zenon DEF Reply
    <3>2. \A s, c : /\ [stash |-> s, contact |-> c].stash = s
                    /\ [stash |-> s, contact |-> c].contact = c
      OBVIOUS
    <3>3. CASE a = [stash |-> None, contact |-> FALSE]
      BY <3>2, <3>3
    <3>4. CASE a = [stash |-> None, contact |-> TRUE]
      BY <3>2, <3>4
    <3>5. CASE m.sent # None /\ a = [stash |-> m.sent, contact |-> TRUE]
      BY <2>5, <3>2, <3>5
    <3> QED BY <3>1, <3>3, <3>4, <3>5
  <2>8. [r EXCEPT !.stash = a.stash, !.contact = a.contact] \in LeafState
    BY <1>1, <2>7 DEF LeafState
  <2>9. lf' \in [Leaf -> LeafState]
    BY <2>3, <2>8, SetType
  <2> QED BY <1>3, <2>5, <2>6, <2>9 DEF WakeHeard
<1>4. CASE WakeUnheard(l, timer)
  <2>1. PICK c \in BOOLEAN : Set(l, [r EXCEPT !.contact = c])
    BY <1>4 DEF WakeUnheard, r
  <2>2. lf' \in [Leaf -> LeafState]
    BY <1>2, <2>1, SetType
  <2> QED BY <1>4, <2>2 DEF WakeUnheard
<1>5. CASE WakeRelayed(l, timer)
  <2>1. Set(l, [r EXCEPT !.contact = TRUE])
    BY <1>5 DEF WakeRelayed, r
  <2>2. lf' \in [Leaf -> LeafState]
    BY <1>2, <2>1, SetType
  <2> QED BY <1>5, <2>2 DEF WakeRelayed
<1> QED BY <1>3, <1>4, <1>5 DEF Wake

(* So does the end of a window.                                            *)
LEMMA WindowStep ==
    ASSUME TypeOK, NEW l \in Leaf, WindowCloses(l)
    PROVE  TypeOK' /\ (Tidy(gw) => Tidy(gw'))
<1>1. Asleep(lf[l]) \in LeafState
  BY AsleepType
<1>2. lf[l].stash # None => Asleep(Moved(lf[l])) \in LeafState
  BY AsleepType, MovedType
<1>3. CASE SleepQuietly(l)
  <2>1. lf' \in [Leaf -> LeafState]
    BY <1>1, <1>2, <1>3, SetType DEF SleepQuietly
  <2> QED BY <1>3, <2>1 DEF SleepQuietly
<1>4. CASE ConfirmLost(l)
  <2>1. lf' \in [Leaf -> LeafState]
    BY <1>2, <1>4, SetType DEF ConfirmLost, Confirming
  <2> QED BY <1>4, <2>1 DEF ConfirmLost
<1>5. CASE ConfirmHeard(l)
  <2>1. lf' \in [Leaf -> LeafState]
    BY <1>2, <1>5, SetType DEF ConfirmHeard, Confirming
  <2>2. PICK busy \in BOOLEAN :
           \E m \in MaybeGrant(OnAnnounce(gw, l), busy) : gw' = m.gw
    BY <1>5 DEF ConfirmHeard
  <2>3. PICK m \in MaybeGrant(OnAnnounce(gw, l), busy) : gw' = m.gw
    BY <2>2
  <2>4. OnAnnounce(gw, l) \in Gateway
    BY AnnounceType
  <2>5. gw' \in Gateway /\ (Tidy(gw) => Tidy(gw'))
    BY <2>3, <2>4, GrantTidy, AnnounceTidy
  <2> QED BY <1>5, <2>1, <2>5 DEF ConfirmHeard
<1> QED BY <1>3, <1>4, <1>5 DEF WindowCloses
-----------------------------------------------------------------------------
(* The gateway's own steps.                                                *)

(* Each of the timers, the operator and a reboot keep the types.           *)
LEMMA GatewayTypeStep ==
    ASSUME TypeOK,
           \/ RfLoop \/ RfBase \/ HoldEnds \/ RosterShrinks \/ Reboot
           \/ \E l \in Leaf : GraceOver(l)
    PROVE  TypeOK'
<1> USE AdrAssumption, RungIsSome
<1>0. /\ gw.current \in Profile /\ gw.granted \in Profile
      /\ gw.prev \in Profile /\ gw.nvs \in Profile
      /\ gw.roster \subseteq Leaf /\ gw.shep \in Profile \cup {None}
  BY DEF Gateway
<1>1. CASE ConfirmTimeout
  BY <1>0, <1>1 DEF ConfirmTimeout, Gateway
<1>2. CASE FallsQuiet
  BY <1>2 DEF FallsQuiet
<1>3. CASE ScanToggle
  BY <1>0, <1>3 DEF ScanToggle, Gateway
<1>4. CASE ShepherdEnd
  BY <1>4 DEF ShepherdEnd, Gateway
<1>5. CASE ShepherdToggle
  <2>1. gw.shep \in Profile
    BY <1>0, <1>5 DEF ShepherdToggle
  <2> QED BY <1>5, <2>1 DEF ShepherdToggle, Gateway
<1>6. CASE RfBase
  <2> DEFINE k == [gw EXCEPT !.current = Base, !.granted = Base, !.nvs = Base]
  <2>1. k \in Gateway
    BY DEF Gateway
  <2>2. gw' = [k EXCEPT !.pending = None, !.scanning = FALSE]
    BY <1>6 DEF RfBase, Gateway
  <2>3. gw' \in Gateway
    <3> HIDE DEF k
    <3> QED BY <2>1, <2>2 DEF Gateway
  <2> QED BY <1>6, <2>3 DEF RfBase
<1>7. CASE HoldEnds
  BY <1>7 DEF HoldEnds
<1>8. CASE RosterShrinks
  BY <1>8 DEF RosterShrinks, Gateway
<1>9. CASE Reboot
  <2>1. gw' \in Gateway
    BY <1>0, <1>9 DEF Reboot, Booted, Gateway
  <2> QED BY <1>9, <2>1 DEF Reboot
<1>10. CASE \E l \in Leaf : GraceOver(l)
  BY <1>10 DEF GraceOver, Gateway
<1> QED BY <1>1, <1>2, <1>3, <1>4, <1>5, <1>6, <1>7, <1>8, <1>9, <1>10
        DEF RfLoop

(* They leave the gateway tidy, if pins are not dropped mid-sweep.         *)
LEMMA GatewayTidyStep ==
    ASSUME TypeOK, ~ MidSweep, Tidy(gw),
           \/ RfLoop \/ RfBase \/ HoldEnds \/ RosterShrinks \/ Reboot
           \/ \E l \in Leaf : GraceOver(l)
    PROVE  Tidy(gw')
<1> USE AdrAssumption, RungIsSome
<1>1. CASE ConfirmTimeout
  BY <1>1 DEF ConfirmTimeout, Gateway, Tidy, Several
<1>2. CASE FallsQuiet
  BY <1>2 DEF FallsQuiet
<1>3. CASE ScanToggle
  BY <1>3 DEF ScanToggle, Gateway, Tidy, Several
<1>4. CASE ShepherdEnd
  BY <1>4 DEF ShepherdEnd, Gateway, Tidy, Several
<1>5. CASE ShepherdToggle
  BY <1>5 DEF ShepherdToggle, Gateway, Tidy, Several
<1>6. CASE RfBase
  BY <1>6 DEF RfBase, Gateway, Tidy, Several
<1>7. CASE HoldEnds
  BY <1>7 DEF HoldEnds
<1>8. CASE RosterShrinks
  BY <1>8 DEF RosterShrinks, Gateway, Tidy, Several
<1>9. CASE Reboot
  BY <1>9 DEF Reboot, Booted, Tidy
<1>10. CASE \E l \in Leaf : GraceOver(l)
  BY <1>10 DEF GraceOver, Gateway, Tidy, Several
<1> QED BY <1>1, <1>2, <1>3, <1>4, <1>5, <1>6, <1>7, <1>8, <1>9, <1>10
        DEF RfLoop

-----------------------------------------------------------------------------
(* Theorems.                                                               *)

(* Every step keeps the types.                                             *)
LEMMA TypeStep == TypeOK /\ [Next]_vars => TypeOK'
<1> SUFFICES ASSUME TypeOK, [Next]_vars PROVE TypeOK'
  OBVIOUS
<1>1. ASSUME NEW l \in Leaf, GrantExpires(l) \/ LeafPowerLoss(l) PROVE TypeOK'
  <2>1. PoweredUp \in LeafState
    BY AdrAssumption DEF PoweredUp, LeafState, Rungs, Profile
  <2>3. [lf[l] EXCEPT !.due = TRUE] \in LeafState
    BY DEF LeafState
  <2>2. lf' \in [Leaf -> LeafState]
    BY <1>1, <2>1, <2>3, SetType DEF GrantExpires, LeafPowerLoss
  <2> QED BY <1>1, <2>2 DEF GrantExpires, LeafPowerLoss
<1>2. CASE UNCHANGED vars
  BY <1>2 DEF vars
<1> QED
  BY <1>1, <1>2, WakeStep, WindowStep, GatewayTypeStep
  DEF Next, Course, Disturbance

(* Every variable keeps its type, for every family of rungs.               *)
THEOREM TypeCorrect == Spec => []TypeOK
<1>1. Init => TypeOK
  BY InitTidy DEF TidyInv
<1> QED BY <1>1, TypeStep, PTL DEF Spec

(* Every step leaves the gateway tidy.                                     *)
LEMMA TidyStep == ~ MidSweep /\ TidyInv /\ [Next]_vars => TidyInv'
<1> SUFFICES ASSUME ~ MidSweep, TypeOK, Tidy(gw), [Next]_vars
             PROVE  TypeOK' /\ Tidy(gw')
  BY DEF TidyInv
<1>1. TypeOK'
  BY TypeStep
<1>2. ASSUME NEW l \in Leaf, GrantExpires(l) \/ LeafPowerLoss(l)
      PROVE  Tidy(gw')
  BY <1>2 DEF GrantExpires, LeafPowerLoss
<1>3. CASE UNCHANGED vars
  BY <1>3 DEF vars
<1>4. Tidy(gw')
  BY <1>2, <1>3, WakeStep, WindowStep, GatewayTidyStep
  DEF Next, Course, Disturbance
<1> QED BY <1>1, <1>4

(* At most one of grant, scan and shepherd is at work at a time.           *)
THEOREM AlwaysTidy == ASSUME ~ MidSweep PROVE Spec => []TidyInv
<1>1. TidyInv /\ [Next]_vars => TidyInv'
  BY TidyStep
<1> QED BY InitTidy, <1>1, PTL DEF Spec

(* No camp off base without a timer that ends it.                          *)
THEOREM ComesHome == ASSUME ~ MidSweep PROVE Spec => []WayBack
<1>1. TidyInv => WayBack
  BY DEF TidyInv, Tidy, WayBack
<1> QED BY <1>1, AlwaysTidy, PTL

(* With nothing in flight the radio is on the rung the gateway believes in. *)
THEOREM BelievesItsRadio == ASSUME ~ MidSweep PROVE Spec => []Settled
<1>1. TidyInv => Settled
  BY DEF TidyInv, Tidy, Settled
<1> QED BY <1>1, AlwaysTidy, PTL

(* A reboot finds the rung the gateway believes in.                        *)
THEOREM FlashTruthful == ASSUME ~ MidSweep PROVE Spec => []PersistedIsGranted
<1>1. TidyInv => PersistedIsGranted
  BY DEF TidyInv, Tidy, PersistedIsGranted
<1> QED BY <1>1, AlwaysTidy, PTL
=============================================================================
