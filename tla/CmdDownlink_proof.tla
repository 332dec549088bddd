-------------------------- MODULE CmdDownlink_proof ------------------------
(***************************************************************************)
(* Proofs about a leaf's commands and about the leaf that carries them     *)
(* out.  CmdDownlink, for any number of leaves, commands, slots and power  *)
(* cuts: what the server takes off its list was in the hands of the leaf   *)
(* it is for, the whole refines a mailbox, and nothing received vanishes   *)
(* but by a cut of the leaf that had it.  LeafWake, for any cards, ring,   *)
(* shots and faults: what it serves is whole, what it formats was          *)
(* unreadable or exchanged meanwhile, its rails rest, and its ring keeps   *)
(* the newest.                                                             *)
(***************************************************************************)
EXTENDS CmdDownlink, LeafWake, SequenceTheorems, FiniteSetTheorems, TLAPS

(* A cell that is used has a command.                                      *)
CellsUsed == \A k \in 1 .. Slots : cell[k].used => cell[k].cmd \in Cmd

(* Whatever waits at a leaf is that leaf's, and it has been held; so has   *)
(* whatever an ack is queued for.                                          *)
InboxHeld ==
    \A l \in Leaf, i \in Nat :
       i \in DOMAIN inbox[l] => inbox[l][i] \in held /\ For(l, inbox[l][i])

AcksHeld == \A i \in DOMAIN acks : acks[i] \in held

DownlinkInv == TypeOK /\ CellsUsed /\ InboxHeld /\ AcksHeld /\ ReceiptHonest

-----------------------------------------------------------------------------
(* Sequences.                                                              *)

(* What is kept of a sequence comes from it.                               *)
LEMMA KeptFacts ==
    ASSUME NEW S, NEW s \in Seq(S), NEW n \in Nat
    PROVE  /\ Kept(s, n) \in Seq(S) /\ Len(Kept(s, n)) <= n
           /\ DOMAIN Kept(s, n) \subseteq DOMAIN s
           /\ \A i \in DOMAIN Kept(s, n) : Kept(s, n)[i] = s[i]
<1>1. CASE Len(s) <= n
  BY <1>1 DEF Kept
<1>2. CASE ~ (Len(s) <= n)
  <2>1. Kept(s, n) = SubSeq(s, 1, n) /\ n \in 0 .. Len(s) /\ Len(s) \in Nat
    BY <1>2 DEF Kept
  <2>2. /\ SubSeq(s, 1, n) \in Seq(S)
        /\ Len(SubSeq(s, 1, n)) = n
        /\ \A i \in 1 .. n : SubSeq(s, 1, n)[i] = s[i]
    BY <2>1
  <2> QED BY <2>1, <2>2
<1> QED BY <1>1, <1>2

\* Every item of one sequence followed by another is an item of one of them.
FromEither(s, t) ==
    \A i \in DOMAIN (s \o t) : \/ \E j \in DOMAIN s : (s \o t)[i] = s[j]
                              \/ \E j \in DOMAIN t : (s \o t)[i] = t[j]

(* Two sequences one after the other hold what either holds.               *)
LEMMA ConcatFacts ==
    ASSUME NEW S, NEW s \in Seq(S), NEW t \in Seq(S)
    PROVE  /\ s \o t \in Seq(S)
           /\ Len(s \o t) = Len(s) + Len(t)
           /\ FromEither(s, t)
<1>1. s \o t \in Seq(S) /\ Len(s \o t) = Len(s) + Len(t)
  OBVIOUS
<1>2. ASSUME NEW i \in DOMAIN (s \o t)
      PROVE  \/ \E j \in DOMAIN s : (s \o t)[i] = s[j]
             \/ \E j \in DOMAIN t : (s \o t)[i] = t[j]
  <2>1. i \in 1 .. Len(s) + Len(t) /\ Len(s) \in Nat /\ Len(t) \in Nat
    BY <1>1, <1>2
  <2>2. CASE i <= Len(s)
    BY <2>1, <2>2
  <2>3. CASE ~ (i <= Len(s))
    <3>1. i - Len(s) \in DOMAIN t /\ (s \o t)[i] = t[i - Len(s)]
      BY <2>1, <2>3
    <3> QED BY <3>1
  <2> QED BY <2>2, <2>3
<1> QED BY <1>1, <1>2 DEF FromEither

-----------------------------------------------------------------------------
(* The start.                                                              *)

(* The invariant holds at the start.                                       *)
LEMMA InitInv == Init => DownlinkInv
<1> SUFFICES ASSUME Init PROVE DownlinkInv
  OBVIOUS
<1> USE CmdAssumption
<1>1. TypeOK
  BY DEF Init, TypeOK, SlotsOK, Standing, Cell, Empty
<1>2. CellsUsed /\ InboxHeld /\ AcksHeld /\ ReceiptHonest
  BY DEF Init, CellsUsed, InboxHeld, AcksHeld, ReceiptHonest, Empty
<1> QED BY <1>1, <1>2 DEF DownlinkInv

-----------------------------------------------------------------------------
(* The server and the gateway.                                             *)

(* The server lists a command or lets it expire: neither needs it held.    *)
LEMMA ServerInv ==
    ASSUME DownlinkInv, NEW c \in Cmd, Post(c) \/ Expire(c)
    PROVE  DownlinkInv'
<1>1. /\ srv' = [srv EXCEPT ![c] = IF Post(c) THEN "open" ELSE "expired"]
      /\ UNCHANGED <<gateway, leaf, history, cuts>>
  BY DEF Post, Expire
<1>2. TypeOK'
  BY <1>1 DEF DownlinkInv, TypeOK, SlotsOK, Standing, gateway, leaf, history
<1>3. (CellsUsed /\ InboxHeld /\ AcksHeld)'
  BY <1>1 DEF DownlinkInv, CellsUsed, InboxHeld, AcksHeld, gateway, leaf, history
<1>4. ReceiptHonest'
  BY <1>1 DEF DownlinkInv, TypeOK, ReceiptHonest, history
<1> QED BY <1>2, <1>3, <1>4 DEF DownlinkInv

(* A listed command is a command.                                          *)
LEMMA ListedFacts ==
    ASSUME cell \in [1 .. Slots -> Cell], NEW k \in 1 .. Slots
    PROVE  Listed(k) \in Cell /\ (Listed(k).used => Listed(k).cmd \in Cmd)
<1>1. CASE Offered(k) # {}
  <2>1. PICK c \in Cmd :
          Listed(k) = [cmd |-> c, used |-> TRUE, hot |-> KeptHot(c, k)]
    BY <1>1 DEF Listed, Offered, Fitting, Open
  <2>2. KeptHot(c, k) \in BOOLEAN
    BY DEF KeptHot
  <2> QED BY <2>1, <2>2 DEF Cell
<1>2. CASE Offered(k) = {}
  <2>1. Listed(k) = [cell[k] EXCEPT !.used = FALSE]
    BY <1>2 DEF Listed
  <2> QED BY <2>1 DEF Cell
<1> QED BY <1>1, <1>2

(* A poll fills the cells from what is listed, and nothing else changes.   *)
LEMMA PollInv == ASSUME DownlinkInv, Poll PROVE DownlinkInv'
<1>1. /\ cell' = [k \in 1 .. Slots |-> Listed(k)]
      /\ UNCHANGED <<srv, heard, acks, leaf, history, cuts>>
  BY DEF Poll
<1>2. cell' \in [1 .. Slots -> Cell] /\ CellsUsed'
  BY <1>1, ListedFacts DEF DownlinkInv, TypeOK, CellsUsed
<1>3. TypeOK'
  BY <1>1, <1>2 DEF DownlinkInv, TypeOK, SlotsOK, leaf, history
<1>4. (InboxHeld /\ AcksHeld /\ ReceiptHonest)'
  BY <1>1 DEF DownlinkInv, InboxHeld, AcksHeld, ReceiptHonest, leaf, history
<1> QED BY <1>2, <1>3, <1>4 DEF DownlinkInv

(* The suppression of a cell runs out; the cell keeps its command.         *)
LEMMA LapseInv == ASSUME DownlinkInv, NEW k \in 1 .. Slots, Lapse(k) PROVE DownlinkInv'
<1>1. /\ cell' = [cell EXCEPT ![k].hot = FALSE]
      /\ UNCHANGED <<srv, heard, acks, leaf, history, cuts>>
  BY DEF Lapse
<1>2. cell' \in [1 .. Slots -> Cell] /\ CellsUsed'
  BY <1>1 DEF DownlinkInv, TypeOK, CellsUsed, Cell
<1>3. TypeOK'
  BY <1>1, <1>2 DEF DownlinkInv, TypeOK, SlotsOK, leaf, history
<1>4. (InboxHeld /\ AcksHeld /\ ReceiptHonest)'
  BY <1>1 DEF DownlinkInv, InboxHeld, AcksHeld, ReceiptHonest, leaf, history
<1> QED BY <1>2, <1>3, <1>4 DEF DownlinkInv

(* What is due to a leaf is a command for that leaf.                       *)
LEMMA DueFacts ==
    ASSUME DownlinkInv, NEW l \in Leaf, NEW k \in 1 .. Slots, Due(l, k)
    PROVE  cell[k].cmd \in Cmd /\ For(l, cell[k].cmd)
<1>1. cell[k].cmd \in Cmd /\ Routed(l, cell[k].cmd)
  BY DEF Due, DownlinkInv, CellsUsed
<1> QED BY <1>1 DEF Routed

(* What a delivery puts into a leaf's slots was due to that leaf, and is   *)
(* held from then on; the slots are not overfilled.                        *)
LEMMA DeliverInv ==
    ASSUME DownlinkInv, NEW l \in Leaf, NEW p \in Arrivals, Deliver(l, p)
    PROVE  DownlinkInv'
<1> USE CmdAssumption
<1>1. PICK n \in 0 .. LeafSlots : p \in [1 .. n -> 1 .. Slots]
  BY DEF Arrivals
<1> DEFINE packets == [i \in DOMAIN p |-> cell[p[i]].cmd]
<1>2. \A i \in DOMAIN p : p[i] \in 1 .. Slots /\ Due(l, p[i])
  BY <1>1 DEF Deliver
<1>3. \A i \in DOMAIN p : cell[p[i]].cmd \in Cmd /\ For(l, cell[p[i]].cmd)
  BY <1>2, DueFacts
<1>4. packets \in Seq(Cmd) /\ Len(packets) = n /\ DOMAIN packets = 1 .. n
  BY <1>1, <1>3
<1>5. \A i \in DOMAIN packets : packets[i] \in Cmd /\ For(l, packets[i])
  BY <1>3
<1>6. /\ heard' \subseteq heard
      /\ cell' = [k \in 1 .. Slots |->
                    IF Due(l, k) THEN [cell[k] EXCEPT !.hot = TRUE] ELSE cell[k]]
      /\ inbox' = [inbox EXCEPT ![l] = @ \o packets]
      /\ held' = held \cup Owned(l, packets)
      /\ p # <<>> => phase[l] # "away" /\ Len(inbox[l]) + n <= LeafSlots
      /\ UNCHANGED <<srv, acks, phase, done, ran, lost, cuts>>
  <2>1. p # <<>> => phase[l] # "away" /\ Len(inbox[l]) + Len(p) <= LeafSlots
    BY DEF Deliver
  <2>2. Len(p) = n
    BY <1>1
  <2> QED BY <2>1, <2>2 DEF Deliver
<1> HIDE DEF packets
<1>7. cell' \in [1 .. Slots -> Cell] /\ CellsUsed'
  <2>1. cell \in [1 .. Slots -> Cell] /\ CellsUsed
    BY DEF DownlinkInv, TypeOK
  <2>2. \A k \in 1 .. Slots :
           /\ cell'[k] \in Cell
           /\ cell'[k].used = cell[k].used /\ cell'[k].cmd = cell[k].cmd
    BY <1>6, <2>1 DEF Cell
  <2>3. cell' \in [1 .. Slots -> Cell]
    BY <1>6, <2>2
  <2> QED BY <2>1, <2>2, <2>3 DEF CellsUsed
<1>8. \A i \in DOMAIN packets : packets[i] \in held'
  BY <1>5, <1>6 DEF Owned, Elements
<1>9. held \subseteq held' /\ held' \subseteq Cmd
  BY <1>5, <1>6 DEF DownlinkInv, TypeOK, Owned, Elements
<1>10. inbox[l] \in Seq(Cmd) /\ inbox \in [Leaf -> Seq(Cmd)]
  BY DEF DownlinkInv, TypeOK
<1>11. /\ inbox[l] \o packets \in Seq(Cmd)
       /\ Len(inbox[l] \o packets) = Len(inbox[l]) + n
       /\ \A i \in DOMAIN (inbox[l] \o packets) :
             \/ \E j \in DOMAIN inbox[l] : (inbox[l] \o packets)[i] = inbox[l][j]
             \/ \E j \in DOMAIN packets : (inbox[l] \o packets)[i] = packets[j]
  <2>1. packets \in Seq(Cmd) /\ inbox[l] \in Seq(Cmd)
    BY <1>4, <1>10
  <2>2. /\ inbox[l] \o packets \in Seq(Cmd)
        /\ Len(inbox[l] \o packets) = Len(inbox[l]) + Len(packets)
        /\ FromEither(inbox[l], packets)
    BY <2>1, ConcatFacts, Zenon
  <2> QED BY <2>2, <1>4 DEF FromEither
<1>12. /\ inbox' \in [Leaf -> Seq(Cmd)] /\ inbox'[l] = inbox[l] \o packets
       /\ \A m \in Leaf : m # l => inbox'[m] = inbox[m]
  BY <1>6, <1>10, <1>11
<1>13. InboxHeld'
  <2> SUFFICES ASSUME NEW m \in Leaf, NEW i \in Nat, i \in DOMAIN inbox'[m]
               PROVE  inbox'[m][i] \in held' /\ For(m, inbox'[m][i])
    BY DEF InboxHeld
  <2>1. CASE m # l
    BY <2>1, <1>9, <1>12 DEF DownlinkInv, InboxHeld
  <2>2. CASE m = l
    <3>1. CASE \E j \in DOMAIN packets : inbox'[l][i] = packets[j]
      BY <2>2, <3>1, <1>5, <1>8
    <3>2. CASE \E j \in DOMAIN inbox[l] : inbox'[l][i] = inbox[l][j]
      <4>1. PICK j \in DOMAIN inbox[l] : inbox'[l][i] = inbox[l][j]
        BY <3>2
      <4>2. j \in Nat
        BY <1>10
      <4> QED BY <4>1, <4>2, <2>2, <1>9 DEF DownlinkInv, InboxHeld
    <3> QED BY <2>2, <3>1, <3>2, <1>11, <1>12
  <2> QED BY <2>1, <2>2
<1>14. (AcksHeld /\ ReceiptHonest)'
  BY <1>6, <1>9 DEF DownlinkInv, AcksHeld, ReceiptHonest
<1>15. n = 0 \/ p # <<>>
  BY <1>1
<1>16. (\A m \in Leaf : SlotsOK(m))'
  <2> SUFFICES ASSUME NEW m \in Leaf PROVE SlotsOK(m)'
    OBVIOUS
  <2>0. SlotsOK(m)
    BY DEF DownlinkInv, TypeOK
  <2>1. CASE m # l
    BY <2>0, <2>1, <1>6, <1>12 DEF SlotsOK
  <2>2. CASE m = l
    <3>1. Len(inbox'[l]) = Len(inbox[l]) + n /\ Len(inbox[l]) \in Nat /\ n \in Nat
      BY <1>10, <1>11, <1>12
    <3>2. done[l] \in Nat /\ done' = done /\ phase' = phase
      BY <1>6 DEF DownlinkInv, TypeOK
    <3> QED BY <2>0, <2>2, <3>1, <3>2, <1>6, <1>12, <1>15 DEF SlotsOK
  <2> QED BY <2>1, <2>2
<1>17. TypeOK'
  BY <1>6, <1>7, <1>9, <1>12, <1>16 DEF DownlinkInv, TypeOK
<1> QED BY <1>7, <1>13, <1>14, <1>17 DEF DownlinkInv

(* Only what was acked is taken off the list.                              *)
LEMMA PostAcksInv ==
    ASSUME DownlinkInv, NEW through \in SUBSET Cmd, PostAcks(through)
    PROVE  DownlinkInv'
<1> USE CmdAssumption
<1>1. /\ through \subseteq held
      /\ acks' = <<>> /\ UNCHANGED <<cell, heard, leaf, history, cuts>>
      /\ srv' = [c \in Cmd |-> IF c \in through /\ srv[c] = "open"
                              THEN "received" ELSE srv[c]]
  BY DEF PostAcks, Elements, DownlinkInv, AcksHeld
<1>2. acks' \in Seq(Cmd) /\ Len(acks') = 0 /\ DOMAIN acks' = {}
  BY <1>1
<1>3. srv' \in [Cmd -> Standing]
  BY <1>1 DEF DownlinkInv, TypeOK, Standing
<1>4. TypeOK'
  BY <1>1, <1>2, <1>3 DEF DownlinkInv, TypeOK, SlotsOK, leaf, history
<1>5. (CellsUsed /\ InboxHeld /\ AcksHeld)'
  BY <1>1, <1>2 DEF DownlinkInv, CellsUsed, InboxHeld, AcksHeld, leaf, history
<1>6. ReceiptHonest'
  BY <1>1 DEF DownlinkInv, ReceiptHonest, TypeOK, history
<1> QED BY <1>4, <1>5, <1>6 DEF DownlinkInv

(* A gateway that loses power forgets cells and acks, and claims nothing.  *)
LEMMA GatewayCutInv == ASSUME DownlinkInv, GatewayCut PROVE DownlinkInv'
<1> USE CmdAssumption
<1>1. /\ acks' = <<>> /\ heard' = {} /\ cuts' = cuts + 1 /\ cuts < MaxCuts
      /\ cell' = [k \in 1 .. Slots |-> Empty]
      /\ UNCHANGED <<srv, leaf, history>>
  BY DEF GatewayCut
<1>2. acks' \in Seq(Cmd) /\ Len(acks') = 0 /\ DOMAIN acks' = {}
  BY <1>1
<1>3. cell' \in [1 .. Slots -> Cell] /\ CellsUsed'
  BY <1>1 DEF Empty, Cell, CellsUsed
<1>4. TypeOK'
  <2>1. cuts' \in 0 .. MaxCuts
    BY <1>1 DEF DownlinkInv, TypeOK
  <2>2. (\A l \in Leaf : SlotsOK(l))'
    BY <1>1 DEF DownlinkInv, TypeOK, SlotsOK, leaf
  <2>3. UNCHANGED <<srv, phase, inbox, done, held, ran, lost>>
    BY <1>1 DEF leaf, history
  <2>4. Len(acks') <= AckSlots
    BY <1>2
  <2> QED BY <1>1, <1>2, <1>3, <2>1, <2>2, <2>3, <2>4 DEF DownlinkInv, TypeOK
<1>5. (InboxHeld /\ AcksHeld /\ ReceiptHonest)'
  BY <1>1, <1>2 DEF DownlinkInv, InboxHeld, AcksHeld, ReceiptHonest, leaf, history
<1> QED BY <1>3, <1>4, <1>5 DEF DownlinkInv

-----------------------------------------------------------------------------
(* The leaf.                                                               *)

(* A leaf that wakes opens its window on empty slots.                      *)
LEMMA WakeInv ==
    ASSUME DownlinkInv, NEW l \in Leaf, NEW audible \in BOOLEAN, Wake(l, audible)
    PROVE  DownlinkInv'
<1>1. /\ phase[l] = "away" /\ phase' = [phase EXCEPT ![l] = "window"]
      /\ heard' \subseteq heard \cup {l}
      /\ UNCHANGED <<srv, cell, acks, inbox, done, history, cuts>>
  BY DEF Wake
<1>2. (\A m \in Leaf : SlotsOK(m))'
  BY <1>1 DEF DownlinkInv, TypeOK, SlotsOK
<1>3. TypeOK'
  BY <1>1, <1>2 DEF DownlinkInv, TypeOK, history
<1>4. (CellsUsed /\ InboxHeld /\ AcksHeld /\ ReceiptHonest)'
  BY <1>1 DEF DownlinkInv, CellsUsed, InboxHeld, AcksHeld, ReceiptHonest, history
<1> QED BY <1>3, <1>4 DEF DownlinkInv

(* A leaf that goes to sleep forgets its slots.                            *)
LEMMA AsleepFacts ==
    ASSUME DownlinkInv, NEW l \in Leaf, Asleep(l), UNCHANGED <<held>>
    PROVE  /\ phase' \in [Leaf -> {"away", "window", "exec"}]
           /\ inbox' \in [Leaf -> Seq(Cmd)] /\ done' \in [Leaf -> Nat]
           /\ (\A m \in Leaf : SlotsOK(m))'
           /\ InboxHeld'
<1> USE CmdAssumption
<1>1. /\ phase' = [phase EXCEPT ![l] = "away"]
      /\ inbox' = [inbox EXCEPT ![l] = <<>>]
      /\ done' = [done EXCEPT ![l] = 0]
  BY DEF Asleep
<1>2. <<>> \in Seq(Cmd) /\ Len(<<>>) = 0 /\ DOMAIN <<>> = {}
  OBVIOUS
<1>3. /\ phase \in [Leaf -> {"away", "window", "exec"}]
      /\ inbox \in [Leaf -> Seq(Cmd)] /\ done \in [Leaf -> Nat]
  BY DEF DownlinkInv, TypeOK
<1>4. /\ phase' \in [Leaf -> {"away", "window", "exec"}]
      /\ inbox' \in [Leaf -> Seq(Cmd)] /\ done' \in [Leaf -> Nat]
  BY <1>1, <1>2, <1>3
<1>5. (\A m \in Leaf : SlotsOK(m))'
  BY <1>1, <1>2, <1>3 DEF DownlinkInv, TypeOK, SlotsOK
<1>6. InboxHeld'
  BY <1>1, <1>2, <1>3 DEF DownlinkInv, InboxHeld
<1> QED BY <1>4, <1>5, <1>6

(* A window in which nothing came ends in sleep.                           *)
LEMMA CloseEmptyInv ==
    ASSUME DownlinkInv, NEW l \in Leaf, CloseEmpty(l) PROVE DownlinkInv'
<1>1. Asleep(l) /\ UNCHANGED <<srv, gateway, history, cuts>> /\ UNCHANGED <<held>>
  BY DEF CloseEmpty, history
<1>2. TypeOK' /\ InboxHeld'
  BY <1>1, AsleepFacts DEF DownlinkInv, TypeOK, gateway, history
<1>3. (CellsUsed /\ AcksHeld /\ ReceiptHonest)'
  BY <1>1 DEF DownlinkInv, CellsUsed, AcksHeld, ReceiptHonest, gateway, history
<1> QED BY <1>2, <1>3 DEF DownlinkInv

(* The acks that are added are of commands that wait at the leaf.          *)
LEMMA CloseAckingInv ==
    ASSUME DownlinkInv, NEW l \in Leaf, NEW audible \in BOOLEAN, CloseAcking(l, audible)
    PROVE  DownlinkInv'
<1> USE CmdAssumption
<1>1. /\ phase[l] = "window" /\ inbox[l] # <<>>
      /\ phase' = [phase EXCEPT ![l] = "exec"] /\ heard' \subseteq heard \cup {l}
      /\ acks' = acks \/ acks' = Kept(acks \o inbox[l], AckSlots)
      /\ UNCHANGED <<srv, cell, inbox, done, history, cuts>>
  BY DEF CloseAcking
<1>2. inbox[l] \in Seq(Cmd) /\ acks \in Seq(Cmd) /\ Len(acks) <= AckSlots
  BY DEF DownlinkInv, TypeOK
<1>3. /\ acks' \in Seq(Cmd) /\ Len(acks') <= AckSlots
      /\ \A i \in DOMAIN acks' : \/ \E j \in DOMAIN acks : acks'[i] = acks[j]
                               \/ \E j \in DOMAIN inbox[l] : acks'[i] = inbox[l][j]
  <2>1. acks \o inbox[l] \in Seq(Cmd) /\ AckSlots \in Nat
    BY <1>2
  <2>2. /\ acks \o inbox[l] \in Seq(Cmd)
        /\ Len(acks \o inbox[l]) = Len(acks) + Len(inbox[l])
        /\ FromEither(acks, inbox[l])
    BY <1>2, ConcatFacts, Zenon
  <2> DEFINE both == acks \o inbox[l]
  <2>3. /\ Kept(both, AckSlots) \in Seq(Cmd) /\ Len(Kept(both, AckSlots)) <= AckSlots
        /\ DOMAIN Kept(both, AckSlots) \subseteq DOMAIN both
        /\ \A i \in DOMAIN Kept(both, AckSlots) : Kept(both, AckSlots)[i] = both[i]
    <3> HIDE DEF both
    <3>1. both \in Seq(Cmd)
      BY <2>1 DEF both
    <3> QED BY <3>1, <2>1, KeptFacts
  <2>4. CASE acks' = acks
    BY <2>4, <1>2
  <2>5. CASE acks' = Kept(both, AckSlots)
    BY <2>2, <2>3, <2>5 DEF FromEither
  <2> QED BY <1>1, <2>4, <2>5
<1>4. AcksHeld'
  <2>1. \A j \in DOMAIN inbox[l] : inbox[l][j] \in held
    <3>1. \A j \in DOMAIN inbox[l] : j \in Nat
      BY <1>2
    <3> QED BY <3>1 DEF DownlinkInv, InboxHeld
  <2> QED BY <1>1, <1>3, <2>1 DEF DownlinkInv, AcksHeld, history
<1>5. (\A m \in Leaf : SlotsOK(m))'
  <2>1. done[l] = 0 /\ Len(inbox[l]) > 0
    BY <1>1, <1>2 DEF DownlinkInv, TypeOK, SlotsOK
  <2> QED BY <1>1, <2>1 DEF DownlinkInv, TypeOK, SlotsOK
<1>6. TypeOK'
  BY <1>1, <1>3, <1>5 DEF DownlinkInv, TypeOK, history
<1>7. (CellsUsed /\ InboxHeld /\ ReceiptHonest)'
  BY <1>1 DEF DownlinkInv, CellsUsed, InboxHeld, ReceiptHonest, history
<1> QED BY <1>4, <1>6, <1>7 DEF DownlinkInv

(* A command that is executed was in the slots, and so was held.           *)
LEMMA ExecuteFacts ==
    ASSUME DownlinkInv, NEW l \in Leaf, NEW lands \in BOOLEAN, Execute(l, lands)
    PROVE  \E c \in held :
              /\ ran' \subseteq ran \cup {c}
              /\ srv' = IF lands /\ srv[c] \in {"open", "received"}
                        THEN [srv EXCEPT ![c] = "completed"] ELSE srv
<1> DEFINE i == done[l] + 1
           c == inbox[l][i]
<1>1. phase[l] = "exec" /\ SlotsOK(l)
  BY DEF Execute, DownlinkInv, TypeOK
<1>2. inbox[l] \in Seq(Cmd) /\ done[l] \in Nat
  BY DEF DownlinkInv, TypeOK
<1>3. i \in Nat /\ i \in DOMAIN inbox[l]
  BY <1>1, <1>2 DEF SlotsOK
<1>4. c \in held
  BY <1>3 DEF DownlinkInv, InboxHeld
<1>5. /\ ran' = ran \cup Owned(l, <<c>>)
      /\ srv' = IF lands /\ srv[c] \in {"open", "received"}
                THEN [srv EXCEPT ![c] = "completed"] ELSE srv
  BY DEF Execute
<1>6. Owned(l, <<c>>) \subseteq {c}
  BY DEF Owned, Elements
<1> HIDE DEF c
<1> QED BY <1>4, <1>5, <1>6

(* Executing moves on within the slots or ends in sleep, and completes     *)
(* only what is held.                                                      *)
LEMMA ExecuteInv ==
    ASSUME DownlinkInv, NEW l \in Leaf, NEW lands \in BOOLEAN, Execute(l, lands)
    PROVE  DownlinkInv'
<1> USE CmdAssumption
<1>1. PICK c \in held :
         /\ ran' \subseteq ran \cup {c}
         /\ srv' = IF lands /\ srv[c] \in {"open", "received"}
                   THEN [srv EXCEPT ![c] = "completed"] ELSE srv
  BY ExecuteFacts
<1>2. UNCHANGED <<held>> /\ UNCHANGED <<cell, heard, acks, lost, cuts>>
  BY DEF Execute, gateway
<1>3. srv' \in [Cmd -> Standing] /\ ran' \subseteq Cmd
  BY <1>1 DEF DownlinkInv, TypeOK, Standing
<1>4. ReceiptHonest'
  BY <1>1, <1>2 DEF DownlinkInv, TypeOK, ReceiptHonest
<1>5. /\ phase' \in [Leaf -> {"away", "window", "exec"}]
      /\ inbox' \in [Leaf -> Seq(Cmd)] /\ done' \in [Leaf -> Nat]
      /\ (\A m \in Leaf : SlotsOK(m))'
      /\ InboxHeld'
  <2>1. CASE done[l] + 1 < Len(inbox[l])
    <3>1. done' = [done EXCEPT ![l] = @ + 1] /\ UNCHANGED <<phase, inbox>>
      BY <2>1 DEF Execute
    <3>2. done' \in [Leaf -> Nat]
      BY <3>1 DEF DownlinkInv, TypeOK
    <3>3. (\A m \in Leaf : SlotsOK(m))'
      BY <2>1, <3>1 DEF DownlinkInv, TypeOK, SlotsOK, Execute
    <3> QED BY <1>2, <3>1, <3>2, <3>3 DEF DownlinkInv, TypeOK, InboxHeld
  <2>2. CASE ~ (done[l] + 1 < Len(inbox[l]))
    <3>1. Asleep(l)
      BY <2>2 DEF Execute
    <3> QED BY <1>2, <3>1, AsleepFacts
  <2> QED BY <2>1, <2>2
<1>6. TypeOK'
  BY <1>2, <1>3, <1>5 DEF DownlinkInv, TypeOK
<1>7. (CellsUsed /\ AcksHeld)'
  BY <1>2 DEF DownlinkInv, CellsUsed, AcksHeld
<1> QED BY <1>4, <1>5, <1>6, <1>7 DEF DownlinkInv

(* A leaf that loses power forgets its slots; what it had held stays so.   *)
LEMMA LeafCutInv == ASSUME DownlinkInv, NEW l \in Leaf, LeafCut(l) PROVE DownlinkInv'
<1> USE CmdAssumption
<1>1. /\ Asleep(l) /\ UNCHANGED <<held>> /\ UNCHANGED <<srv, gateway, ran>>
      /\ cuts < MaxCuts /\ cuts' = cuts + 1
      /\ lost' = lost \cup Owned(l, SubSeq(inbox[l], done[l] + 1, Len(inbox[l])))
  BY DEF LeafCut
<1>2. lost' \subseteq Cmd
  <2>1. inbox[l] \in Seq(Cmd) /\ done[l] \in Nat
    BY DEF DownlinkInv, TypeOK
  <2>2. SubSeq(inbox[l], done[l] + 1, Len(inbox[l])) \in Seq(Cmd)
    <3>1. /\ done[l] + 1 \in Nat /\ Len(inbox[l]) \in Nat
          /\ \A j \in done[l] + 1 .. Len(inbox[l]) : inbox[l][j] \in Cmd
      BY <2>1
    <3> QED BY <2>1, <3>1
  <2> DEFINE rest == SubSeq(inbox[l], done[l] + 1, Len(inbox[l]))
  <2>3. Elements(rest) \subseteq Cmd
    <3> HIDE DEF rest
    <3>1. rest \in Seq(Cmd)
      BY <2>2 DEF rest
    <3> QED BY <3>1 DEF Elements
  <2> QED BY <1>1, <2>3 DEF Owned, DownlinkInv, TypeOK
<1>3. TypeOK' /\ InboxHeld'
  BY <1>1, <1>2, AsleepFacts DEF DownlinkInv, TypeOK, gateway
<1>4. (CellsUsed /\ AcksHeld /\ ReceiptHonest)'
  BY <1>1 DEF DownlinkInv, CellsUsed, AcksHeld, ReceiptHonest, gateway
<1> QED BY <1>3, <1>4 DEF DownlinkInv

-----------------------------------------------------------------------------
(* Every step keeps the invariant.                                         *)
LEMMA StepInv == ASSUME DownlinkInv, [Next]_vars PROVE DownlinkInv'
<1>1. CASE \E c \in Cmd : Post(c) \/ Expire(c)
  BY <1>1, ServerInv
<1>2. CASE Poll \/ GatewayCut
  BY <1>2, PollInv, GatewayCutInv
<1>3. CASE \E k \in 1 .. Slots : Lapse(k)
  BY <1>3, LapseInv
<1>4. CASE \E through \in SUBSET Cmd : PostAcks(through)
  BY <1>4, PostAcksInv
<1>5. CASE \E l \in Leaf, p \in Arrivals : Deliver(l, p)
  BY <1>5, DeliverInv
<1>6. CASE \E l \in Leaf, b \in BOOLEAN : Wake(l, b) \/ CloseAcking(l, b)
  BY <1>6, WakeInv, CloseAckingInv
<1>7. CASE \E l \in Leaf : CloseEmpty(l) \/ LeafCut(l)
  BY <1>7, CloseEmptyInv, LeafCutInv
<1>8. CASE \E l \in Leaf, b \in BOOLEAN : Execute(l, b)
  BY <1>8, ExecuteInv
<1>9. CASE UNCHANGED vars
  BY <1>9 DEF vars, gateway, leaf, history, DownlinkInv, TypeOK, SlotsOK, CellsUsed,
              InboxHeld, AcksHeld, ReceiptHonest
<1> QED BY <1>1, <1>2, <1>3, <1>4, <1>5, <1>6, <1>7, <1>8, <1>9 DEF Next

(* The invariant holds in every behaviour.                                 *)
LEMMA Invariance == Spec => []DownlinkInv
<1>1. DownlinkInv /\ [Next]_vars => DownlinkInv'
  BY StepInv
<1> QED BY InitInv, <1>1, PTL DEF Spec

(* Every variable keeps its shape, whatever the instance.                  *)
THEOREM TypeCorrect == Spec => []TypeOK
<1>1. DownlinkInv => TypeOK
  BY DEF DownlinkInv
<1> QED BY Invariance, <1>1, PTL

(* Nothing is closed at the server that its camera has not had: the        *)
(* routing by slug and the leaf's acks (deliver_pending_commands,          *)
(* leaf_radio_poll_commands) are enough, whatever is lost or cut.          *)
THEOREM ReceiptsAreHonest == Spec => []ReceiptHonest
<1>1. DownlinkInv => ReceiptHonest
  BY DEF DownlinkInv
<1> QED BY Invariance, <1>1, PTL

-----------------------------------------------------------------------------
(* The mailbox.                                                            *)

(* The downlink starts as an empty mailbox.                                *)
LEMMA InitMail == Init => MB!MailInit
BY DEF Init, MB!MailInit

(* A step of the downlink is a step of the mailbox or none.                *)
LEMMA StepMail ==
    ASSUME DownlinkInv, [Next]_vars
    PROVE  [MB!MailNext]_MB!mailVars
<1> USE DEF MB!MailNext, MB!mailVars
<1>0. srv \in [Cmd -> Standing] /\ held \subseteq Cmd
  BY DEF DownlinkInv, TypeOK
<1>1. CASE \E c \in Cmd : Post(c)
  <2> PICK c \in Cmd : Post(c)
    BY <1>1
  <2>1. MB!Posted(c)
    BY <1>0 DEF Post, MB!Posted, MB!Turns, history
  <2> QED BY <2>1
<1>2. CASE \E c \in Cmd : Expire(c)
  <2> PICK c \in Cmd : Expire(c)
    BY <1>2
  <2>1. MB!TimedOut(c)
    BY <1>0 DEF Expire, MB!TimedOut, MB!Turns, history
  <2> QED BY <2>1
<1>3. CASE \E through \in SUBSET Cmd : PostAcks(through)
  <2> PICK through \in SUBSET Cmd : PostAcks(through)
    BY <1>3
  <2> DEFINE S == {c \in through : srv[c] = "open"}
  <2>1. S \in SUBSET held /\ \A c \in S : srv[c] \in {"open"}
    BY DEF PostAcks, Elements, DownlinkInv, AcksHeld
  <2>2. srv' = [c \in Cmd |-> IF c \in S THEN "received" ELSE srv[c]] /\ held' = held
    BY DEF PostAcks, history
  <2>3. MB!Turns(S, {"open"}, "received")
    <3> HIDE DEF S
    <3> QED BY <2>1, <2>2 DEF MB!Turns
  <2>4. MB!Receipted
    <3> HIDE DEF S
    <3> QED BY <2>1, <2>3 DEF MB!Receipted
  <2> QED BY <2>4
<1>4. CASE \E l \in Leaf, p \in Arrivals : Deliver(l, p)
  <2> PICK l \in Leaf, p \in Arrivals : Deliver(l, p)
    BY <1>4
  <2> DEFINE new == Owned(l, [i \in DOMAIN p |-> cell[p[i]].cmd])
  <2>1. held' = held \cup new /\ srv' = srv
    BY DEF Deliver
  <2>2. held' \subseteq Cmd
    BY DeliverInv DEF DownlinkInv, TypeOK
  <2>3. MB!Handed
    <3>1. new \in SUBSET Cmd
      BY <2>1, <2>2
    <3> HIDE DEF new
    <3> QED BY <2>1, <3>1 DEF MB!Handed
  <2> QED BY <2>3
<1>5. CASE \E l \in Leaf, lands \in BOOLEAN : Execute(l, lands)
  <2> PICK l \in Leaf, lands \in BOOLEAN : Execute(l, lands)
    BY <1>5
  <2>1. PICK c \in held :
           srv' = IF lands /\ srv[c] \in {"open", "received"}
                  THEN [srv EXCEPT ![c] = "completed"] ELSE srv
    BY ExecuteFacts
  <2>2. held' = held
    BY DEF Execute
  <2>3. CASE lands /\ srv[c] \in {"open", "received"}
    <3>1. MB!Turns({c}, {"open", "received"}, "completed")
      BY <1>0, <2>1, <2>2, <2>3 DEF MB!Turns
    <3>2. MB!Answered
      BY <3>1 DEF MB!Answered
    <3> QED BY <3>2
  <2>4. CASE ~ (lands /\ srv[c] \in {"open", "received"})
    BY <2>1, <2>2, <2>4
  <2> QED BY <2>3, <2>4
<1>6. CASE \/ Poll \/ GatewayCut \/ \E k \in 1 .. Slots : Lapse(k)
           \/ \E l \in Leaf, b \in BOOLEAN : Wake(l, b) \/ CloseAcking(l, b)
           \/ \E l \in Leaf : CloseEmpty(l) \/ LeafCut(l)
  <2>1. UNCHANGED <<srv, held>>
    BY <1>6 DEF Poll, GatewayCut, Lapse, Wake, CloseAcking, CloseEmpty, LeafCut, history
  <2> QED BY <2>1
<1>7. CASE UNCHANGED vars
  BY <1>7 DEF vars, history
<1> QED BY <1>1, <1>2, <1>3, <1>4, <1>5, <1>6, <1>7 DEF Next

(* The downlink with its losses, cuts and bounded slots refines the        *)
(* mailbox: an open command stays on offer until held, answered or expired.*)
THEOREM DownlinkIsMailbox == Spec => RefinesMailbox
<1>1. DownlinkInv /\ [Next]_vars => [MB!MailNext]_MB!mailVars
  BY StepMail
<1> QED BY Invariance, InitMail, <1>1, PTL DEF Spec, RefinesMailbox, MB!MailSpec

-----------------------------------------------------------------------------
(* No command vanishes.                                                    *)

(* A command that a leaf it is for has in a slot and has not come to yet.  *)
WaitsAt(l, c) ==
    For(l, c) /\ \E i \in DOMAIN inbox[l] : i > done[l] /\ inbox[l][i] = c

Waiting(c) == \E l \in Leaf : WaitsAt(l, c)

(* What has reached its leaf was executed, waits there, or fell to a power *)
(* cut: redelivery, full slots and late packets take nothing away.         *)
HeldAccounted == \A c \in held : c \in ran \cup lost \/ Waiting(c)

(* A delivery appends to the slots, behind what waits there.               *)
LEMMA DeliverAccounts ==
    ASSUME DownlinkInv, HeldAccounted, NEW l \in Leaf, NEW p \in Arrivals, Deliver(l, p)
    PROVE  HeldAccounted'
<1> USE CmdAssumption
<1> DEFINE packets == [i \in DOMAIN p |-> cell[p[i]].cmd]
<1>1. /\ inbox' = [inbox EXCEPT ![l] = @ \o packets]
      /\ held' = held \cup Owned(l, packets)
      /\ UNCHANGED <<done, ran, lost>>
  BY DEF Deliver
<1>2. packets \in Seq(Cmd)
  <2>1. PICK n \in 0 .. LeafSlots : p \in [1 .. n -> 1 .. Slots]
    BY DEF Arrivals
  <2>2. \A i \in DOMAIN p : p[i] \in 1 .. Slots /\ cell[p[i]].cmd \in Cmd
    BY <2>1, DueFacts DEF Deliver
  <2> QED BY <2>1, <2>2
<1> HIDE DEF packets
<1>3. /\ inbox \in [Leaf -> Seq(Cmd)] /\ done[l] \in Nat
      /\ done[l] <= Len(inbox[l]) /\ Len(inbox[l]) \in Nat
  <2>1. inbox \in [Leaf -> Seq(Cmd)] /\ done[l] \in Nat /\ SlotsOK(l)
    BY DEF DownlinkInv, TypeOK
  <2>2. Len(inbox[l]) \in Nat
    BY <2>1
  <2> QED BY <2>1, <2>2 DEF SlotsOK
<1>4. inbox'[l] = inbox[l] \o packets /\ \A m \in Leaf : m # l => inbox'[m] = inbox[m]
  BY <1>1, <1>3
<1>5. /\ \A i \in DOMAIN inbox[l] : i \in DOMAIN inbox'[l] /\ inbox'[l][i] = inbox[l][i]
      /\ \A j \in DOMAIN packets : /\ Len(inbox[l]) + j \in DOMAIN inbox'[l]
                                   /\ inbox'[l][Len(inbox[l]) + j] = packets[j]
                                   /\ Len(inbox[l]) + j > done[l]
  BY <1>2, <1>3, <1>4
<1>7. ASSUME NEW c \in held, Waiting(c) PROVE Waiting(c)'
  <2>1. PICK m \in Leaf : WaitsAt(m, c)
    BY <1>7 DEF Waiting
  <2>2. WaitsAt(m, c)'
    BY <2>1, <1>1, <1>4, <1>5 DEF WaitsAt, For
  <2> QED BY <2>2 DEF Waiting
<1>8. ASSUME NEW c \in Owned(l, packets) PROVE Waiting(c)'
  <2>1. For(l, c)
    BY DEF Owned
  <2>2. PICK j \in DOMAIN packets : packets[j] = c
    BY DEF Owned, Elements
  <2> DEFINE i == Len(inbox[l]) + j
  <2>3. i \in DOMAIN inbox'[l] /\ inbox'[l][i] = c /\ i > done[l] /\ done' = done
    BY <1>1, <1>5, <2>2
  <2> HIDE DEF i
  <2>4. WaitsAt(l, c)'
    BY <2>1, <2>3 DEF WaitsAt, For
  <2> QED BY <2>4 DEF Waiting
<1> QED BY <1>1, <1>7, <1>8 DEF HeldAccounted

(* A leaf goes to sleep on empty slots, after its last command, or cut off *)
(* with what it had not come to; otherwise it moves on by one.             *)
LEMMA LeafAccounts ==
    ASSUME DownlinkInv, HeldAccounted, NEW l \in Leaf,
           \/ CloseEmpty(l) \/ LeafCut(l)
           \/ \E lands \in BOOLEAN : Execute(l, lands)
    PROVE  HeldAccounted'
<1> USE CmdAssumption
<1>1. /\ inbox \in [Leaf -> Seq(Cmd)] /\ done \in [Leaf -> Nat] /\ held \subseteq Cmd
  BY DEF DownlinkInv, TypeOK
<1>2. /\ held' = held /\ ran \subseteq ran' /\ lost \subseteq lost'
      /\ \A m \in Leaf : m # l => inbox'[m] = inbox[m] /\ done'[m] = done[m]
  BY <1>1 DEF CloseEmpty, LeafCut, Execute, Asleep, history
<1>3. SUFFICES ASSUME NEW c \in held, WaitsAt(l, c)
               PROVE  c \in ran' \cup lost' \/ Waiting(c)'
  <2>1. ASSUME NEW c \in held, NEW m \in Leaf, m # l, WaitsAt(m, c)
        PROVE  Waiting(c)'
    <3>1. WaitsAt(m, c)'
      BY <1>2, <2>1 DEF WaitsAt, For
    <3> QED BY <3>1 DEF Waiting
  <2>2. ASSUME NEW c \in held PROVE c \in ran' \cup lost' \/ Waiting(c)'
    <3>1. CASE c \in ran \cup lost
      BY <3>1, <1>2
    <3>2. CASE \E m \in Leaf : WaitsAt(m, c)
      BY <3>2, <1>3, <2>1
    <3> QED BY <3>1, <3>2 DEF HeldAccounted, Waiting
  <2> QED BY <1>2, <2>2 DEF HeldAccounted
<1>a. For(l, c)
  BY <1>3 DEF WaitsAt
<1>4. PICK i \in DOMAIN inbox[l] : i > done[l] /\ inbox[l][i] = c
  BY <1>3 DEF WaitsAt
<1>5. i \in Nat /\ i <= Len(inbox[l]) /\ done[l] \in Nat /\ Len(inbox[l]) \in Nat
  BY <1>1, <1>4
<1>6. CASE CloseEmpty(l)
  BY <1>4, <1>5, <1>6 DEF CloseEmpty
<1>7. CASE LeafCut(l)
  <2> DEFINE first == done[l] + 1
             rest  == SubSeq(inbox[l], first, Len(inbox[l]))
  <2>1. lost' = lost \cup Owned(l, rest)
    BY <1>7 DEF LeafCut
  <2>2. \E j \in DOMAIN rest : rest[j] = c
    <3> DEFINE s == inbox[l]
               j == i - done[l]
    <3>1. s \in Seq(Cmd) /\ first \in 1 .. Len(s) /\ j \in 1 .. Len(s) - done[l]
      BY <1>1, <1>4, <1>5
    <3>2. first + j - 1 = i /\ Len(s) - first + 1 = Len(s) - done[l]
      BY <1>5
    <3>3. /\ DOMAIN rest = 1 .. Len(s) - first + 1
          /\ \A k \in 1 .. Len(s) - first + 1 : rest[k] = s[first + k - 1]
      <4>1. \A k \in first .. Len(s) : s[k] \in Cmd
        BY <3>1
      <4>2. first \in Int /\ Len(s) \in Int /\ first <= Len(s)
        BY <3>1
      <4>3. /\ rest \in Seq(Cmd) /\ Len(rest) = Len(s) - first + 1
            /\ \A k \in 1 .. Len(s) - first + 1 : rest[k] = s[first + k - 1]
        BY <4>1, <4>2, SubSeqProperties
      <4> HIDE DEF rest, s, first
      <4> QED BY <4>3
    <3> HIDE DEF rest, first, s, j
    <3>4. j \in DOMAIN rest /\ rest[j] = s[i]
      BY <3>1, <3>2, <3>3
    <3> QED BY <1>4, <3>4 DEF s
  <2> HIDE DEF rest
  <2> QED BY <1>a, <2>1, <2>2 DEF Owned, Elements
<1>8. ASSUME NEW lands \in BOOLEAN, Execute(l, lands)
      PROVE  c \in ran' \cup lost' \/ Waiting(c)'
  <2>1. ran' = ran \cup Owned(l, <<inbox[l][done[l] + 1]>>)
    BY <1>8 DEF Execute
  <2>2. CASE i = done[l] + 1
    <3>1. c \in Owned(l, <<c>>)
      <4>1. 1 \in DOMAIN <<c>> /\ <<c>>[1] = c
        OBVIOUS
      <4> QED BY <1>a, <4>1 DEF Owned, Elements
    <3> QED BY <1>4, <2>1, <2>2, <3>1
  <2>3. CASE i # done[l] + 1
    <3>1. done[l] + 1 < Len(inbox[l]) /\ i > done[l] + 1
      BY <1>4, <1>5, <2>3
    <3>2. inbox' = inbox /\ done'[l] = done[l] + 1
      BY <1>1, <1>8, <3>1 DEF Execute
    <3>3. WaitsAt(l, c)'
      BY <1>a, <1>4, <3>1, <3>2 DEF WaitsAt, For
    <3> QED BY <3>3 DEF Waiting
  <2> QED BY <2>2, <2>3
<1> QED BY <1>6, <1>7, <1>8

(* Every step keeps the account.                                           *)
LEMMA AccountStep ==
    ASSUME DownlinkInv, HeldAccounted, [Next]_vars
    PROVE  HeldAccounted'
<1>1. CASE \/ \E c \in Cmd : Post(c) \/ Expire(c)
           \/ Poll \/ GatewayCut \/ UNCHANGED vars
           \/ \E k \in 1 .. Slots : Lapse(k)
           \/ \E through \in SUBSET Cmd : PostAcks(through)
           \/ \E l \in Leaf, b \in BOOLEAN : Wake(l, b) \/ CloseAcking(l, b)
  <2>1. UNCHANGED <<inbox, done, held, ran, lost>>
    BY <1>1 DEF Post, Expire, Poll, GatewayCut, Lapse, PostAcks, Wake, CloseAcking,
                vars, leaf, history
  <2> QED BY <2>1 DEF HeldAccounted, Waiting, WaitsAt, For
<1>2. CASE \E l \in Leaf, p \in Arrivals : Deliver(l, p)
  BY <1>2, DeliverAccounts
<1>3. CASE \E l \in Leaf : \/ CloseEmpty(l) \/ LeafCut(l)
                           \/ \E b \in BOOLEAN : Execute(l, b)
  BY <1>3, LeafAccounts
<1> QED BY <1>1, <1>2, <1>3 DEF Next

(* A command whose receipt the server has was executed, is about to be, or *)
(* was lost to a power cut of its leaf: that leaf_radio_poll_commands acks *)
(* before anything runs costs a command nowhere else.                      *)
THEOREM NothingVanishes ==
    Spec => [](\A c \in Cmd : srv[c] \in {"received", "completed"}
                                 => c \in ran \cup lost \/ Waiting(c))
<1>1. Init => HeldAccounted
  BY DEF Init, HeldAccounted
<1>2. DownlinkInv /\ HeldAccounted /\ [Next]_vars => (DownlinkInv /\ HeldAccounted)'
  BY StepInv, AccountStep
<1>3. DownlinkInv /\ HeldAccounted
        => \A c \in Cmd : srv[c] \in {"received", "completed"}
                             => c \in ran \cup lost \/ Waiting(c)
  BY DEF DownlinkInv, ReceiptHonest, HeldAccounted
<1> QED BY InitInv, <1>1, <1>2, <1>3, PTL DEF Spec

-----------------------------------------------------------------------------
(* LeafWake: types, and what a save relies on from its earlier steps.      *)
LeafTypes ==
    /\ slot \in Card \cup {Nothing} /\ fs \in [Card -> {"fat", "raw", "bad"}]
    /\ files \in [Medium -> SUBSET File]
    /\ vb \in {"flat", "mid", "full"}
    /\ pc \in {"boot", "asleep", "walkup", "gasp", "work", "window", "save",
               "evict", "write", "format"}
    /\ backend \in Medium \cup {Nothing}
    /\ shots \in 0 .. MaxShots /\ late \in 0 .. shots

(* A save is of a shot, and the file was opened on what is mounted.        *)
SaveShape ==
    /\ pc \in {"save", "evict", "write"} => shots > 0
    /\ pc \in {"evict", "write"} => backend \in Medium
    /\ pc = "write" => Shot("zero") \in files[backend]

(* One file per shot and medium; the shot at hand has none before it is    *)
(* opened, and then just that one.                                         *)
FilesApart ==
    \A d \in Medium : \A f \in files[d] :
        /\ f.ev <= shots
        /\ pc \in {"save", "evict"} => f.ev < shots
        /\ pc = "write" /\ f.ev = shots => f = Shot("zero") /\ d = backend
        /\ \A g \in files[d] : f.ev = g.ev => f = g

(* What is there in part only was reported as failed.                      *)
ShortReported ==
    \A d \in Medium : \A f \in files[d] : f.size = "short" => f.ev \in reported

(* Why the rails rest: the reason of a reset stands until the nap, and the *)
(* lock-out until the cell is charged, unless a reset wiped it.            *)
Gates ==
    /\ "nap" \in due \ forgotten => pc = "boot" /\ brown /\ rails = {}
    /\ pc = "gasp" => low /\ vb = "flat"
    /\ "charge" \in due \ forgotten =>
          /\ low /\ vb \in {"flat", "mid"} /\ pc \in {"boot", "asleep", "walkup"}
          /\ rails \subseteq {r \in {"cam"} : pc = "boot" /\ cause = "pir"}

(* What lies in the slot while a format is under way was unreadable at the *)
(* gate, or was put in since.                                              *)
Gated ==
    /\ pc # "format" => entered = {}
    /\ pc = "format" /\ slot \in Card => slot \in entered \/ fs[slot] # "fat"

LeafInv == LeafTypes /\ SaveShape

(* Nothing, the flash and the cards are told apart.                        *)
LEMMA MediumFacts ==
    /\ Card \subseteq Medium /\ Flash \in Medium /\ Nothing \notin Medium
    /\ Flash \notin Card /\ Nothing \notin Card
BY LeafAssumption DEF Medium

(* What is mounted is a medium, or nothing; a flash that will not mount    *)
(* may be formatted for it.                                                *)
LEMMA MountedFacts ==
    ASSUME LeafTypes, Mounted
    PROVE  /\ backend' \in Medium \cup {Nothing}
           /\ files' = files \/ files' = [files EXCEPT ![Flash] = {}]
           /\ files' \in [Medium -> SUBSET File]
           /\ \A d \in Medium : files'[d] \subseteq files[d]
<1>1. files' = files \/ files' = [files EXCEPT ![Flash] = {}]
  BY DEF Mounted, FlashBegins
<1>2. backend' \in Medium \cup {Nothing}
  BY MediumFacts DEF LeafTypes, Mounted, FlashBegins
<1> QED BY <1>1, <1>2, MediumFacts DEF LeafTypes

(* The file of the shot at hand.                                           *)
LEMMA ShotFacts ==
    ASSUME LeafTypes, shots > 0, NEW size \in {"whole", "short", "zero"}
    PROVE  /\ Shot(size) \in File /\ Shot(size).ev = shots
           /\ Shot(size).late = late /\ Shot(size).size = size
<1>1. shots \in 1 .. MaxShots /\ late \in 0 .. MaxShots
  BY LeafAssumption DEF LeafTypes
<1> QED BY <1>1 DEF Shot, File

(* The two steps that put something on a medium.                           *)
LEMMA OpenFileFacts ==
    ASSUME LeafTypes, SaveShape, OpenFile
    PROVE  /\ pc' = "write" /\ backend \in Medium /\ shots > 0 /\ pc = "evict"
           /\ files' = [files EXCEPT ![backend] = @ \cup {Shot("zero")}]
           /\ files' \in [Medium -> SUBSET File]
           /\ UNCHANGED <<slot, fs, vb, rtc, brown, backend, shots>>
           /\ UNCHANGED <<reported, torn, erased, entered, due, forgotten>>
<1>1. Shot("zero") \in File
  BY ShotFacts DEF SaveShape, OpenFile
<1> QED BY <1>1 DEF LeafTypes, SaveShape, OpenFile, leafHistory, debts

(* A write leaves one file of the shot at most, on the medium it was       *)
(* opened on, and reports it if that is short.                             *)
LEMMA WriteFacts ==
    ASSUME LeafTypes, SaveShape, Write
    PROVE  /\ pc = "write" /\ pc' = "window" /\ backend \in Medium /\ shots > 0
           /\ reported \subseteq reported'
           /\ \/ UNCHANGED files
              \/ \E S \in SUBSET {Shot("whole"), Shot("short"), Shot("zero")} :
                    /\ files' = [files EXCEPT ![backend] = (@ \ {Shot("zero")}) \cup S]
                    /\ \A f, g \in S : f = g
                    /\ Shot("short") \in S => shots \in reported'
           /\ UNCHANGED <<slot, fs, vb, rtc, brown, backend, shots>>
           /\ UNCHANGED <<torn, erased, entered, due, forgotten>>
<1>0. /\ Shot("whole").size = "whole" /\ Shot("short").size = "short"
      /\ Shot("zero").size = "zero"
  BY DEF Shot
<1>1. CASE Answers(backend) /\ Rewrite({Shot("whole")}) /\ UNCHANGED <<reported, faults>>
  <2>1. {Shot("whole")} \in SUBSET {Shot("whole"), Shot("short"), Shot("zero")}
    OBVIOUS
  <2>2. Shot("short") \notin {Shot("whole")}
    BY <1>0
  <2> QED BY <1>1, <2>1, <2>2 DEF Write, Rewrite, SaveShape, debts
<1>2. ASSUME Rewrite({}), reported' = reported \cup {shots}
      PROVE  \E S \in SUBSET {Shot("whole"), Shot("short"), Shot("zero")} :
                /\ files' = [files EXCEPT ![backend] = (@ \ {Shot("zero")}) \cup S]
                /\ \A f, g \in S : f = g
                /\ Shot("short") \in S => shots \in reported'
  <2>1. {} \in SUBSET {Shot("whole"), Shot("short"), Shot("zero")}
    OBVIOUS
  <2> QED BY <1>2, <2>1 DEF Rewrite
<1>3. ASSUME NEW size \in {"short", "zero"}, Rewrite({Shot(size)}),
             reported' = reported \cup {shots}
      PROVE  \E S \in SUBSET {Shot("whole"), Shot("short"), Shot("zero")} :
                /\ files' = [files EXCEPT ![backend] = (@ \ {Shot("zero")}) \cup S]
                /\ \A f, g \in S : f = g
                /\ Shot("short") \in S => shots \in reported'
  <2>1. {Shot(size)} \in SUBSET {Shot("whole"), Shot("short"), Shot("zero")}
    OBVIOUS
  <2> QED BY <1>3, <2>1 DEF Rewrite
<1>4. CASE UNCHANGED files /\ reported' = reported \cup {shots}
  BY <1>4 DEF Write, SaveShape, debts
<1> QED BY <1>1, <1>2, <1>3, <1>4 DEF Write, SaveShape, debts

(* The leaf starts well typed, with empty media.                           *)
LEMMA LeafInitInv ==
    LeafInit => LeafInv /\ FilesApart /\ ShortReported /\ Gates /\ Gated
<1> SUFFICES ASSUME LeafInit
             PROVE  LeafInv /\ FilesApart /\ ShortReported /\ Gates /\ Gated
  OBVIOUS
<1>1. LeafTypes
  <2>1. files \in [Medium -> SUBSET File]
    BY DEF LeafInit
  <2>2. shots \in 0 .. MaxShots /\ late \in 0 .. shots
    BY LeafAssumption DEF LeafInit
  <2> QED BY <2>1, <2>2 DEF LeafInit, LeafTypes
<1>2. SaveShape /\ Gates /\ Gated
  BY DEF LeafInit, SaveShape, Gates, Gated
<1>3. \A d \in Medium : files[d] = {}
  BY DEF LeafInit
<1> QED BY <1>1, <1>2, <1>3 DEF LeafInv, FilesApart, ShortReported

(* The files after f_mkfs are those of a card emptied.                     *)
LEMMA MkfsFacts ==
    ASSUME LeafTypes, Mkfs
    PROVE  /\ slot \in Card /\ pc = "format" /\ pc' = "window" /\ entered' = {}
           /\ files' = [files EXCEPT ![slot] = {}]
           /\ files' \in [Medium -> SUBSET File]
           /\ fs' \in [Card -> {"fat", "raw", "bad"}]
           /\ backend' \in Medium \cup {Nothing}
<1>1. slot \in Card
  BY DEF LeafTypes, Mkfs
<1> QED BY <1>1, MediumFacts DEF LeafTypes, Mkfs

(* The steps of the gates and of going to sleep.                           *)
GateSteps ==
    Nap \/ GatePasses \/ GateHolds \/ WalkUpEnds \/ GateCloses \/ Gasp \/ Sleep

(* The steps that may mount.                                               *)
MountSteps == Announce \/ SaveBegins \/ \E e \in 1 .. MaxShots : FetchFull(e)

(* The steps that leave store and gates alone.                             *)
QuietOnes ==
    \/ Capture \/ TimeSync \/ FormatGate \/ MkfsFails \/ Remounts \/ OpenFails
    \/ \E c \in {"pir", "timer"} : WakeUp(c)
    \/ \E c \in Card \cup {Nothing} : CardMoves(c)
    \/ \E v \in {"flat", "mid", "full"} : CellMoves(v)
    \/ \E b \in BOOLEAN : Reset(b)

(* There are no others.                                                    *)
LEMMA LeafSteps ==
    ASSUME [LeafNext]_leafVars
    PROVE  \/ UNCHANGED leafVars \/ GateSteps \/ MountSteps \/ QuietOnes
           \/ OpenFile \/ Write \/ Mkfs
           \/ \E f \in files[Flash] : Evict(f)
BY DEF LeafNext, Setup, GateSteps, MountSteps, QuietOnes

(* Types and the shape of a save are kept by every step.                   *)
LEMMA LeafInvStep == ASSUME LeafInv, [LeafNext]_leafVars PROVE LeafInv'
<1> USE DEF world, rtc, boot, leafHistory, debts, LeafInv
<1>num. /\ MaxShots \in Nat /\ shots \in Nat /\ late \in Nat
        /\ shots <= MaxShots /\ late <= shots
  BY LeafAssumption DEF LeafTypes
<1>1. CASE UNCHANGED leafVars
  BY <1>1 DEF leafVars, LeafTypes, SaveShape, Shot
<1>2. CASE GateSteps
  BY <1>2 DEF GateSteps, Nap, GatePasses, GateHolds, WalkUpEnds, GateCloses, Gasp, Sleep,
              DeepSleep, LeafTypes, SaveShape
<1>3. CASE Announce
  BY <1>3, MountedFacts DEF Announce, LeafTypes, SaveShape
<1>4. CASE SaveBegins
  BY <1>4, MountedFacts, MediumFacts DEF SaveBegins, LeafTypes, SaveShape
<1>5. CASE OpenFile
  <2>1. LeafTypes'
    BY <1>5, OpenFileFacts DEF LeafTypes
  <2>2. SaveShape'
    <3>1. Shot("zero")' = Shot("zero")
      BY <1>5, OpenFileFacts DEF Shot
    <3>2. Shot("zero") \in files'[backend]
      BY <1>5, OpenFileFacts DEF LeafTypes
    <3> QED BY <1>5, <3>1, <3>2, OpenFileFacts DEF SaveShape
  <2> QED BY <2>1, <2>2
<1>6. CASE Write
  <2>1. files' \in [Medium -> SUBSET File]
    BY <1>6, WriteFacts, ShotFacts DEF LeafTypes
  <2> QED BY <1>6, <2>1, WriteFacts DEF LeafTypes, SaveShape
<1>7. CASE Capture
  <2>1. shots' \in 0 .. MaxShots /\ late \in 0 .. shots'
    BY <1>7, <1>num DEF Capture
  <2> QED BY <1>7, <1>num, <2>1 DEF Capture, LeafTypes, SaveShape
<1>8. ASSUME NEW f \in files[Flash], Evict(f) PROVE LeafInv'
  BY <1>8, MediumFacts DEF Evict, Full, LeafTypes, SaveShape
<1>9. ASSUME NEW c, WakeUp(c) PROVE LeafInv'
  BY <1>9 DEF WakeUp, LeafTypes, SaveShape
<1>10. CASE TimeSync
  BY <1>10, <1>num DEF TimeSync, LeafTypes, SaveShape
<1>11. CASE Mkfs
  BY <1>11, MkfsFacts DEF Mkfs, LeafTypes, SaveShape
<1>12. CASE Remounts \/ OpenFails \/ FormatGate \/ MkfsFails
  BY <1>12, MediumFacts
     DEF Remounts, OpenFails, FormatGate, MkfsFails, LeafTypes, SaveShape
<1>13. ASSUME NEW e, FetchFull(e) PROVE LeafInv'
  BY <1>13, MountedFacts DEF FetchFull, LeafTypes, SaveShape
<1>14. ASSUME NEW c \in Card \cup {Nothing}, CardMoves(c) PROVE LeafInv'
  BY <1>14 DEF CardMoves, LeafTypes, SaveShape, Shot
<1>15. ASSUME NEW v \in {"flat", "mid", "full"}, CellMoves(v) PROVE LeafInv'
  BY <1>15 DEF CellMoves, LeafTypes, SaveShape
<1>16. ASSUME NEW b \in BOOLEAN, Reset(b) PROVE LeafInv'
  <2>1. late' \in 0 .. shots'
    <3>1. late' \in {late, shots} /\ shots' = shots
      BY <1>16 DEF Reset
    <3> QED BY <1>num, <3>1
  <2> QED BY <1>16, <2>1 DEF Reset, LeafTypes, SaveShape
<1> QED BY <1>1, <1>2, <1>3, <1>4, <1>5, <1>6, <1>7, <1>8, <1>9, <1>10, <1>11,
           <1>12, <1>13, <1>14, <1>15, <1>16, LeafSteps DEF MountSteps, QuietOnes

-----------------------------------------------------------------------------
(* The gates.                                                              *)
LEMMA GatesStep == ASSUME LeafTypes, Gates, [LeafNext]_leafVars PROVE Gates'
<1> USE DEF world, rtc, boot, leafHistory, debts, Gates
<1>1. CASE UNCHANGED leafVars
  BY <1>1 DEF leafVars
<1>2. CASE Nap
  BY <1>2 DEF Nap, DeepSleep
<1>3. CASE GatePasses
  BY <1>3 DEF GatePasses, Resumes
<1>4. CASE GateHolds \/ WalkUpEnds
  BY <1>4 DEF GateHolds, WalkUpEnds, DeepSleep
<1>5. CASE GateCloses
  BY <1>5 DEF GateCloses
<1>6. CASE Gasp
  BY <1>6 DEF Gasp, DeepSleep
<1>7. CASE Sleep \/ Announce \/ SaveBegins \/ OpenFile \/ OpenFails \/ Write \/ Capture
           \/ TimeSync \/ FormatGate \/ Mkfs \/ MkfsFails \/ Remounts
  BY <1>7 DEF Sleep, DeepSleep, Announce, SaveBegins, OpenFile, OpenFails, Write, Capture,
              TimeSync, FormatGate, Mkfs, MkfsFails, Remounts
<1>8. CASE \/ \E f \in files[Flash] : Evict(f)
           \/ \E e \in 1 .. MaxShots : FetchFull(e)
           \/ \E c \in Card \cup {Nothing} : CardMoves(c)
  BY <1>8 DEF Evict, FetchFull, CardMoves
<1>9. CASE \E c \in {"pir", "timer"} : WakeUp(c)
  BY <1>9 DEF WakeUp
<1>10. CASE \E v \in {"flat", "mid", "full"} : CellMoves(v)
  BY <1>10 DEF CellMoves
<1>11. CASE \E b \in BOOLEAN : Reset(b)
  BY <1>11 DEF Reset
<1> QED BY <1>1, <1>2, <1>3, <1>4, <1>5, <1>6, <1>7, <1>8, <1>9, <1>10, <1>11, LeafSteps
        DEF GateSteps, MountSteps, QuietOnes

(* The rails rest: neither after a brownout before the nap nor after a     *)
(* lock-out before the cell was charged is a rail raised, but for the      *)
(* camera's on the way to the gate and for what a reset made forgotten.    *)
THEOREM RailsDoRest == LeafSpec => []RailsRest
<1>1. LeafInv /\ Gates /\ [LeafNext]_leafVars => (LeafInv /\ Gates)'
  BY LeafInvStep, GatesStep DEF LeafInv
<1>2. LeafInv /\ Gates => RailsRest
  BY DEF Gates, RailsRest
<1> QED BY <1>1, <1>2, LeafInitInv, PTL DEF LeafSpec

-----------------------------------------------------------------------------
(* The card.                                                               *)

(* The gate reads the card at that instant; what a person puts in after it *)
(* is known to have entered.                                               *)
LEMMA GatedStep == ASSUME LeafTypes, Gated, [LeafNext]_leafVars PROVE Gated'
<1> USE DEF world, rtc, boot, leafHistory, debts, Gated
<1>1. CASE UNCHANGED leafVars
  BY <1>1 DEF leafVars
<1>2. CASE GateSteps
  BY <1>2 DEF GateSteps, Nap, GatePasses, GateHolds, WalkUpEnds, GateCloses, Gasp, Sleep,
              DeepSleep
<1>3. CASE \/ Announce \/ SaveBegins \/ OpenFile \/ OpenFails \/ Write \/ Capture
           \/ TimeSync \/ Remounts \/ (\E f \in files[Flash] : Evict(f))
  BY <1>3 DEF Announce, SaveBegins, OpenFile, OpenFails, Write, Capture, TimeSync,
              Remounts, Evict
<1>4. CASE FormatGate
  BY <1>4 DEF FormatGate, Unreadable
<1>5. CASE Mkfs \/ MkfsFails
  BY <1>5 DEF Mkfs, MkfsFails
<1>6. ASSUME NEW c \in Card \cup {Nothing}, CardMoves(c) PROVE Gated'
  BY <1>6 DEF CardMoves
<1>7. CASE \/ \E c \in {"pir", "timer"} : WakeUp(c)
           \/ \E e \in 1 .. MaxShots : FetchFull(e)
           \/ \E v \in {"flat", "mid", "full"} : CellMoves(v)
           \/ \E b \in BOOLEAN : Reset(b)
  BY <1>7 DEF WakeUp, FetchFull, CellMoves, Reset
<1> QED BY <1>1, <1>2, <1>3, <1>4, <1>5, <1>6, <1>7, LeafSteps DEF MountSteps, QuietOnes

(* Only f_mkfs erases, and what it erases had entered.                     *)
LEMMA ErasedStep ==
    ASSUME LeafTypes, Gated, NeverErased, [LeafNext]_leafVars
    PROVE  NeverErased'
<1> USE DEF world, rtc, boot, leafHistory, debts, NeverErased
<1>1. CASE Mkfs
  <2>1. fs[slot] = "fat" => slot \in entered
    BY <1>1, MkfsFacts DEF Gated
  <2>2. \A e \in erased' :
           e \in erased \/ (fs[slot] = "fat" /\ e = <<slot, slot \in entered>>)
    BY <1>1 DEF Mkfs
  <2>3. SUFFICES ASSUME NEW e \in erased' PROVE e[2]
    OBVIOUS
  <2>4. CASE e \in erased
    BY <2>4
  <2>5. CASE fs[slot] = "fat" /\ e = <<slot, slot \in entered>>
    <3>1. e[2] = (slot \in entered)
      BY <2>5
    <3> QED BY <2>1, <2>5, <3>1, Zenon
  <2> QED BY <2>2, <2>4, <2>5
<1>2. CASE UNCHANGED leafVars \/ GateSteps \/ MountSteps \/ OpenFile \/ Write
           \/ (\E f \in files[Flash] : Evict(f))
  BY <1>2 DEF leafVars, GateSteps, Nap, GatePasses, GateHolds, WalkUpEnds, GateCloses, Gasp,
              Sleep, MountSteps, Announce, SaveBegins, FetchFull, OpenFile, Write, Evict
<1>3. CASE QuietOnes
  BY <1>3 DEF QuietOnes, Capture, TimeSync, FormatGate, MkfsFails, Remounts, OpenFails,
              WakeUp, CardMoves, CellMoves, Reset
<1> QED BY <1>1, <1>2, <1>3, LeafSteps

(* A card the leaf can read is never formatted, but for one put in while   *)
(* another, proved unreadable, was being formatted.                        *)
THEOREM ReadableNeverErased == LeafSpec => []NeverErased
<1>1. LeafInit => NeverErased
  BY DEF LeafInit, NeverErased
<1>2. LeafInv /\ Gated /\ NeverErased /\ [LeafNext]_leafVars
        => (LeafInv /\ Gated /\ NeverErased)'
  BY LeafInvStep, GatedStep, ErasedStep DEF LeafInv
<1> QED BY <1>1, <1>2, LeafInitInv, PTL DEF LeafSpec

-----------------------------------------------------------------------------
(* The files.                                                              *)

(* The steps that may touch a file.                                        *)
FilesStep ==
    \/ UNCHANGED files
    \/ \E f \in files[Flash] : Evict(f)
    \/ pc # "evict" /\ files' = [files EXCEPT ![Flash] = {}]
    \/ Mkfs \/ OpenFile \/ Write

(* Files are left alone by every step but these.                           *)
LEMMA FilesTouched == ASSUME [LeafNext]_leafVars PROVE FilesStep
<1> USE DEF world, rtc, boot, leafHistory
<1>1. CASE UNCHANGED leafVars \/ GateSteps
  BY <1>1 DEF FilesStep, leafVars, GateSteps, Nap, GatePasses, GateHolds, WalkUpEnds,
              GateCloses, Gasp, Sleep
<1>2. CASE MountSteps
  BY <1>2 DEF FilesStep, MountSteps, Announce, SaveBegins, FetchFull, Mounted, FlashBegins
<1>3. CASE QuietOnes
  BY <1>3 DEF FilesStep, QuietOnes, Capture, TimeSync, FormatGate, MkfsFails, Remounts,
              OpenFails, WakeUp, CardMoves, CellMoves, Reset
<1>4. CASE (\E f \in files[Flash] : Evict(f)) \/ Mkfs \/ OpenFile \/ Write
  BY <1>4 DEF FilesStep
<1> QED BY <1>1, <1>2, <1>3, <1>4, LeafSteps

(* Reports are never taken back.                                           *)
LEMMA ReportsGrow == ASSUME LeafInv, [LeafNext]_leafVars PROVE reported \subseteq reported'
<1> USE DEF world, rtc, boot, leafHistory, LeafInv
<1>1. CASE OpenFile \/ Write
  BY <1>1, OpenFileFacts, WriteFacts
<1>2. CASE UNCHANGED leafVars \/ GateSteps
  BY <1>2 DEF leafVars, GateSteps, Nap, GatePasses, GateHolds, WalkUpEnds, GateCloses,
              Gasp, Sleep
<1>3. CASE MountSteps \/ QuietOnes
  BY <1>3 DEF MountSteps, Announce, SaveBegins, FetchFull, QuietOnes, Capture, TimeSync,
              FormatGate, MkfsFails, Remounts, OpenFails, WakeUp, CardMoves, CellMoves, Reset
<1>4. CASE Mkfs \/ \E f \in files[Flash] : Evict(f)
  BY <1>4 DEF Mkfs, Evict
<1> QED BY <1>1, <1>2, <1>3, <1>4, LeafSteps

(* Whatever was cut short stands as reported.                              *)
LEMMA ShortStep ==
    ASSUME LeafInv, ShortReported, [LeafNext]_leafVars
    PROVE  ShortReported'
<1> USE DEF LeafInv
<1>1. reported \subseteq reported'
  BY ReportsGrow
<1>2. SUFFICES ASSUME NEW d \in Medium, NEW f \in files'[d], f.size = "short",
                      f \notin files[d]
               PROVE  f.ev \in reported'
  BY <1>1 DEF ShortReported
<1>3. ASSUME NEW g \in files[Flash], Evict(g) PROVE FALSE
  BY <1>2, <1>3, MediumFacts DEF Evict, LeafTypes
<1>4. CASE Mkfs
  BY <1>2, <1>4, MkfsFacts, MediumFacts DEF LeafTypes
<1>5. CASE OpenFile
  <2>1. f = Shot("zero")
    BY <1>2, <1>5, OpenFileFacts DEF LeafTypes
  <2> QED BY <1>2, <2>1 DEF Shot
<1>6. CASE Write
  <2>1. PICK S \in SUBSET {Shot("whole"), Shot("short"), Shot("zero")} :
          /\ files' = [files EXCEPT ![backend] = (@ \ {Shot("zero")}) \cup S]
          /\ Shot("short") \in S => shots \in reported'
    BY <1>2, <1>6, WriteFacts
  <2>2. f \in S
    BY <1>2, <2>1 DEF LeafTypes
  <2>3. f = Shot("short") /\ f.ev = shots
    BY <1>2, <2>1, <2>2 DEF Shot
  <2> QED BY <2>1, <2>2, <2>3
<1>7. CASE UNCHANGED files \/ files' = [files EXCEPT ![Flash] = {}]
  BY <1>2, <1>7, MediumFacts DEF LeafTypes
<1> QED BY <1>3, <1>4, <1>5, <1>6, <1>7, FilesTouched DEF FilesStep

(* What a fetch serves in part is a shot whose file there is short.        *)
LEMMA TornStep ==
    ASSUME LeafInv, ShortReported, ServedWhole, [LeafNext]_leafVars
    PROVE  ServedWhole'
<1> USE DEF world, rtc, boot, leafHistory, LeafInv
<1>1. reported \subseteq reported'
  BY ReportsGrow
<1>2. ASSUME NEW e, FetchFull(e) PROVE torn' \subseteq torn \cup reported
  <2>1. backend' # Nothing =>
          backend' \in Medium /\ files'[backend'] \subseteq files[backend']
    BY <1>2, MountedFacts DEF FetchFull
  <2> QED BY <1>2, <2>1 DEF FetchFull, ShortReported
<1>3. CASE UNCHANGED torn
  BY <1>1, <1>3 DEF ServedWhole
<1>4. CASE \E e \in 1 .. MaxShots : FetchFull(e)
  BY <1>1, <1>2, <1>4 DEF ServedWhole
<1>5. CASE UNCHANGED leafVars \/ GateSteps \/ OpenFile \/ Write \/ Mkfs \/ Announce
           \/ SaveBegins \/ \E f \in files[Flash] : Evict(f)
  BY <1>3, <1>5 DEF leafVars, GateSteps, Nap, GatePasses, GateHolds, WalkUpEnds, GateCloses,
                    Gasp, Sleep, OpenFile, Write, Mkfs, Announce, SaveBegins, Evict
<1>6. CASE QuietOnes
  BY <1>3, <1>6 DEF QuietOnes, Capture, TimeSync, FormatGate, MkfsFails, Remounts, OpenFails,
                    WakeUp, CardMoves, CellMoves, Reset
<1> QED BY <1>4, <1>5, <1>6, LeafSteps DEF MountSteps

(* What answers a fetch_full is the whole original, or a shot whose save   *)
(* itself said that it had failed.                                         *)
THEOREM WholesServed == LeafSpec => []ServedWhole
<1>1. LeafInit => ServedWhole
  BY DEF LeafInit, ServedWhole
<1>2. LeafInv /\ ShortReported /\ ServedWhole /\ [LeafNext]_leafVars
        => (LeafInv /\ ShortReported /\ ServedWhole)'
  BY LeafInvStep, ShortStep, TornStep
<1> QED BY <1>1, <1>2, LeafInitInv, PTL DEF LeafSpec

-----------------------------------------------------------------------------
(* The ring.                                                               *)

(* A step that opens and writes no file adds none, and moves the save at   *)
(* hand on only as the code does: a capture takes a new shot, and between  *)
(* opening and writing neither shot, clock nor medium changes.             *)
LEMMA QuietSteps ==
    ASSUME LeafInv, [LeafNext]_leafVars, ~ OpenFile, ~ Write
    PROVE  /\ \A d \in Medium : files'[d] \subseteq files[d]
           /\ shots' \in {shots, shots + 1}
           /\ pc' \in {"save", "evict"} =>
                 shots' = shots + 1 \/ (shots' = shots /\ pc \in {"save", "evict"})
           /\ pc' = "write" => pc = "write" /\ UNCHANGED <<shots, late, backend>>
<1> USE DEF world, rtc, boot, leafHistory, LeafInv
<1>1. \A d \in Medium : files'[d] \subseteq files[d]
  BY FilesTouched, MkfsFacts, MediumFacts DEF FilesStep, Evict, LeafTypes
<1>2. CASE UNCHANGED leafVars \/ GateSteps \/ Mkfs \/ \E f \in files[Flash] : Evict(f)
  BY <1>1, <1>2 DEF leafVars, GateSteps, Nap, GatePasses, GateHolds, WalkUpEnds, GateCloses,
                    Gasp, Sleep, DeepSleep, Mkfs, Evict
<1>3. CASE Capture
  BY <1>1, <1>3 DEF Capture
<1>4. CASE MountSteps
  BY <1>1, <1>4 DEF MountSteps, Announce, SaveBegins, FetchFull
<1>5. CASE QuietOnes
  BY <1>1, <1>3, <1>5 DEF QuietOnes, TimeSync, FormatGate, MkfsFails, Remounts, OpenFails,
                          WakeUp, CardMoves, CellMoves, Reset
<1> QED BY <1>2, <1>3, <1>4, <1>5, LeafSteps

(* Every shot keeps to one file per medium.                                *)
LEMMA ApartStep ==
    ASSUME LeafInv, FilesApart, [LeafNext]_leafVars
    PROVE  FilesApart'
<1> USE DEF LeafInv
<1>num. /\ shots \in Nat
        /\ \A d \in Medium : \A f \in files[d] : f \in File /\ f.ev \in Nat
  BY LeafAssumption DEF LeafTypes, File
<1>1. CASE ~ OpenFile /\ ~ Write
  <2>1. SUFFICES ASSUME NEW d \in Medium, NEW f \in files'[d]
                 PROVE  /\ f.ev <= shots'
                        /\ pc' \in {"save", "evict"} => f.ev < shots'
                        /\ pc' = "write" /\ f.ev = shots'
                             => f = Shot("zero")' /\ d = backend'
                        /\ \A g \in files'[d] : f.ev = g.ev => f = g
    BY DEF FilesApart
  <2>2. /\ f \in files[d] /\ f.ev \in Nat /\ f.ev <= shots
        /\ \A g \in files'[d] : g \in files[d]
    BY <1>1, <1>num, QuietSteps DEF FilesApart
  <2>3. f.ev <= shots'
    BY <1>1, <1>num, <2>2, QuietSteps
  <2>4. pc' \in {"save", "evict"} => f.ev < shots'
    BY <1>1, <1>num, <2>2, QuietSteps DEF FilesApart
  <2>5. pc' = "write" /\ f.ev = shots' => f = Shot("zero")' /\ d = backend'
    BY <1>1, <2>2, QuietSteps DEF FilesApart, Shot
  <2>6. \A g \in files'[d] : f.ev = g.ev => f = g
    BY <2>2 DEF FilesApart
  <2> QED BY <2>3, <2>4, <2>5, <2>6
<1>2. CASE OpenFile
  <2>1. UNCHANGED <<shots, late, backend>> /\ Shot("zero")' = Shot("zero")
    BY <1>2, OpenFileFacts DEF rtc, Shot
  <2>2. \A d \in Medium : \A f \in files[d] : f.ev < shots
    BY <1>2, OpenFileFacts DEF FilesApart
  <2>3. pc' = "write"
    BY <1>2, OpenFileFacts
  <2>4. FilesApart'
    <3>1. \A d \in Medium : \A f \in files'[d] :
             f \in files[d] \/ (f = Shot("zero") /\ d = backend)
      BY <1>2, OpenFileFacts DEF LeafTypes
    <3>2. Shot("zero").ev = shots
      BY DEF Shot
    <3> QED BY <1>num, <2>1, <2>2, <2>3, <3>1, <3>2 DEF FilesApart
  <2> QED BY <2>4
<1>3. CASE Write
  <2>1. pc = "write" /\ pc' = "window" /\ shots' = shots
    BY <1>3, WriteFacts
  <2>2. CASE UNCHANGED files
    BY <2>1, <2>2 DEF FilesApart
  <2>3. ASSUME NEW S \in SUBSET {Shot("whole"), Shot("short"), Shot("zero")},
               files' = [files EXCEPT ![backend] = (@ \ {Shot("zero")}) \cup S],
               \A f, g \in S : f = g
        PROVE  FilesApart'
    <3>1. \A f \in S : f.ev = shots
      BY DEF Shot
    <3>2. \A d \in Medium : \A f \in files'[d] :
             (f \in files[d] /\ f.ev < shots) \/ f \in S
      BY <1>num, <2>1, <2>3 DEF FilesApart, LeafTypes
    <3> QED BY <1>num, <2>1, <2>3, <3>1, <3>2 DEF FilesApart
  <2> QED BY <1>3, <2>2, <2>3, WriteFacts
<1> QED BY <1>1, <1>2, <1>3

(* What is evicted is older than all that is kept, unless the clock lost   *)
(* time between the two: the ring is one of the newest.                    *)
THEOREM RingKeepsNewest == LeafSpec => NewestKept
<1>1. LeafInv /\ FilesApart /\ [LeafNext]_leafVars => (LeafInv /\ FilesApart)'
  BY LeafInvStep, ApartStep
<1>2. ASSUME LeafInv, FilesApart, [LeafNext]_leafVars, pc = "evict",
             NEW f \in files[Flash] \ files'[Flash],
             NEW g \in files[Flash] \cap files'[Flash]
      PROVE  f.ev < g.ev \/ f.late > g.late
  <2>1. PICK h \in files[Flash] : Evict(h)
    BY <1>2, FilesTouched, OpenFileFacts, MediumFacts
       DEF FilesStep, Mkfs, Write, LeafInv, LeafTypes
  <2>2. f = h
    BY <1>2, <2>1, MediumFacts DEF Evict, LeafInv, LeafTypes
  <2>3. f.ev - f.late <= g.ev - g.late
    BY <2>1, <2>2 DEF Evict, Oldest
  <2>4. f.ev # g.ev
    BY <1>2, MediumFacts DEF FilesApart
  <2>5. f \in File /\ g \in File
    BY MediumFacts, <1>2 DEF LeafInv, LeafTypes
  <2>6. f.ev \in Int /\ f.late \in Int /\ g.ev \in Int /\ g.late \in Int
    BY <2>5, LeafAssumption DEF File
  <2> QED BY <2>3, <2>4, <2>6
<1>3. LeafInv /\ FilesApart /\ [LeafNext]_leafVars
        => [pc = "evict" =>
              \A f \in files[Flash] \ files'[Flash], g \in files[Flash] \cap files'[Flash] :
                 f.ev < g.ev \/ f.late > g.late]_leafVars
  BY <1>2
<1> QED BY <1>1, <1>3, LeafInitInv, PTL DEF LeafSpec, NewestKept

(* A step uses up one fault at most.                                       *)
LEMMA FaultsGrow ==
    ASSUME faults \in Nat, [LeafNext]_leafVars
    PROVE  faults' \in Nat /\ faults <= faults'
<1> USE DEF world, rtc, boot, leafHistory, debts, Fault
<1>1. CASE UNCHANGED leafVars \/ GateSteps
  <2>1. CASE UNCHANGED leafVars
    BY <2>1 DEF leafVars
  <2>2. CASE GateSteps
    <3>1. UNCHANGED faults
      BY <2>2, Zenon DEF GateSteps, Nap, GatePasses, GateHolds, WalkUpEnds, GateCloses,
                         Gasp, Sleep
    <3> QED BY <3>1
  <2> QED BY <1>1, <2>1, <2>2
<1>2. CASE MountSteps
  BY <1>2 DEF MountSteps, Announce, SaveBegins, FetchFull, Mounted, FlashBegins
<1>3. CASE QuietOnes
  BY <1>3 DEF QuietOnes, Capture, TimeSync, FormatGate, MkfsFails, Remounts, OpenFails,
              WakeUp, CardMoves, CellMoves, Reset
<1>4. CASE OpenFile \/ Write \/ Mkfs \/ \E f \in files[Flash] : Evict(f)
  BY <1>4 DEF OpenFile, Write, Mkfs, Evict
<1> QED BY <1>1, <1>2, <1>3, <1>4, LeafSteps

(* The flash never holds more than LEAF_STORE_MAX_FULL originals and one   *)
(* for every fault met: only a directory that does not open, so that       *)
(* nobody counts, lets a file in past the bound.                           *)
RingBounded ==
    /\ faults \in Nat /\ IsFiniteSet(files[Flash])
    /\ Cardinality(files[Flash]) <= Cap + faults

(* Every step keeps the bound: a file is opened only where the ring has    *)
(* room or at the price of a fault, and a write replaces it.               *)
LEMMA RingStep ==
    ASSUME LeafInv, RingBounded, [LeafNext]_leafVars
    PROVE  RingBounded'
<1> USE DEF LeafInv, RingBounded
<1>num. /\ Cap \in Nat \ {0} /\ Cardinality(files[Flash]) \in Nat
        /\ faults' \in Nat /\ faults <= faults'
  BY LeafAssumption, FS_CardinalityType, FaultsGrow
<1>same. ASSUME files'[Flash] = files[Flash] PROVE RingBounded'
  BY <1>num, <1>same
<1>none. ASSUME files'[Flash] = {} PROVE RingBounded'
  BY <1>num, <1>none, FS_EmptySet
<1>1. ASSUME NEW f \in files[Flash], Evict(f) PROVE RingBounded'
  <2>1. files'[Flash] = files[Flash] \/ files'[Flash] = files[Flash] \ {f}
    BY <1>1, MediumFacts DEF Evict, LeafTypes
  <2>2. IsFiniteSet(files[Flash] \ {f})
        /\ Cardinality(files[Flash] \ {f}) = Cardinality(files[Flash]) - 1
    BY FS_RemoveElement
  <2>3. CASE files'[Flash] = files[Flash] \ {f}
    BY <1>num, <2>2, <2>3
  <2> QED BY <1>same, <2>1, <2>3
<1>2. CASE Mkfs
  BY <1>2, <1>same, MkfsFacts, MediumFacts DEF LeafTypes
<1>3. CASE OpenFile
  <2>1. CASE files'[Flash] = files[Flash]
    BY <2>1, <1>same
  <2>2. CASE files'[Flash] # files[Flash]
    <3>1. backend = Flash /\ files'[Flash] = files[Flash] \cup {Shot("zero")}
      BY <1>3, <2>2, OpenFileFacts, MediumFacts DEF LeafTypes
    <3>2. Cardinality(files[Flash]) + 1 <= Cap + faults'
      BY <1>3, <1>num, <3>1 DEF OpenFile, Full, Fault
    <3>3. /\ IsFiniteSet(files[Flash] \cup {Shot("zero")})
          /\ Cardinality(files[Flash] \cup {Shot("zero")}) \in
                {Cardinality(files[Flash]), Cardinality(files[Flash]) + 1}
      BY FS_AddElement
    <3> QED BY <1>num, <3>1, <3>2, <3>3
  <2> QED BY <2>1, <2>2
<1>4. CASE Write
  <2>1. CASE files'[Flash] = files[Flash]
    BY <2>1, <1>same
  <2>2. CASE files'[Flash] # files[Flash]
    <3>1. PICK S \in SUBSET {Shot("whole"), Shot("short"), Shot("zero")} :
            /\ files' = [files EXCEPT ![backend] = (@ \ {Shot("zero")}) \cup S]
            /\ \A f, g \in S : f = g
      BY <1>4, <2>2, WriteFacts
    <3> DEFINE rest == files[Flash] \ {Shot("zero")}
    <3>2. files'[Flash] = rest \cup S /\ Shot("zero") \in files[Flash]
      BY <1>4, <2>2, <3>1, MediumFacts, WriteFacts DEF LeafTypes, SaveShape
    <3>3. IsFiniteSet(rest) /\ Cardinality(rest) = Cardinality(files[Flash]) - 1
      BY <3>2, FS_RemoveElement
    <3>4. S = {} \/ \E x \in S : S = {x}
      BY <3>1
    <3>5. IsFiniteSet(rest \cup S)
          /\ Cardinality(rest \cup S) \in {Cardinality(rest), Cardinality(rest) + 1}
      <4>1. CASE S = {}
        <5>1. rest \cup S = rest
          BY <4>1
        <5> QED BY <3>3, <5>1
      <4>2. ASSUME NEW x \in S, S = {x}
            PROVE  /\ IsFiniteSet(rest \cup S)
                   /\ Cardinality(rest \cup S) \in {Cardinality(rest), Cardinality(rest) + 1}
        BY <3>3, <4>2, FS_AddElement
      <4> QED BY <3>4, <4>1, <4>2
    <3> QED BY <1>num, <3>2, <3>3, <3>5
  <2> QED BY <2>1, <2>2
<1>5. CASE UNCHANGED files \/ files' = [files EXCEPT ![Flash] = {}]
  BY <1>5, <1>same, <1>none, MediumFacts DEF LeafTypes
<1> QED BY <1>1, <1>2, <1>3, <1>4, <1>5, FilesTouched DEF FilesStep

(* The ring stays within its bound.                                        *)
THEOREM RingStaysBounded == LeafSpec => []RingBounded
<1>1. LeafInit => RingBounded
  <2>1. LeafInit => files[Flash] = {} /\ faults = 0
    BY MediumFacts DEF LeafInit
  <2> QED BY <2>1, FS_EmptySet, LeafAssumption DEF RingBounded
<1>2. LeafInv /\ RingBounded /\ [LeafNext]_leafVars => (LeafInv /\ RingBounded)'
  BY LeafInvStep, RingStep
<1> QED BY <1>1, <1>2, LeafInitInv, PTL DEF LeafSpec
=============================================================================
