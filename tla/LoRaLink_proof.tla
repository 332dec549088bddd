--------------------------- MODULE LoRaLink_proof --------------------------
(***************************************************************************)
(* Proofs about the radio link, for any number of packets, faults and      *)
(* profiles and any size of the sequence number: operations heal what      *)
(* faults before them left (HealInv), and a half of this boot in the far   *)
(* end's slot is as old as its number says (NumInv, HalfInv, CleanInv),    *)
(* whatever other nodes put there.                                         *)
(***************************************************************************)
EXTENDS LoRaLink, TLAPS

Arming == {"arm", "exit_arm", "arm_again"}

(* Where an operation that no fault has hit stands, command by command.    *)
HealInv ==
    /\ sound => late = None
    /\ pc = "stop" => op # "begin" /\ rearm = armed
    /\ op = "recycle" => rearm
    /\ op = "retune" /\ pc \in Arming => rearm
    /\ pc \in Starting => op = "begin"
    /\ sound /\ pc \in Starting => mode = "idle"
    /\ sound /\ pc = "p2p" /\ (op = "begin" \/ rearm) => mode = "idle"
    /\ sound /\ pc \in {"psend_again", "arm_again"} => mode = "idle"
    /\ sound /\ op \in {"begin", "retune"} /\ pc \in Arming => tune = prof
    /\ pc \in {"psend", "psend_again", "done", "done_again", "exit_psend"} =>
          op = "send"
    /\ pc = "p2p" => op \in {"begin", "retune"}
    /\ sound /\ pc \in {"done", "done_again"} => airing
    /\ OpsHeal

(* How many numbers on from q the next one is, d packets later.            *)
After(q, d) == {q + 1 + d, q + 1 + d - SeqMod}

(* A waiting half of this boot is as many packets old as the next number   *)
(* says, until the numbers come round.                                     *)
NumInv ==
    /\ half # 0 => n > boot /\ seq \in After(num, 0)
    /\ slot # None => slot.n \in 0 .. n
    /\ slot # None /\ slot.n > boot /\ n - slot.n < SeqMod =>
          seq \in After(slot.seq, n - slot.n)
    /\ up # <<>> => up[1].n \in 0 .. n /\ up[2].n \in 0 .. n

(* A half of the packet on the air that waits was heard, and one that has  *)
(* not been sent yet was not.                                              *)
HalfInv ==
    /\ half = 1 => heard[2] = 0
    /\ slot # None /\ half # 0 /\ slot.n = n => heard[slot.half] > 0
    /\ half # 0 /\ ~ echo /\ pc \in {"stop", "psend"} => heard[half] = 0

SlotInv == NumInv /\ HalfInv /\ NoMix

(* A first half heard once waits until the second has been heard.          *)
CleanInv ==
    half # 0 /\ heard[1] = 1 /\ clear =>
       /\ heard[2] = 1 => whole
       /\ heard[2] = 0 => slot # None /\ slot.n = n /\ slot.half = 1

LinkInv == TypeOK /\ HealInv /\ SlotInv /\ CleanInv

(* What the assumption says of the numbers.                                *)
LEMMA Bounds ==
    /\ SeqMod \in Nat /\ SeqMod > 1 /\ MaxSplits \in Nat /\ MaxFaults \in Nat
    /\ MaxStarts \in Nat
    /\ None \notin Frame
BY LinkAssumption DEF Frame

(* The far end, and the counts that it keeps of a packet.                  *)
FarType ==
    /\ heard \in [{1, 2} -> Nat]
    /\ slot \in Frame \cup {None}
    /\ up = <<>> \/ up \in Frame \X Frame
    /\ whole \in BOOLEAN /\ clear \in BOOLEAN /\ echo \in BOOLEAN

(* The variables of the driver and the module have their types.            *)
NodeType ==
    /\ armed \in BOOLEAN /\ rearm \in BOOLEAN /\ airing \in BOOLEAN
    /\ mode \in {"idle", "rx", "deaf"} /\ tune \in Profile /\ prof \in Profile
    /\ pc \in Starting \cup
             {"off", "idle", "stop", "p2p", "psend", "exit_psend",
              "psend_again", "done", "done_again", "arm", "exit_arm",
              "arm_again"}
    /\ op \in {"begin", "send", "retune", "recycle"}
    /\ late \in Answer \cup {None}
    /\ sound \in BOOLEAN
    /\ faults \in 0 .. MaxFaults /\ starts \in 0 .. MaxStarts

SenderType ==
    /\ seq \in 0 .. SeqMod - 1 /\ num \in 0 .. SeqMod - 1
    /\ n \in 0 .. MaxSplits /\ boot \in 0 .. n /\ half \in 0 .. 2

(* The type of the state is that of its three parts.                       *)
LEMMA Types == TypeOK <=> NodeType /\ SenderType /\ FarType
<1>1. TypeOK => NodeType
  BY Zenon DEF TypeOK, NodeType
<1>2. TypeOK => SenderType
  BY Zenon DEF TypeOK, SenderType
<1>3. TypeOK => FarType
  BY Zenon DEF TypeOK, FarType
<1>4. NodeType /\ SenderType /\ FarType => TypeOK
  BY Zenon DEF TypeOK, NodeType, SenderType, FarType
<1> QED BY <1>1, <1>2, <1>3, <1>4

(* The invariant holds at the start.                                       *)
LEMMA InitInv == Init => LinkInv
<1> SUFFICES ASSUME Init PROVE LinkInv
  OBVIOUS
<1>1. NodeType
  <2>1. 0 \in 0 .. MaxFaults /\ 0 \in 0 .. MaxStarts
    BY Bounds
  <2> QED BY <2>1 DEF Init, NodeType, Starting
<1>2. SenderType
  <2>1. 0 \in 0 .. SeqMod - 1 /\ 0 \in 0 .. MaxSplits /\ 0 \in 0 .. 0
    BY Bounds
  <2> QED BY <2>1 DEF Init, SenderType
<1>3. FarType
  <2>1. heard \in [{1, 2} -> Nat]
    BY DEF Init
  <2> QED BY <2>1 DEF Init, FarType
<1>4. HealInv
  BY DEF Init, HealInv, OpsHeal, Arming, Starting
<1>5. SlotInv /\ CleanInv
  BY DEF Init, SlotInv, NumInv, HalfInv, CleanInv, NoMix
<1> QED BY <1>1, <1>2, <1>3, <1>4, <1>5, Types DEF LinkInv

-----------------------------------------------------------------------------
(* The far end.                                                            *)

(* What a frame on the air may do to the far end.                          *)
FarMoves == UNCHANGED far \/ (half # 0 /\ HearHalf)

(* A frame on the air moves the far end as the split branch does, or not.  *)
LEMMA OnAirMoves == OnAir => FarMoves
BY DEF OnAir, FarMoves, HandleSingle

(* When a command of the driver may do so: the half is given to the module *)
(* for the first time, or the echo is noted; and it is not before that.    *)
AirRule ==
    /\ \/ UNCHANGED far
       \/ /\ half # 0 /\ HearHalf
          /\ pc = "psend" \/ echo'
          /\ pc' \notin {"stop", "psend"}
    /\ echo' \in BOOLEAN /\ (echo => echo')
    /\ pc' \in {"stop", "psend"} => pc = "stop"

(* A half that was not joined with its own packet bears another number.    *)
LEMMA NumbersDiffer ==
    ASSUME LinkInv, slot # None, slot.n > boot, half # 0
    PROVE  /\ slot.n = n => slot.seq = num
           /\ slot.n # n /\ slot.seq = num => n - slot.n >= SeqMod
<1>1. /\ slot \in Frame /\ n \in Nat /\ seq \in Nat /\ num \in 0 .. SeqMod - 1
  BY Bounds, Types DEF LinkInv, SenderType, FarType
<1>2. slot.seq \in 0 .. SeqMod - 1 /\ slot.n \in 0 .. n
  BY <1>1 DEF Frame, LinkInv, SlotInv, NumInv
<1>3. seq = num + 1 \/ seq = num + 1 - SeqMod
  BY <1>1, Bounds DEF LinkInv, SlotInv, NumInv, After
<1>4. n - slot.n < SeqMod =>
         \/ seq = slot.seq + 1 + (n - slot.n)
         \/ seq = slot.seq + 1 + (n - slot.n) - SeqMod
  BY DEF LinkInv, SlotInv, NumInv, After
<1> HIDE DEF LinkInv
<1>5. slot.n = n => slot.seq = num
  BY <1>1, <1>2, <1>3, <1>4, Bounds
<1>6. slot.n # n /\ slot.seq = num => n - slot.n >= SeqMod
  BY <1>1, <1>2, <1>3, <1>4, Bounds
<1> QED BY <1>5, <1>6

(* The far end's part of the invariant survives whatever it receives.      *)
LEMMA FarStep ==
    ASSUME LinkInv, AirRule, UNCHANGED sender
    PROVE  (FarType /\ SlotInv /\ CleanInv)'
<1>0. n' = n /\ half' = half /\ num' = num /\ seq' = seq /\ boot' = boot
  BY DEF sender
<1>a. FarType /\ SenderType
  BY Types DEF LinkInv
<1>1. CASE UNCHANGED far
  <2>0. /\ heard' = heard /\ slot' = slot /\ up' = up /\ whole' = whole
        /\ clear' = clear
    BY <1>1 DEF far
  <2>1. FarType'
    BY <1>a, <2>0 DEF AirRule, FarType
  <2>2. NumInv'
    BY <1>0, <2>0 DEF LinkInv, SlotInv, NumInv
  <2>3. HalfInv'
    BY <1>0, <2>0 DEF LinkInv, SlotInv, HalfInv, AirRule
  <2>4. NoMix'
    BY <1>0, <2>0 DEF LinkInv, SlotInv, NoMix, AirRule
  <2>5. CleanInv'
    BY <1>0, <2>0 DEF LinkInv, CleanInv
  <2> QED BY <2>1, <2>2, <2>3, <2>4, <2>5 DEF SlotInv
<1>2. CASE /\ half # 0 /\ HearHalf /\ (pc = "psend" \/ echo')
           /\ pc' \notin {"stop", "psend"}
  <2> DEFINE f == [n |-> n, half |-> half, seq |-> num]
  <2>0. /\ n \in 1 .. MaxSplits /\ half \in {1, 2} /\ num \in 0 .. SeqMod - 1
        /\ seq \in Nat /\ boot \in Nat /\ n > boot
    BY <1>2, <1>a, Bounds DEF LinkInv, SenderType, SlotInv, NumInv
  <2>1. f \in Frame /\ f.n = n /\ f.half = half /\ f.seq = num
    BY <2>0 DEF Frame
  <2>2. /\ heard' \in [{1, 2} -> Nat] /\ heard'[half] = heard[half] + 1
        /\ heard'[half] > 0
        /\ heard[1] \in Nat /\ heard[2] \in Nat
        /\ \A h \in {1, 2} : h # half => heard'[h] = heard[h]
    <3>1. heard \in [{1, 2} -> Nat]
      BY <1>a DEF FarType
    <3>2. heard' = [heard EXCEPT ![half] = heard[half] + 1]
      BY <1>2 DEF HearHalf
    <3> QED BY <2>0, <3>1, <3>2
  <2>3. /\ clear' = (IF half = 1 /\ heard[1] = 0 THEN ~ Joined(f) ELSE clear)
        /\ HandleSplit(f)
    BY <1>2 DEF HearHalf
  <2>4. half = 1 => heard[2] = 0 /\ heard'[2] = 0
    BY <2>0, <2>2 DEF LinkInv, SlotInv, HalfInv
  <2>5. echo' \in BOOLEAN /\ (echo => echo')
    BY DEF AirRule
  <2>6. CASE Joined(f)
    <3>1. slot # None /\ slot \in Frame /\ slot.seq = num
      BY <1>a, <2>1, <2>6 DEF Joined, FarType
    <3>2. slot.half \in {1, 2} /\ slot.n \in 0 .. n
      BY <3>1 DEF Frame, LinkInv, SlotInv, NumInv
    <3>3. slot' = None /\ up' = <<slot, f>> /\ whole' = (whole \/ Completes(f))
      BY <2>3, <2>6 DEF HandleSplit
    <3>4. FarType'
      <4>1. up' \in Frame \X Frame
        BY <2>1, <3>1, <3>3
      <4>2. whole' \in BOOLEAN
        BY <1>a, <3>3 DEF FarType, Completes
      <4>3. clear' \in BOOLEAN
        BY <1>a, <2>3 DEF FarType, Joined
      <4> QED BY <2>2, <2>5, <3>3, <4>1, <4>2, <4>3 DEF FarType
    <3>5. up'[1] = slot /\ up'[2] = f
      BY <3>3
    <3>6. NumInv'
      <4>1. n \in 0 .. n
        BY <2>0, Bounds
      <4> QED BY <1>0, <2>1, <3>2, <3>3, <3>5, <4>1 DEF LinkInv, SlotInv, NumInv
    <3>7. HalfInv'
      BY <1>0, <1>2, <2>4, <3>3 DEF HalfInv
    <3>8. NoMix'
      <4>1. ASSUME slot.n > boot, slot.n = n, ~ echo'
            PROVE  slot.half = 1 /\ half = 2
        <5>1. heard[half] = 0
          BY <1>2, <2>5, <4>1 DEF LinkInv, SlotInv, HalfInv
        <5>2. heard[slot.half] > 0
          BY <1>2, <3>1, <4>1 DEF LinkInv, SlotInv, HalfInv
        <5>3. slot.half # half
          BY <5>1, <5>2
        <5> QED BY <2>0, <2>4, <3>2, <5>2, <5>3
      <4>2. ASSUME slot.n > boot, slot.n # n PROVE n - slot.n >= SeqMod
        BY <1>2, <3>1, <4>2, NumbersDiffer
      <4> QED BY <1>0, <2>1, <2>5, <3>5, <4>1, <4>2 DEF NoMix
    <3>9. CleanInv'
      <4>1. CASE half = 1
        <5>1. clear' = FALSE \/ heard'[1] # 1
          <6>1. CASE heard[1] = 0
            BY <2>3, <2>6, <4>1, <6>1
          <6>2. CASE heard[1] # 0
            BY <2>2, <4>1, <6>2
          <6> QED BY <6>1, <6>2
        <5> QED BY <5>1 DEF CleanInv
      <4>2. CASE half = 2
        <5>1. heard'[1] = heard[1] /\ heard'[2] = heard[2] + 1 /\ heard'[2] # 0
          BY <2>2, <4>2
        <5>2. clear' = clear
          BY <2>3, <4>2
        <5>3. ASSUME heard'[1] = 1, heard'[2] = 1, clear' PROVE whole'
          <6>1. heard[2] = 0
            BY <2>2, <5>1, <5>3
          <6>2. slot.half = 1 /\ slot.n = n
            BY <1>2, <5>1, <5>2, <5>3, <6>1 DEF LinkInv, CleanInv
          <6> QED BY <2>1, <3>3, <4>2, <6>2 DEF Completes
        <5> QED BY <5>1, <5>3 DEF CleanInv
      <4> QED BY <2>0, <4>1, <4>2
    <3> QED BY <3>4, <3>6, <3>7, <3>8, <3>9 DEF SlotInv
  <2>7. CASE ~ Joined(f)
    <3>1. slot' = f /\ up' = up /\ whole' = whole
      BY <2>3, <2>7 DEF HandleSplit
    <3>2. FarType'
      <4>1. clear' \in BOOLEAN
        BY <1>a, <2>3 DEF FarType, Joined
      <4> QED BY <1>a, <2>1, <2>2, <2>5, <3>1, <4>1 DEF FarType
    <3>3. NumInv'
      <4>1. n \in 0 .. n /\ n - n = 0
        BY <2>0, Bounds
      <4>2. seq \in After(num, 0)
        BY <1>2 DEF LinkInv, SlotInv, NumInv
      <4> QED BY <1>0, <2>0, <2>1, <3>1, <4>1, <4>2 DEF LinkInv, SlotInv, NumInv
    <3>4. HalfInv'
      BY <1>0, <1>2, <2>1, <2>2, <2>4, <3>1 DEF HalfInv
    <3>5. NoMix'
      BY <1>0, <2>5, <3>1 DEF LinkInv, SlotInv, NoMix
    <3>6. CleanInv'
      <4>1. CASE half = 1
        <5>1. slot' # None /\ slot'.n = n /\ slot'.half = 1
          BY <2>1, <3>1, <4>1, Bounds
        <5>2. heard'[2] # 1
          BY <2>4, <4>1
        <5> QED BY <1>0, <5>1, <5>2 DEF CleanInv
      <4>2. CASE half = 2
        <5>1. heard'[1] = heard[1] /\ heard'[2] = heard[2] + 1 /\ heard'[2] # 0
          BY <2>2, <4>2
        <5>2. clear' = clear
          BY <2>3, <4>2
        <5>3. ASSUME heard'[1] = 1, heard'[2] = 1, clear' PROVE FALSE
          <6>1. heard[2] = 0
            BY <2>2, <5>1, <5>3
          <6>2. slot # None /\ slot.n = n
            BY <1>2, <5>1, <5>2, <5>3, <6>1 DEF LinkInv, CleanInv
          <6>3. slot.seq = num
            BY <1>2, <2>0, <6>2, NumbersDiffer
          <6> QED BY <2>1, <2>7, <6>2, <6>3 DEF Joined
        <5> QED BY <5>1, <5>3 DEF CleanInv
      <4> QED BY <2>0, <4>1, <4>2
    <3> QED BY <3>2, <3>3, <3>4, <3>5, <3>6 DEF SlotInv
  <2> QED BY <2>6, <2>7
<1> QED BY <1>1, <1>2 DEF AirRule

-----------------------------------------------------------------------------
(* The driver.                                                             *)

(* A fault is counted within its bound and ends the soundness of the       *)
(* operation.                                                              *)
LEMMA Faults ==
    ASSUME NodeType, Fault \/ NoFault
    PROVE  /\ faults' \in 0 .. MaxFaults /\ starts' \in 0 .. MaxStarts
           /\ sound' \in BOOLEAN /\ (sound' => sound /\ NoFault)
<1>1. CASE Fault
  <2>1. faults \in 0 .. MaxFaults /\ faults < MaxFaults /\ faults' = faults + 1
    BY <1>1 DEF Fault, NodeType
  <2>2. faults' \in 0 .. MaxFaults
    BY <2>1, Bounds
  <2>3. sound' = FALSE /\ starts' = starts
    BY <1>1 DEF Fault
  <2> QED BY <2>2, <2>3 DEF NodeType
<1>2. CASE NoFault
  BY <1>2 DEF NoFault, limits, NodeType
<1> QED BY <1>1, <1>2

(* What a command may leave behind, and what it does when nothing is late  *)
(* and no fault strikes.                                                   *)
LEMMA TellsMoves ==
    ASSUME NodeType, NEW c, NEW got, Tells(c, got)
    PROVE  /\ mode' \in {"idle", "rx", "deaf"} /\ tune' \in Profile
           /\ airing' \in BOOLEAN /\ late' \in Answer \cup {None}
           /\ faults' \in 0 .. MaxFaults /\ starts' \in 0 .. MaxStarts
           /\ sound' \in BOOLEAN
           /\ FarMoves
           /\ c # "psend" => UNCHANGED far
           /\ sound' => sound
           /\ sound' /\ late = None =>
                 /\ late' = None /\ Obeys(c)
                 /\ got = (IF Refused(c) THEN "error" ELSE "ok")
<1> DEFINE own == IF Refused(c) THEN "error" ELSE "ok"
<1>1. CASE Obeys(c) /\ Reads(own, got)
  <2>1. mode' \in {"idle", "rx", "deaf"} /\ tune' \in Profile
    BY <1>1 DEF Obeys, NodeType
  <2>2. airing' \in BOOLEAN /\ FarMoves /\ (c # "psend" => UNCHANGED far)
    BY <1>1, OnAirMoves DEF Obeys, NodeType, FarMoves
  <2>3. late' \in Answer \cup {None}
    BY <1>1 DEF Reads, NodeType, Answer
  <2>4. Fault \/ NoFault
    BY <1>1 DEF Reads
  <2>5. ASSUME sound', late = None PROVE late' = None /\ got = own
    <3>1. ~ Fault
      BY <2>5 DEF Fault
    <3> QED BY <1>1, <2>5, <3>1 DEF Reads
  <2> QED BY <1>1, <2>1, <2>2, <2>3, <2>4, <2>5, Faults
<1>2. CASE /\ UNCHANGED <<mode, tune, airing, far>> /\ got \in {"none", "error"}
           /\ late' = None /\ Fault
  <2>1. ~ sound'
    BY <1>2 DEF Fault
  <2> QED BY <1>2, <2>1, Faults DEF NodeType, FarMoves
<1> QED BY <1>1, <1>2 DEF Tells

(* A command other than PSEND leaves the far end and the echo alone.       *)
LEMMA QuietAir ==
    ASSUME LinkInv, UNCHANGED far, echo' = echo,
           pc' \in {"stop", "psend"} => pc = "stop"
    PROVE  AirRule
<1>1. echo \in BOOLEAN
  BY Types DEF LinkInv, FarType
<1> QED BY <1>1 DEF AirRule

(* Every command of the driver keeps the node's part of the invariant.     *)
LEMMA DriverStep ==
    ASSUME LinkInv, Driver
    PROVE  NodeType' /\ HealInv' /\ AirRule /\ UNCHANGED sender
<1> NodeType
  BY Types DEF LinkInv
<1> HealInv
  BY DEF LinkInv
<1>e. echo \in BOOLEAN
  BY Types DEF LinkInv, FarType
<1>0. ASSUME NEW b \in BOOLEAN, Handshake(b)
      PROVE  NodeType' /\ HealInv' /\ AirRule /\ UNCHANGED sender
  <2>0. /\ pc \in {"hello", "mode"} /\ op' = op /\ rearm' = rearm
        /\ UNCHANGED sender /\ prof' = prof /\ echo' = echo
        /\ armed' = armed /\ mode' = mode /\ tune' = tune /\ airing' = airing
        /\ UNCHANGED far
        /\ op = "begin"
    BY <1>0 DEF Handshake, Go, Proceed, sender, HealInv, Starting
  <2>1. /\ ~ b => pc' = "off"
        /\ b => pc' \in {"mode", "encry"}
    BY <1>0 DEF Handshake, Go, Proceed
  <2>2. /\ late' \in Answer \cup {None}
        /\ Fault \/ NoFault
        /\ sound' => b /\ late' = None
    BY <1>0 DEF Handshake, Fault, Answer
  <2>3. /\ faults' \in 0 .. MaxFaults /\ starts' \in 0 .. MaxStarts
        /\ sound' \in BOOLEAN /\ (sound' => sound)
    BY <2>2, Faults
  <2>4. NodeType'
    BY <2>0, <2>1, <2>2, <2>3 DEF NodeType, Starting
  <2>5. sound' => mode = "idle"
    BY <2>0, <2>3 DEF HealInv, Starting
  <2>6. HealInv'
    BY <2>0, <2>1, <2>2, <2>3, <2>5 DEF HealInv, OpsHeal, Arming, Starting
  <2>7. AirRule
    BY <2>0, <2>1, QuietAir
  <2> QED BY <2>0, <2>4, <2>6, <2>7
<1>9. ASSUME NEW got \in Answer \cup {"none"}, Encry(got)
      PROVE  NodeType' /\ HealInv' /\ AirRule /\ UNCHANGED sender
  <2>0. /\ pc = "encry" /\ op' = op /\ rearm' = rearm /\ UNCHANGED sender
        /\ prof' = prof /\ echo' = echo /\ armed' = armed /\ pc' = "p2p"
        /\ op = "begin"
        /\ Tells("encry", got)
    BY <1>9 DEF Encry, Go, Proceed, sender, HealInv, Starting
  <2>1. UNCHANGED far
    BY <2>0, TellsMoves
  <2>2. sound' => sound /\ late' = None /\ mode' = mode /\ mode = "idle"
    BY <2>0, TellsMoves DEF HealInv, Obeys, Starting
  <2>3. NodeType'
    BY <2>0, TellsMoves DEF NodeType
  <2>4. HealInv'
    BY <2>0, <2>2 DEF HealInv, OpsHeal, Arming, Starting
  <2>5. AirRule
    BY <2>0, <2>1, QuietAir
  <2> QED BY <2>0, <2>3, <2>4, <2>5
<1>1. ASSUME NEW got \in Answer \cup {"none"}, Stop(got)
      PROVE  NodeType' /\ HealInv' /\ AirRule /\ UNCHANGED sender
  <2>0. /\ pc = "stop" /\ op' = op /\ rearm' = rearm /\ UNCHANGED sender
        /\ prof' = prof /\ echo' = echo
        /\ op \in {"send", "retune", "recycle"} /\ rearm = armed
        /\ armed' = FALSE
    BY <1>1 DEF Stop, Go, Proceed, HealInv, NodeType, sender
  <2>1. pc' = CASE op = "send" -> "psend"
               [] op = "retune" -> "p2p"
               [] op = "recycle" -> "arm"
    BY <1>1 DEF Stop, Go, Proceed
  <2>2. /\ op = "send" => pc' = "psend"
        /\ op = "retune" => pc' = "p2p"
        /\ op = "recycle" => pc' = "arm"
    BY <2>1
  <2>3. /\ mode' \in {"idle", "rx", "deaf"} /\ tune' \in Profile
        /\ airing' \in BOOLEAN
        /\ late' \in Answer \cup {None} /\ faults' \in 0 .. MaxFaults
        /\ starts' \in 0 .. MaxStarts /\ sound' \in BOOLEAN
        /\ UNCHANGED far
        /\ sound' => late' = None
        /\ sound' /\ armed => mode' = "idle"
    <3>1. CASE armed
      <4>1. Tells("stop", got)
        BY <1>1, <3>1 DEF Stop
      <4>2. Obeys("stop") => mode' = "idle"
        BY DEF Obeys
      <4> QED BY <4>1, <4>2, TellsMoves DEF HealInv
    <3>2. CASE ~ armed
      BY <1>1, <3>2 DEF Stop, NodeType, HealInv, module, limits
    <3> QED BY <3>1, <3>2 DEF NodeType
  <2>4. NodeType'
    BY <2>0, <2>2, <2>3 DEF NodeType
  <2>5. HealInv'
    BY <2>0, <2>2, <2>3 DEF HealInv, OpsHeal, Arming, Starting
  <2>6. AirRule
    BY <2>0, <2>3, QuietAir
  <2> QED BY <2>0, <2>4, <2>5, <2>6
<1>2. ASSUME NEW got \in Answer \cup {"none"}, Arm(got)
      PROVE  NodeType' /\ HealInv' /\ AirRule /\ UNCHANGED sender
  <2>0. /\ pc = "arm" /\ op' = op /\ rearm' = rearm /\ UNCHANGED sender
        /\ prof' = prof /\ echo' = echo
        /\ armed' = (IF got = "ok" THEN TRUE ELSE armed)
        /\ pc' = (IF got = "ok" THEN "idle" ELSE "exit_arm")
        /\ Tells("arm", got)
    BY <1>2 DEF Arm, Go, Proceed, sender
  <2>1. /\ sound' => sound /\ late' = None
        /\ sound' /\ got = "ok" => mode' = "rx" /\ tune' = tune
    BY <2>0, TellsMoves DEF HealInv, Obeys, Refused
  <2>2. NodeType'
    BY <2>0, TellsMoves DEF NodeType
  <2>3. HealInv'
    BY <2>0, <2>1, TellsMoves DEF HealInv, OpsHeal, Arming, Starting, Obeys
  <2>4. UNCHANGED far
    BY <2>0, TellsMoves
  <2>5. AirRule
    BY <2>0, <2>4, QuietAir
  <2> QED BY <2>0, <2>2, <2>3, <2>5
<1>3. ASSUME NEW got \in Answer \cup {"none"}, Exit(got)
      PROVE  NodeType' /\ HealInv' /\ AirRule /\ UNCHANGED sender
  <2>0. /\ pc \in {"exit_arm", "exit_psend"} /\ op' = op /\ rearm' = rearm
        /\ UNCHANGED sender
        /\ prof' = prof /\ echo' = echo
        /\ armed' = FALSE
        /\ pc' = (IF pc = "exit_arm" THEN "arm_again" ELSE "psend_again")
        /\ Tells("stop", got)
    BY <1>3 DEF Exit, Go, Proceed, sender
  <2>1. sound' => sound /\ late' = None /\ mode' = "idle" /\ tune' = tune
    BY <2>0, TellsMoves DEF HealInv, Obeys
  <2>2. NodeType'
    BY <2>0, TellsMoves DEF NodeType
  <2>3. HealInv'
    BY <2>0, <2>1 DEF HealInv, OpsHeal, Arming, Starting
  <2>4. UNCHANGED far
    BY <2>0, TellsMoves
  <2>5. AirRule
    BY <2>0, <2>4, QuietAir
  <2> QED BY <2>0, <2>2, <2>3, <2>5
<1>4. ASSUME NEW got \in Answer \cup {"none"}, ArmAgain(got)
      PROVE  NodeType' /\ HealInv' /\ AirRule /\ UNCHANGED sender
  <2>0. /\ pc = "arm_again" /\ op' = op /\ rearm' = rearm /\ UNCHANGED sender
        /\ prof' = prof /\ echo' = echo
        /\ armed' = (got = "ok") /\ pc' = "idle"
        /\ Tells("arm", got)
    BY <1>4 DEF ArmAgain, Go, Proceed, sender
  <2>1. sound' => /\ sound /\ late' = None /\ got = "ok"
                  /\ mode' = "rx" /\ tune' = tune
    BY <2>0, TellsMoves DEF HealInv, Obeys, Refused
  <2>2. NodeType'
    BY <2>0, TellsMoves DEF NodeType
  <2>3. HealInv'
    BY <2>0, <2>1 DEF HealInv, OpsHeal, Arming, Starting
  <2>4. UNCHANGED far
    BY <2>0, TellsMoves
  <2>5. AirRule
    BY <2>0, <2>4, QuietAir
  <2> QED BY <2>0, <2>2, <2>3, <2>5
<1>5. ASSUME NEW got \in Answer \cup {"none"}, P2P(got)
      PROVE  NodeType' /\ HealInv' /\ AirRule /\ UNCHANGED sender
  <2>0. /\ pc = "p2p" /\ op' = op /\ rearm' = rearm /\ UNCHANGED sender
        /\ prof' = prof /\ echo' = echo
        /\ armed' = armed /\ op \in {"begin", "retune"}
        /\ Tells("p2p", got)
    BY <1>5 DEF P2P, Go, Proceed, sender, HealInv
  <2>a. pc' = CASE op = "begin" -> IF got = "ok" THEN "arm" ELSE "off"
               [] op = "retune" -> IF rearm THEN "arm" ELSE "idle"
    BY <1>5 DEF P2P, Go, Proceed
  <2>b. /\ op = "begin" => pc' = (IF got = "ok" THEN "arm" ELSE "off")
        /\ op = "retune" => pc' = (IF rearm THEN "arm" ELSE "idle")
        /\ pc' \in {"arm", "off", "idle"}
    BY <2>0, <2>a
  <2>1. /\ sound' => sound /\ late' = None
        /\ sound' /\ (op = "begin" \/ rearm) => tune' = prof /\ got = "ok"
    BY <2>0, TellsMoves DEF HealInv, Obeys, Refused
  <2>2. NodeType'
    BY <2>0, <2>b, TellsMoves DEF NodeType
  <2>3. HealInv'
    BY <2>0, <2>b, <2>1 DEF HealInv, OpsHeal, Arming, Starting
  <2>4. UNCHANGED far
    BY <2>0, TellsMoves
  <2>5. AirRule
    BY <2>0, <2>b, <2>4, QuietAir
  <2> QED BY <2>0, <2>2, <2>3, <2>5
<1>6. ASSUME NEW got \in Answer \cup {"none"}, PSend(got)
      PROVE  NodeType' /\ HealInv' /\ AirRule /\ UNCHANGED sender
  <2>0. /\ pc = "psend" /\ op' = op /\ rearm' = rearm /\ UNCHANGED sender
        /\ prof' = prof /\ echo' = echo
        /\ armed' = armed /\ op = "send"
        /\ Tells("psend", got)
    BY <1>6 DEF PSend, Go, Proceed, sender, HealInv
  <2>1. /\ got = "ok" => pc' = "done"
        /\ got = "error" => pc' = "exit_psend"
        /\ got = "none" => pc' = "arm"
    BY <1>6 DEF PSend, Go, Proceed
  <2>2. /\ sound' => sound /\ late' = None
        /\ sound' /\ got = "ok" => airing'
    BY <2>0, TellsMoves DEF HealInv, Obeys, Refused
  <2>3. got \in {"ok", "error", "none"}
    BY <1>6 DEF Answer
  <2>4. NodeType'
    BY <2>0, <2>1, <2>3, TellsMoves DEF NodeType
  <2>5. HealInv'
    BY <2>0, <2>1, <2>2, <2>3 DEF HealInv, OpsHeal, Arming, Starting
  <2>6. AirRule
    BY <2>0, <2>1, <2>3, <1>e, TellsMoves DEF AirRule, FarMoves
  <2> QED BY <2>0, <2>4, <2>5, <2>6
<1>7. ASSUME NEW got \in Answer \cup {"none"}, PSendAgain(got)
      PROVE  NodeType' /\ HealInv' /\ AirRule /\ UNCHANGED sender
  <2>0. /\ pc = "psend_again" /\ op' = op /\ rearm' = rearm /\ UNCHANGED sender
        /\ prof' = prof /\ echo' = (echo \/ half # 0)
        /\ armed' = armed /\ op = "send"
        /\ pc' = (IF got = "ok" THEN "done_again" ELSE "arm")
        /\ Tells("psend", got)
    BY <1>7 DEF PSendAgain, Proceed, sender, HealInv
  <2>1. /\ sound' => sound /\ late' = None
        /\ sound' /\ got = "ok" => airing'
    BY <2>0, TellsMoves DEF HealInv, Obeys, Refused
  <2>2. NodeType'
    BY <2>0, TellsMoves DEF NodeType
  <2>3. HealInv'
    BY <2>0, <2>1 DEF HealInv, OpsHeal, Arming, Starting
  <2>4. echo' \in BOOLEAN /\ (echo => echo') /\ (half # 0 => echo')
    BY <2>0, <1>e
  <2>5. AirRule
    BY <2>0, <2>4, TellsMoves DEF AirRule, FarMoves
  <2> QED BY <2>0, <2>2, <2>3, <2>5
<1>8. ASSUME NEW comes \in BOOLEAN, Done(comes)
      PROVE  NodeType' /\ HealInv' /\ AirRule /\ UNCHANGED sender
  <2>0. /\ pc \in {"done", "done_again"} /\ op' = op /\ rearm' = rearm
        /\ UNCHANGED sender /\ prof' = prof /\ echo' = echo /\ armed' = armed
        /\ op = "send" /\ mode' = mode /\ tune' = tune
        /\ UNCHANGED far /\ late' = None /\ airing' = FALSE
        /\ pc' = (IF comes \/ pc = "done_again" THEN "arm" ELSE "psend_again")
    BY <1>8 DEF Done, Go, Proceed, sender, HealInv
  <2>1. Fault \/ NoFault
    BY <1>8 DEF Done
  <2>2. sound' => sound /\ pc' = "arm"
    <3>1. ASSUME sound' PROVE sound /\ comes
      <4>1. sound /\ ~ Fault
        BY <2>1, <3>1, Faults DEF Fault
      <4>2. airing
        BY <2>0, <4>1 DEF HealInv
      <4> QED BY <1>8, <4>1, <4>2 DEF Done
    <3> QED BY <2>0, <3>1
  <2>3. NodeType'
    BY <2>0, <2>1, Faults DEF NodeType
  <2>4. HealInv'
    BY <2>0, <2>2 DEF HealInv, OpsHeal, Arming, Starting
  <2>5. AirRule
    BY <2>0, QuietAir
  <2> QED BY <2>0, <2>3, <2>4, <2>5
<1> QED BY <1>0, <1>9, <1>1, <1>2, <1>3, <1>4, <1>5, <1>6, <1>7, <1>8 DEF Driver

-----------------------------------------------------------------------------
(* The operations and the rest.                                            *)

(* An operation begins sound unless an answer is still on its way.         *)
LEMMA BeginsStep ==
    ASSUME NodeType, HealInv, NEW what \in {"send", "retune", "recycle"},
           NEW h \in 0 .. 2, Begins(what, h), prof' \in Profile,
           what = "recycle" => armed
    PROVE  NodeType' /\ HealInv'
<1>1. /\ pc = "idle" /\ op' = what /\ pc' = "stop" /\ rearm' = armed
      /\ sound' = (late = None) /\ armed' = armed /\ mode' = mode
      /\ tune' = tune /\ airing' = airing /\ late' = late /\ faults' = faults
      /\ starts' = starts
  BY DEF Begins, module, limits
<1>2. NodeType'
  BY <1>1 DEF NodeType
<1>3. HealInv'
  BY <1>1 DEF HealInv, OpsHeal, Arming, Starting
<1> QED BY <1>2, <1>3

(* What is told of the packet before is forgotten.                         *)
LEMMA AfreshFar ==
    ASSUME FarType, Afresh, slot' = slot
    PROVE  FarType' /\ NoMix' /\ CleanInv'
<1>1. /\ heard' \in [{1, 2} -> Nat] /\ heard'[1] = 0 /\ heard'[2] = 0
      /\ clear' = FALSE /\ echo' = FALSE /\ up' = <<>> /\ whole' = FALSE
  BY DEF Afresh
<1>2. FarType'
  BY <1>1 DEF FarType
<1>3. NoMix' /\ CleanInv'
  BY <1>1 DEF NoMix, CleanInv
<1> QED BY <1>2, <1>3

(* An operation that sends no half leaves the numbers alone.               *)
LEMMA NoHalfStep ==
    ASSUME LinkInv, NEW what \in {"send", "retune", "recycle"},
           Begins(what, 0), UNCHANGED <<seq, num, n>>
    PROVE  (SenderType /\ FarType /\ SlotInv /\ CleanInv)'
<1>1. /\ half' = 0 /\ slot' = slot /\ boot' = boot /\ Afresh
      /\ seq' = seq /\ num' = num /\ n' = n
  BY DEF Begins
<1>2. SenderType /\ FarType
  BY Types DEF LinkInv
<1>3. (FarType /\ NoMix /\ CleanInv)'
  BY <1>1, <1>2, AfreshFar
<1>4. SenderType'
  BY <1>1, <1>2 DEF SenderType
<1>5. up' = <<>>
  BY <1>1 DEF Afresh
<1>6. NumInv'
  BY <1>1, <1>5 DEF LinkInv, SlotInv, NumInv
<1>7. HalfInv'
  BY <1>1 DEF HalfInv
<1> QED BY <1>3, <1>4, <1>6, <1>7 DEF SlotInv

(* A packet in two frames takes the next number, and a half that waits is  *)
(* one packet older.                                                       *)
LEMMA FirstHalfStep ==
    ASSUME LinkInv, SendFirstHalf
    PROVE  (SenderType /\ FarType /\ SlotInv /\ CleanInv)'
<1>1. /\ half' = 1 /\ slot' = slot /\ boot' = boot /\ Afresh
      /\ n < MaxSplits /\ n' = n + 1 /\ num' = seq /\ seq' = NextSeq
  BY DEF SendFirstHalf, Begins
<1>2. SenderType /\ FarType
  BY Types DEF LinkInv
<1>3. (FarType /\ NoMix /\ CleanInv)'
  BY <1>1, <1>2, AfreshFar
<1>4. /\ n \in Nat /\ boot \in Nat /\ boot <= n /\ seq \in 0 .. SeqMod - 1
      /\ n' \in 0 .. MaxSplits /\ boot' \in 0 .. n' /\ n' > boot'
  BY <1>1, <1>2, Bounds DEF SenderType
<1>5. seq' \in 0 .. SeqMod - 1 /\ (seq' = seq + 1 \/ seq' = seq + 1 - SeqMod)
  BY <1>1, <1>4, Bounds DEF NextSeq
<1>6. SenderType'
  BY <1>1, <1>4, <1>5 DEF SenderType
<1>7. slot # None => slot.n \in 0 .. n /\ slot.seq \in 0 .. SeqMod - 1
  BY <1>2 DEF LinkInv, SlotInv, NumInv, FarType, Frame
<1>8. ASSUME slot # None, slot.n > boot, n' - slot.n < SeqMod
      PROVE  seq' \in After(slot.seq, n' - slot.n)
  <2>1. n - slot.n < SeqMod
    BY <1>1, <1>4, <1>7, <1>8, Bounds
  <2>2. \/ seq = slot.seq + 1 + (n - slot.n)
        \/ seq = slot.seq + 1 + (n - slot.n) - SeqMod
    BY <1>8, <2>1 DEF LinkInv, SlotInv, NumInv, After
  <2>3. \/ seq' = slot.seq + 1 + (n' - slot.n)
        \/ seq' = slot.seq + 1 + (n' - slot.n) - SeqMod
    BY <1>1, <1>4, <1>5, <1>7, <1>8, <2>1, <2>2, Bounds
  <2> QED BY <2>3 DEF After
<1>9. slot # None => slot.n \in 0 .. n' /\ slot.n # n'
  BY <1>1, <1>4, <1>7
<1>10. seq' \in After(num', 0)
  BY <1>1, <1>4, <1>5, Bounds DEF After
<1>11. up' = <<>> /\ heard'[1] = 0 /\ heard'[2] = 0
  BY <1>1 DEF Afresh
<1>12. NumInv'
  BY <1>1, <1>4, <1>8, <1>9, <1>10, <1>11 DEF NumInv
<1>13. HalfInv'
  BY <1>1, <1>9, <1>11 DEF HalfInv
<1> QED BY <1>3, <1>6, <1>12, <1>13 DEF SlotInv

(* The second half is sent under the number of the first.                  *)
LEMMA SecondHalfStep ==
    ASSUME LinkInv, SendSecondHalf
    PROVE  (SenderType /\ FarType /\ SlotInv /\ CleanInv)'
<1>1. /\ half = 1 /\ half' = 2 /\ pc' = "stop"
      /\ slot' = slot /\ boot' = boot /\ seq' = seq /\ num' = num /\ n' = n
      /\ heard' = heard /\ clear' = clear /\ echo' = echo
      /\ up' = up /\ whole' = whole
  BY DEF SendSecondHalf, Begins
<1>2. SenderType /\ FarType
  BY Types DEF LinkInv
<1>3. SenderType' /\ FarType'
  BY <1>1, <1>2 DEF SenderType, FarType
<1>4. NumInv'
  BY <1>1 DEF LinkInv, SlotInv, NumInv
<1>5. HalfInv'
  BY <1>1 DEF LinkInv, SlotInv, HalfInv
<1>6. NoMix'
  BY <1>1 DEF LinkInv, SlotInv, NoMix
<1>7. CleanInv'
  BY <1>1 DEF LinkInv, CleanInv
<1> QED BY <1>3, <1>4, <1>5, <1>6, <1>7 DEF SlotInv

(* A step that leaves the sender where it is and the far end alone.        *)
LEMMA FarRests ==
    ASSUME LinkInv, UNCHANGED <<sender, echo, far>>,
           pc' \in {"stop", "psend"} => pc' = pc
    PROVE  (SenderType /\ FarType /\ SlotInv /\ CleanInv)'
<1>1. /\ half' = half /\ slot' = slot /\ boot' = boot
      /\ seq' = seq /\ num' = num /\ n' = n
      /\ heard' = heard /\ clear' = clear /\ echo' = echo
      /\ up' = up /\ whole' = whole
  BY DEF sender, far
<1>2. SenderType /\ FarType
  BY Types DEF LinkInv
<1>3. SenderType' /\ FarType'
  BY <1>1, <1>2 DEF SenderType, FarType
<1>4. NumInv'
  BY <1>1 DEF LinkInv, SlotInv, NumInv
<1>5. HalfInv'
  BY <1>1 DEF LinkInv, SlotInv, HalfInv
<1>6. NoMix'
  BY <1>1 DEF LinkInv, SlotInv, NoMix
<1>7. CleanInv'
  BY <1>1 DEF LinkInv, CleanInv
<1> QED BY <1>3, <1>4, <1>5, <1>6, <1>7 DEF SlotInv

(* A half that is given up, or taken over by another node's.               *)
LEMMA SlotLost ==
    ASSUME LinkInv, UNCHANGED <<sender, echo, heard, pc>>, clear' = FALSE,
           \/ slot' = None
           \/ slot' # None /\ slot' \in Frame /\ slot'.n = 0,
           \/ up' = up
           \/ /\ up' \in Frame \X Frame /\ up'[1].n \in 0 .. n
              /\ up'[2].n = 0,
           whole' \in BOOLEAN
    PROVE  (SenderType /\ FarType /\ SlotInv /\ CleanInv)'
<1>1. /\ half' = half /\ boot' = boot /\ seq' = seq /\ num' = num /\ n' = n
      /\ heard' = heard /\ echo' = echo /\ pc' = pc
  BY DEF sender
<1>2. SenderType /\ FarType
  BY Types DEF LinkInv
<1>3. SenderType'
  BY <1>1, <1>2 DEF SenderType
<1>4. FarType'
  BY <1>1, <1>2 DEF FarType
<1>5. boot \in Nat /\ n \in Nat
  BY <1>2, Bounds DEF SenderType
<1>6. NumInv'
  <2>1. 0 \in 0 .. n
    BY <1>5
  <2> QED BY <1>1, <1>5, <2>1 DEF LinkInv, SlotInv, NumInv
<1>7. HalfInv'
  <2>1. half # 0 => n # 0
    BY <1>5 DEF LinkInv, SlotInv, NumInv
  <2> QED BY <1>1, <2>1 DEF LinkInv, SlotInv, HalfInv
<1>8. NoMix'
  BY <1>1, <1>5 DEF LinkInv, SlotInv, NoMix
<1>9. CleanInv'
  BY DEF CleanInv
<1> QED BY <1>3, <1>4, <1>6, <1>7, <1>8, <1>9 DEF SlotInv

(* Every step keeps the invariant.                                         *)
LEMMA StepInv == LinkInv /\ [Next]_vars => LinkInv'
<1> SUFFICES ASSUME LinkInv, [Next]_vars PROVE LinkInv'
  OBVIOUS
<1>a. NodeType /\ SenderType /\ FarType /\ HealInv
  BY Types DEF LinkInv
<1> DEFINE Rest == SenderType /\ FarType /\ SlotInv /\ CleanInv
<1> SUFFICES NodeType' /\ HealInv' /\ Rest'
  <2>1. (TypeOK <=> NodeType /\ SenderType /\ FarType)'
    BY Types, PTL
  <2> QED BY <2>1 DEF LinkInv
<1>1. CASE Driver
  <2>1. SenderType'
    BY <1>1, <1>a, DriverStep DEF SenderType, sender
  <2> QED BY <1>1, <2>1, DriverStep, FarStep
<1>2. CASE SendSingle
  <2>1. Begins("send", 0) /\ UNCHANGED <<seq, num, n>> /\ prof' \in Profile
    BY <1>2, <1>a DEF SendSingle, NodeType
  <2>2. NodeType' /\ HealInv'
    BY <1>a, <2>1, BeginsStep
  <2> QED BY <2>1, <2>2, NoHalfStep
<1>3. CASE SendFirstHalf
  <2>1. Begins("send", 1) /\ prof' \in Profile
    BY <1>3, <1>a DEF SendFirstHalf, NodeType
  <2>2. NodeType' /\ HealInv'
    BY <1>a, <2>1, BeginsStep
  <2> QED BY <1>3, <2>2, FirstHalfStep
<1>4. CASE SendSecondHalf
  <2>1. Begins("send", 2) /\ prof' \in Profile
    BY <1>4, <1>a DEF SendSecondHalf, NodeType
  <2>2. NodeType' /\ HealInv'
    BY <1>a, <2>1, BeginsStep
  <2> QED BY <1>4, <2>2, SecondHalfStep
<1>5. ASSUME NEW p \in Profile, Retune(p)
      PROVE  NodeType' /\ HealInv' /\ Rest'
  <2>1. prof' \in Profile /\ UNCHANGED <<seq, num, n>>
    BY <1>5 DEF Retune
  <2>2. CASE Begins("retune", 0)
    <3>1. NodeType' /\ HealInv'
      BY <1>a, <2>1, <2>2, BeginsStep
    <3> QED BY <2>1, <2>2, <3>1, NoHalfStep
  <2>3. CASE /\ pc = "off"
             /\ UNCHANGED <<driver, module, half, boot, echo, far, sound, limits>>
    <3>1. /\ pc' = "off" /\ op' = op /\ rearm' = rearm /\ armed' = armed
          /\ mode' = mode /\ tune' = tune /\ airing' = airing /\ late' = late
          /\ sound' = sound /\ faults' = faults /\ starts' = starts
          /\ half' = half /\ boot' = boot /\ echo' = echo /\ UNCHANGED far
      BY <2>3 DEF driver, module, limits
    <3>a. ~ sound'
      BY <1>a, <2>3, <3>1 DEF HealInv, OpsHeal
    <3>b. NodeType'
      BY <1>a, <2>1, <3>1 DEF NodeType
    <3>c. HealInv'
      BY <1>a, <3>1, <3>a DEF HealInv, OpsHeal, Arming, Starting
    <3>2. NodeType' /\ HealInv'
      BY <3>b, <3>c
    <3>3. SenderType'
      BY <1>a, <2>1, <3>1 DEF SenderType
    <3>4. /\ heard' = heard /\ slot' = slot /\ up' = up /\ whole' = whole
          /\ clear' = clear /\ pc' = pc
          /\ seq' = seq /\ num' = num /\ n' = n
      BY <2>1, <2>3, <3>1 DEF far
    <3>5. FarType' /\ SlotInv' /\ CleanInv'
      BY <1>a, <3>1, <3>4
      DEF LinkInv, FarType, SlotInv, NumInv, HalfInv, NoMix, CleanInv
    <3> QED BY <3>2, <3>3, <3>5
  <2> QED BY <1>5, <2>2, <2>3 DEF Retune
<1>6. CASE Recycle
  <2>1. /\ armed /\ Begins("recycle", 0) /\ UNCHANGED <<seq, num, n>>
        /\ prof' \in Profile
    BY <1>6, <1>a DEF Recycle, NodeType
  <2>2. NodeType' /\ HealInv'
    BY <1>a, <2>1, BeginsStep
  <2> QED BY <2>1, <2>2, NoHalfStep
<1>7. CASE Drain
  <2>1. /\ pc = "idle" /\ late' = None
        /\ UNCHANGED <<driver, mode, tune, airing, sender, echo, far>>
        /\ UNCHANGED <<sound, limits>>
    BY <1>7 DEF Drain
  <2>2. NodeType' /\ HealInv'
    BY <1>a, <2>1
    DEF NodeType, HealInv, OpsHeal, Arming, Starting, driver, sender, limits
  <2>3. Rest'
    BY <2>1, FarRests DEF driver
  <2> QED BY <2>2, <2>3
<1>8. ASSUME NEW p \in Profile, Restart(p)
      PROVE  NodeType' /\ HealInv' /\ Rest'
  <2>1. /\ armed' = FALSE /\ pc' = "hello" /\ op' = "begin" /\ rearm' = FALSE
        /\ mode' = "idle" /\ tune' = tune /\ airing' = FALSE /\ late' = None
        /\ prof' = p /\ seq' = 0 /\ half' = 0 /\ sound' = TRUE /\ boot' = n
        /\ num' = num /\ n' = n /\ echo' = echo /\ heard' = heard
        /\ clear' = clear /\ slot' = slot /\ up' = up /\ whole' = whole
        /\ faults' = faults /\ starts < MaxStarts /\ starts' = starts + 1
    BY <1>8 DEF Restart, far
  <2>2. starts' \in 0 .. MaxStarts
    BY <1>a, <2>1, Bounds DEF NodeType
  <2>3. NodeType' /\ HealInv'
    BY <1>a, <2>1, <2>2 DEF NodeType, HealInv, OpsHeal, Arming, Starting
  <2>4. 0 \in 0 .. SeqMod - 1 /\ n \in 0 .. n
    BY <1>a, Bounds DEF SenderType
  <2>5. SenderType' /\ FarType'
    BY <1>a, <2>1, <2>4 DEF SenderType, FarType
  <2>6. n \in Nat
    BY <1>a, Bounds DEF SenderType
  <2>7. NumInv'
    BY <2>1, <2>6 DEF LinkInv, SlotInv, NumInv
  <2>8. HalfInv' /\ CleanInv'
    BY <2>1 DEF HalfInv, CleanInv
  <2>9. NoMix'
    BY <2>1, <2>6 DEF LinkInv, SlotInv, NumInv, NoMix
  <2> QED BY <2>3, <2>5, <2>7, <2>8, <2>9 DEF SlotInv
<1>9. CASE GoesDeaf
  <2>1. /\ mode' = "deaf" /\ Fault
        /\ UNCHANGED <<driver, tune, airing, late, sender, echo, far>>
    BY <1>9 DEF GoesDeaf
  <2>2. /\ ~ sound' /\ sound' \in BOOLEAN /\ faults' \in 0 .. MaxFaults
        /\ starts' \in 0 .. MaxStarts
    BY <1>a, <2>1, Faults DEF Fault
  <2>3. NodeType'
    BY <1>a, <2>1, <2>2 DEF NodeType, driver, sender
  <2>4. HealInv'
    BY <1>a, <2>1, <2>2
    DEF HealInv, OpsHeal, Arming, Starting, driver, sender
  <2>5. Rest'
    BY <2>1, FarRests DEF driver
  <2> QED BY <2>3, <2>4, <2>5
<1>10. CASE UNCHANGED vars
  <2>1. NodeType' /\ HealInv'
    BY <1>10, <1>a
    DEF vars, NodeType, HealInv, OpsHeal, Arming, Starting, driver, sender,
        module, limits
  <2>2. Rest'
    BY <1>10, FarRests DEF vars, driver
  <2> QED BY <2>1, <2>2
<1>11. CASE Chatter
  <2>1. CASE HandleSingle
    BY <1>10, <1>11, <2>1 DEF Chatter, HandleSingle, vars
  <2>2. ASSUME NEW q \in 0 .. SeqMod - 1,
               HandleSplit([n |-> 0, half |-> 1, seq |-> q]),
               clear' = FALSE, UNCHANGED heard
        PROVE  NodeType' /\ HealInv' /\ Rest'
    <3> DEFINE f == [n |-> 0, half |-> 1, seq |-> q]
    <3>1. UNCHANGED <<driver, module, sender, echo, sound, limits>>
      BY <1>11 DEF Chatter
    <3>2. NodeType' /\ HealInv'
      BY <1>a, <3>1
      DEF NodeType, HealInv, OpsHeal, Arming, Starting, driver, sender, module,
          limits
    <3>3. f \in Frame /\ f.n = 0 /\ f # None
      BY <2>2, Bounds DEF Frame
    <3>4. CASE Joined(f)
      <4>1. slot # None /\ slot \in Frame /\ slot.n \in 0 .. n
        BY <1>a, <3>4 DEF Joined, FarType, LinkInv, SlotInv, NumInv
      <4>2. slot' = None /\ up' = <<slot, f>> /\ whole' \in BOOLEAN
        BY <1>a, <2>2, <3>4 DEF HandleSplit, FarType, Completes
      <4>3. /\ up' \in Frame \X Frame /\ up'[1].n \in 0 .. n
            /\ up'[2].n = 0
        BY <3>3, <4>1, <4>2
      <4>4. UNCHANGED <<sender, echo, heard, pc>>
        BY <2>2, <3>1 DEF driver
      <4> QED BY <2>2, <3>2, <4>2, <4>3, <4>4, SlotLost
    <3>5. CASE ~ Joined(f)
      <4>1. slot' = f /\ up' = up /\ whole' = whole
        BY <2>2, <3>5 DEF HandleSplit
      <4>2. whole' \in BOOLEAN
        BY <1>a, <4>1 DEF FarType
      <4>3. UNCHANGED <<sender, echo, heard, pc>>
        BY <2>2, <3>1 DEF driver
      <4> QED BY <2>2, <3>2, <3>3, <4>1, <4>2, <4>3, SlotLost
    <3> QED BY <3>4, <3>5
  <2> QED BY <1>11, <2>1, <2>2 DEF Chatter
<1>12. CASE SlotExpires
  <2>1. /\ slot' = None /\ clear' = FALSE
        /\ UNCHANGED <<driver, module, sender, echo, heard, up, whole>>
        /\ UNCHANGED <<sound, limits>>
    BY <1>12 DEF SlotExpires
  <2>2. NodeType' /\ HealInv'
    BY <1>a, <2>1
    DEF NodeType, HealInv, OpsHeal, Arming, Starting, driver, sender, module,
        limits
  <2>3. up' = up /\ whole' \in BOOLEAN
    BY <1>a, <2>1 DEF FarType
  <2>4. UNCHANGED <<sender, echo, heard, pc>>
    BY <2>1 DEF driver
  <2> QED BY <2>1, <2>2, <2>3, <2>4, SlotLost
<1> QED
  BY <1>1, <1>2, <1>3, <1>4, <1>5, <1>6, <1>7, <1>8, <1>9, <1>10, <1>11, <1>12
  DEF Next

-----------------------------------------------------------------------------
(* The invariant holds in every behaviour.                                 *)
LEMMA Invariance == Spec => []LinkInv
BY InitInv, StepInv, PTL DEF Spec

(* The driver, the module, the sender and the slot keep their shapes.      *)
THEOREM TypeCorrect == Spec => []TypeOK
<1>1. LinkInv => TypeOK
  BY DEF LinkInv
<1> QED BY <1>1, Invariance, PTL

(* An operation that no fault hits leaves the module listening and the     *)
(* flag up, on the profile asked for, whatever the faults before it left   *)
(* in flag, module and UART (_arm_rx, _force_rx_exit, transmit, configure).*)
THEOREM OperationsHeal == Spec => []OpsHeal
<1>1. LinkInv => OpsHeal
  BY DEF LinkInv, HealInv
<1> QED BY <1>1, Invariance, PTL

(* Of what one node sends between two starts only the two halves of a      *)
(* packet are joined, unless a half was sent twice or SeqMod packets were  *)
(* begun while one waited (handle_rx_frame, send_outgoing).                *)
THEOREM HalvesNeverMixed == Spec => []NoMix
<1>1. LinkInv => NoMix
  BY DEF LinkInv, SlotInv
<1> QED BY <1>1, Invariance, PTL

(* A packet of which each half is heard once, with neither another node's  *)
(* half nor the slot's timeout between them, is handed up whole.           *)
THEOREM CleanPacketsArrive == Spec => []CleanArrives
<1>1. LinkInv => CleanArrives
  BY DEF LinkInv, CleanInv, CleanArrives
<1> QED BY <1>1, Invariance, PTL
=============================================================================
