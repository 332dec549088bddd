------------------------------ MODULE LoRaLink -----------------------------
(***************************************************************************)
(* One node's radio and the far end that listens to it: the AT driver of   *)
(* the RAK3172 (Rak3172Modem.cpp), the module behind the UART, the framing *)
(* that sends a long packet as two frames, and the far end's one           *)
(* reassembly slot (LoRaInterface.cpp), which every node's split frames    *)
(* share.  A command line may be garbled, its answer lost or late enough   *)
(* to be taken for the answer to the next command; the module may go deaf  *)
(* while it says it receives; frames are lost in the air.  Every operation *)
(* blocks its caller, so the node is sequential: pc is the command the     *)
(* driver gives next, and "off" is a driver whose start failed.            *)
(***************************************************************************)
EXTENDS Integers

CONSTANTS
    Profile, None,
    SeqMod,         \* HEADER_SEQ_MASK + 1
    MaxSplits,      \* bound: packets sent in two frames
    MaxFaults,      \* bound: faults of the module and its UART
    MaxStarts       \* bound: starts after the first

ASSUME LinkAssumption ==
    /\ Profile # {} /\ SeqMod \in Nat \ {0, 1}
    /\ MaxSplits \in Nat /\ MaxFaults \in Nat /\ MaxStarts \in Nat
    /\ None \notin [n : 0 .. MaxSplits, half : {1, 2}, seq : 0 .. SeqMod - 1]

VARIABLES
    armed,      \* _rx_armed
    mode,       \* the module: idle, rx, or deaf (in receive, hears nothing)
    tune,       \* the profile the module is on
    prof,       \* the profile set_profile was last asked for
    pc, op,     \* the command to give next, and the operation it is part of
    rearm,      \* configure's was_armed
    airing,     \* the module has a frame to report as sent
    late,       \* an answer still on its way, or None
    seq, num,   \* _tx_seq_ctr, and the number in the header on the air
    n,          \* the last packet sent in two frames
    half,       \* which half is being sent; 0 for a packet of one frame
    slot,       \* the far end's split_buffer, with its _rx_seq, or None
    boot,       \* history: the last packet sent before the latest start
    heard,      \* history: how often the far end heard each half of packet n
    echo,       \* history: the module was given a half of n a second time
    clear,      \* history: n came to a slot without its number, kept since
    up,         \* history: the two frames joined last in this operation
    whole,      \* history: packet n was handed up whole
    sound,      \* history: no fault since the operation began
    faults, starts

driver == <<armed, pc, op, rearm>>
module == <<mode, tune, airing, late>>
sender == <<prof, seq, num, n, half, boot>>
far    == <<heard, clear, slot, up, whole>>
limits == <<faults, starts>>
vars   == <<driver, module, sender, echo, far, sound, limits>>

Answer == {"ok", "error"}

(* A frame of packet n, or, for n = 0, of another node.                    *)
Frame == [n : 0 .. MaxSplits, half : {1, 2}, seq : 0 .. SeqMod - 1]

Init ==
    /\ armed = FALSE /\ pc = "hello" /\ op = "begin" /\ rearm = FALSE
    /\ prof \in Profile /\ tune \in Profile
    /\ mode = "idle" /\ airing = FALSE /\ late = None
    /\ seq = 0 /\ num = 0 /\ n = 0 /\ half = 0 /\ boot = 0
    /\ heard = [h \in {1, 2} |-> 0] /\ clear = FALSE /\ echo = FALSE
    /\ slot = None /\ up = <<>> /\ whole = FALSE
    /\ sound = TRUE /\ faults = 0 /\ starts = 0

---------------------------------------------------------------------------
(* The far end.                                                            *)

(* Mutant of Joined: whatever comes second is taken for the second half.   *)
JoinedAny(f) == slot # None

(* A half completes the one that waits under the same number.              *)
Joined(f) == slot # None /\ slot.seq = f.seq

(* It is the second half of the packet being sent, and joins the first.    *)
Completes(f) == n = f.n /\ n = slot.n /\ slot.half = 1 /\ f.half = 2

HandleSplit(f) ==
    IF Joined(f)
    THEN /\ slot' = None /\ up' = <<slot, f>>
         /\ whole' = (whole \/ Completes(f))
    ELSE slot' = f /\ UNCHANGED <<up, whole>>

(* Mutant of HandleSingle: one buffer for both, cleared by every frame.    *)
HandleSingleShared == slot' = None /\ UNCHANGED <<heard, clear, up, whole>>

(* A packet of one frame is handed up and leaves the slot alone.           *)
HandleSingle == UNCHANGED far

(* Another node is heard: a packet of one frame, or a half of one of its   *)
(* own, under a number that may be any.                                    *)
Chatter ==
    /\ \/ HandleSingle
       \/ \E q \in 0 .. SeqMod - 1 :
            /\ HandleSplit([n |-> 0, half |-> 1, seq |-> q])
            /\ clear' = FALSE /\ UNCHANGED heard
    /\ UNCHANGED <<driver, module, sender, echo, sound, limits>>

(* A half that waited SPLIT_REASSEMBLY_MS is given up.                     *)
SlotExpires ==
    /\ slot # None /\ slot' = None /\ clear' = FALSE
    /\ UNCHANGED <<driver, module, sender, echo, heard, up, whole>>
    /\ UNCHANGED <<sound, limits>>

(* A half of the packet being sent is heard.                               *)
HearHalf ==
    LET f == [n |-> n, half |-> half, seq |-> num]
    IN  /\ HandleSplit(f)
        /\ heard' = [heard EXCEPT ![half] = @ + 1]
        /\ clear' = IF half = 1 /\ heard[1] = 0 THEN ~ Joined(f) ELSE clear

(* The module sends the frame the driver holds; it is heard or not.        *)
OnAir ==
    \/ UNCHANGED far
    \/ IF half = 0 THEN HandleSingle ELSE HearHalf

---------------------------------------------------------------------------
(* A command and its answer.                                               *)

Fault ==
    /\ faults < MaxFaults /\ faults' = faults + 1 /\ sound' = FALSE
    /\ UNCHANGED starts

NoFault == UNCHANGED <<limits, sound>>

(* AT_BUSY_ERROR: only leaving receive is possible from there.             *)
Refused(c) == c # "stop" /\ mode # "idle"

Obeys(c) ==
    /\ mode' = CASE c = "stop" -> "idle"
                 [] c = "arm" /\ ~ Refused(c) -> "rx"
                 [] OTHER -> mode
    /\ tune' = IF c = "p2p" /\ ~ Refused(c) THEN prof ELSE tune
    /\ IF c = "psend" /\ ~ Refused(c)
       THEN OnAir /\ airing' = TRUE ELSE UNCHANGED <<far, airing>>

(* What _cmd reads: the answer; an earlier command's, come after the flush *)
(* of the input; or nothing in time.                                       *)
Reads(own, got) ==
    \/ got = own /\ late' = None /\ NoFault
    \/ late # None /\ got = late /\ late' = own /\ NoFault
    \/ got = "none" /\ late' \in {own, None} /\ Fault

Tells(c, got) ==
    \/ Obeys(c) /\ Reads(IF Refused(c) THEN "error" ELSE "ok", got)
    \/ /\ UNCHANGED <<mode, tune, airing, far>>
       /\ got \in {"none", "error"} /\ late' = None /\ Fault

---------------------------------------------------------------------------
(* The driver, command by command.                                         *)

Proceed(next) == pc' = next /\ UNCHANGED <<op, rearm, sender>>

Go(next) == Proceed(next) /\ UNCHANGED echo

(* begin, up to its configure: up to four AT, then the mode query, with a  *)
(* reboot of the module and one more AT if it does not read P2P; one fault *)
(* stands for answers missed in a row.                                     *)
Handshake(alive) ==
    /\ pc \in {"hello", "mode"}
    /\ \/ alive /\ late' = None /\ NoFault
       \/ late' \in {"ok", None} /\ Fault
    /\ Go(CASE ~ alive -> "off"
            [] alive /\ pc = "hello" -> "mode"
            [] alive /\ pc = "mode" -> "encry")
    /\ UNCHANGED <<armed, mode, tune, airing, far>>

(* AT+ENCRY=0, best effort.                                                *)
Encry(got) ==
    /\ pc = "encry"
    /\ Tells("encry", got)
    /\ Go("p2p")
    /\ UNCHANGED armed

(* _stop_rx, whatever the answer; no command when it is not armed.         *)
Stop(got) ==
    /\ pc = "stop"
    /\ armed' = FALSE
    /\ IF armed THEN Tells("stop", got)
       ELSE got = "ok" /\ UNCHANGED <<module, far, sound, limits>>
    /\ Go(CASE op = "send" -> "psend"
            [] op = "retune" -> "p2p"
            [] op = "recycle" -> "arm")

(* _arm_rx: a refusal means that the module is still in receive.           *)
Arm(got) ==
    /\ pc = "arm"
    /\ Tells("arm", got)
    /\ armed' = IF got = "ok" THEN TRUE ELSE armed
    /\ Go(IF got = "ok" THEN "idle" ELSE "exit_arm")

(* Mutant of Exit: _stop_rx, which does nothing while the flag is down.    *)
ExitIfArmed(got) ==
    /\ pc \in {"exit_arm", "exit_psend"}
    /\ armed' = FALSE
    /\ IF armed THEN Tells("stop", got)
       ELSE got = "ok" /\ UNCHANGED <<module, far, sound, limits>>
    /\ Go(IF pc = "exit_arm" THEN "arm_again" ELSE "psend_again")

(* _force_rx_exit, whatever the flag says.                                 *)
Exit(got) ==
    /\ pc \in {"exit_arm", "exit_psend"}
    /\ armed' = FALSE
    /\ Tells("stop", got)
    /\ Go(IF pc = "exit_arm" THEN "arm_again" ELSE "psend_again")

ArmAgain(got) ==
    /\ pc = "arm_again"
    /\ Tells("arm", got)
    /\ armed' = (got = "ok")
    /\ Go("idle")

(* configure: begin gives up without its answer; for a retune it is        *)
(* set_profile's result, which the gateway does not look at.               *)
P2P(got) ==
    /\ pc = "p2p"
    /\ Tells("p2p", got)
    /\ Go(CASE op = "begin" -> IF got = "ok" THEN "arm" ELSE "off"
            [] op = "retune" -> IF rearm THEN "arm" ELSE "idle")
    /\ UNCHANGED armed

PSend(got) ==
    /\ pc = "psend"
    /\ Tells("psend", got)
    /\ Go(CASE got = "ok" -> "done"
            [] got = "error" -> "exit_psend"
            [] got = "none" -> "arm")
    /\ UNCHANGED armed

PSendAgain(got) ==
    /\ pc = "psend_again"
    /\ Tells("psend", got)
    /\ Proceed(IF got = "ok" THEN "done_again" ELSE "arm")
    /\ echo' = (echo \/ half # 0)
    /\ UNCHANGED armed

(* TXP2P DONE comes, and with it every late answer; or it is missed, and   *)
(* the frame is sent once more.                                            *)
Done(comes) ==
    /\ pc \in {"done", "done_again"}
    /\ \/ comes = airing /\ NoFault
       \/ ~ comes /\ airing /\ Fault
    /\ airing' = FALSE /\ late' = None
    /\ Go(IF comes \/ pc = "done_again" THEN "arm" ELSE "psend_again")
    /\ UNCHANGED <<armed, mode, tune, far>>

---------------------------------------------------------------------------
(* The operations.                                                         *)

(* What the far end makes of a packet is told per packet.                  *)
Afresh ==
    /\ heard' = [h \in {1, 2} |-> 0] /\ clear' = FALSE /\ echo' = FALSE
    /\ up' = <<>> /\ whole' = FALSE

Begins(what, h) ==
    /\ pc = "idle" /\ (half = 1 => h = 2)
    /\ op' = what /\ pc' = "stop" /\ rearm' = armed /\ half' = h
    /\ sound' = (late = None)
    /\ IF h = 2 THEN UNCHANGED <<heard, clear, echo, up, whole>> ELSE Afresh
    /\ UNCHANGED <<armed, module, slot, boot, limits>>

(* send_outgoing: an announce, or anything else that fits one frame.       *)
SendSingle ==
    Begins("send", 0) /\ UNCHANGED <<prof, seq, num, n>>

NextSeq == IF seq = SeqMod - 1 THEN 0 ELSE seq + 1

SendFirstHalf ==
    /\ half # 1 /\ Begins("send", 1)
    /\ n < MaxSplits /\ n' = n + 1
    /\ num' = seq /\ seq' = NextSeq
    /\ UNCHANGED prof

(* The second half follows even if the first was not accepted.             *)
SendSecondHalf ==
    half = 1 /\ Begins("send", 2) /\ UNCHANGED <<prof, seq, num, n>>

(* set_profile; set_tx_dbm is the same with AT+PTP.  Without a radio it    *)
(* only stages what the next start configures.                             *)
Retune(p) ==
    /\ prof' = p /\ UNCHANGED <<seq, num, n>>
    /\ \/ Begins("retune", 0)
       \/ /\ pc = "off"
          /\ UNCHANGED <<driver, module, half, boot, echo, far, sound, limits>>

(* poll: armed, and not armed anew for RAK_RX_RECYCLE_MS.                  *)
Recycle ==
    armed /\ Begins("recycle", 0) /\ UNCHANGED <<prof, seq, num, n>>

(* poll reads what has come in meanwhile.                                  *)
Drain ==
    /\ pc = "idle" /\ late # None /\ late' = None
    /\ UNCHANGED <<driver, mode, tune, airing, sender, echo, far>>
    /\ UNCHANGED <<sound, limits>>

(* Power lost, or end and begin: a wake of a leaf, a reboot of a gateway.  *)
(* The module is reset and the profile staged anew; numbering starts at 0. *)
Restart(p) ==
    /\ starts < MaxStarts /\ starts' = starts + 1
    /\ armed' = FALSE /\ pc' = "hello" /\ op' = "begin" /\ rearm' = FALSE
    /\ mode' = "idle" /\ airing' = FALSE /\ late' = None
    /\ prof' = p /\ seq' = 0 /\ half' = 0 /\ sound' = TRUE
    /\ boot' = n
    /\ UNCHANGED <<tune, num, n, echo, far, faults>>

GoesDeaf ==
    /\ mode = "rx" /\ Fault
    /\ mode' = "deaf"
    /\ UNCHANGED <<driver, tune, airing, late, sender, echo, far>>

---------------------------------------------------------------------------
Driver ==
    \/ \E got \in Answer \cup {"none"} :
         \/ Stop(got) \/ Arm(got) \/ Exit(got) \/ ArmAgain(got)
         \/ Encry(got) \/ P2P(got) \/ PSend(got) \/ PSendAgain(got)
    \/ \E b \in BOOLEAN : Handshake(b) \/ Done(b)

Next ==
    \/ Driver \/ SendSingle \/ SendFirstHalf \/ SendSecondHalf
    \/ \E p \in Profile : Retune(p) \/ Restart(p)
    \/ Recycle \/ Drain \/ GoesDeaf
    \/ Chatter \/ SlotExpires

Spec == Init /\ [][Next]_vars

(* Commands time out, so the driver always goes on; the gateway announces  *)
(* every thirty seconds, and a packet begun is finished.                   *)
FairSpec ==
    Spec /\ WF_vars(Driver) /\ WF_vars(SendSecondHalf) /\ SF_vars(SendSingle)

---------------------------------------------------------------------------
(* Properties.                                                             *)

Starting == {"hello", "mode", "encry"}

(* Every variable has its shape.                                           *)
TypeOK ==
    /\ armed \in BOOLEAN /\ rearm \in BOOLEAN /\ airing \in BOOLEAN
    /\ mode \in {"idle", "rx", "deaf"} /\ tune \in Profile /\ prof \in Profile
    /\ pc \in Starting \cup
             {"off", "idle", "stop", "p2p", "psend", "exit_psend",
              "psend_again", "done", "done_again", "arm", "exit_arm",
              "arm_again"}
    /\ op \in {"begin", "send", "retune", "recycle"}
    /\ late \in Answer \cup {None}
    /\ seq \in 0 .. SeqMod - 1 /\ num \in 0 .. SeqMod - 1
    /\ n \in 0 .. MaxSplits /\ boot \in 0 .. n /\ half \in 0 .. 2
    /\ heard \in [{1, 2} -> Nat]
    /\ slot \in Frame \cup {None}
    /\ up = <<>> \/ up \in Frame \X Frame
    /\ whole \in BOOLEAN /\ clear \in BOOLEAN /\ echo \in BOOLEAN
    /\ sound \in BOOLEAN
    /\ faults \in 0 .. MaxFaults /\ starts \in 0 .. MaxStarts

(* Whatever flag and module disagree about, one operation without a fault  *)
(* of its own settles it: after a send, a recycle or a start the module    *)
(* listens and the flag says so, after a start or a retune made while      *)
(* armed it does so on the profile asked for, and no start fails (_arm_rx, *)
(* _force_rx_exit, transmit, configure, begin).                            *)
OpsHeal ==
    sound =>
       /\ pc # "off"
       /\ pc = "idle" /\ (op = "retune" => rearm) =>
             /\ armed /\ mode = "rx"
             /\ op \in {"begin", "retune"} => tune = prof

(* Of what one node sends between two starts, whatever is lost in the air  *)
(* or in the UART and whoever else takes the slot, the far end joins only  *)
(* the first half of a packet and its second, unless a half was sent twice *)
(* or the numbers came all the way round while a half waited               *)
(* (handle_rx_frame, send_outgoing).                                       *)
NoMix ==
    up # <<>> /\ up[1].n > boot /\ up[2].n > boot =>
       IF up[1].n = up[2].n
       THEN (up[1].half = 1 /\ up[2].half = 2) \/ echo
       ELSE up[2].n - up[1].n >= SeqMod

(* A packet of which each half is heard once is handed up whole, whatever  *)
(* its predecessors left in the slot and whatever packets of one frame     *)
(* come in between, if no half waited under its number and no other node's *)
(* half came, nor the slot's timeout, between the two (handle_rx_frame).   *)
CleanArrives ==
    /\ pc = "idle" /\ half = 2
    /\ \A h \in {1, 2} : heard[h] = 1
    /\ clear
    => whole

(* "Left alone the two disagree forever and the radio is deaf for good"    *)
(* (Rak3172Modem.cpp:172): it is not; a node that goes on announcing       *)
(* listens again and again.  Only a failed start is for good, "until a     *)
(* reboot" (main.cpp:3787).                                                *)
DeafnessEnds == <>[](pc # "off") => []<>(armed /\ mode = "rx")
=============================================================================
