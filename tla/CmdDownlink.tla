---------------------------- MODULE CmdDownlink ----------------------------
(***************************************************************************)
(* Commands on their way from the server to a sleeping leaf: the gateway's *)
(* poll into its six cells, delivery into the window that follows a leaf's *)
(* announce, the leaf's four slots, its receipt ack on the next announce,  *)
(* the relay of that ack, and the execution.  Packets, announces and HTTP  *)
(* requests may each be lost; either end may lose power.  The server is    *)
(* not in the repository: it lists what is open, oldest first, and stops   *)
(* listing what was acked.                                                 *)
(***************************************************************************)
EXTENDS Integers, Sequences, FiniteSets

CONSTANTS
    Leaf, None,
    N,              \* bound: commands ever queued
    Owner,          \* the leaf each command is for; None: it names no "node"
    Fetch,          \* the fetch_full commands
    Alive,          \* the leaves that wake, again and again; the rest are gone
    Oversize,       \* commands whose JSON exceeds a cell's text (512 bytes)
    Split,          \* commands that even trimmed do not fit one PHY frame
    Slots,          \* GW_CMD_SLOTS
    LeafSlots,      \* MESH_CMD_SLOTS, and LEAF_ACK_SLOTS, as many
    AckSlots,       \* GW_ACK_SLOTS
    MaxCuts         \* bound: power cuts, of either end

Cmd == 1 .. N

ASSUME CmdAssumption ==
    /\ N \in Nat /\ Slots \in Nat \ {0}
    /\ LeafSlots \in Nat \ {0} /\ AckSlots \in Nat \ {0} /\ MaxCuts \in Nat
    /\ Owner \in [Cmd -> Leaf \cup {None}] /\ Fetch \subseteq Cmd
    /\ Oversize \subseteq Cmd /\ Split \subseteq Cmd
    /\ Alive \subseteq Leaf
    /\ None \notin Cmd /\ None \notin Leaf

VARIABLES
    srv,        \* per command: where it stands at the server
    cell,       \* s_cmds: the gateway's copy; hot = sent less than 120 s ago
    heard,      \* leaves whose announce the loop has yet to answer
    acks,       \* s_cmd_acks
    phase,      \* per leaf: away, window (listening), exec
    inbox,      \* per leaf: s_mesh_cmds
    done,       \* per leaf: how many of them it has executed
    held,       \* history: commands that reached the leaf they are for
    ran,        \* history: commands their leaf has executed
    lost,       \* history: commands a power cut took from their leaf
    cuts

gateway == <<cell, heard, acks>>
leaf    == <<phase, inbox, done>>
history == <<held, ran, lost>>
vars    == <<srv, gateway, leaf, history, cuts>>

Cell == [cmd : Cmd \cup {None}, used : BOOLEAN, hot : BOOLEAN]

Empty == [cmd |-> None, used |-> FALSE, hot |-> FALSE]

Init ==
    /\ srv = [c \in Cmd |-> "unposted"]
    /\ cell = [k \in 1 .. Slots |-> Empty]
    /\ heard = {} /\ acks = <<>>
    /\ phase = [l \in Leaf |-> "away"]
    /\ inbox = [l \in Leaf |-> <<>>] /\ done = [l \in Leaf |-> 0]
    /\ held = {} /\ ran = {} /\ lost = {}
    /\ cuts = 0

(* What a list of so many slots keeps of a sequence.                       *)
Kept(s, slots) == IF Len(s) <= slots THEN s ELSE SubSeq(s, 1, slots)

Elements(s) == {s[i] : i \in DOMAIN s}

(* A command is for the camera it names or, naming none, for any.          *)
For(l, c) == Owner[c] \in {l, None}

Owned(l, s) == {c \in Elements(s) : For(l, c)}

---------------------------------------------------------------------------
(* The server.                                                             *)

Post(c) ==
    /\ srv[c] = "unposted"
    /\ \A d \in 1 .. (c - 1) : srv[d] # "unposted"
    /\ srv' = [srv EXCEPT ![c] = "open"]
    /\ UNCHANGED <<gateway, leaf, history, cuts>>

Expire(c) ==
    /\ srv[c] = "open"
    /\ srv' = [srv EXCEPT ![c] = "expired"]
    /\ UNCHANGED <<gateway, leaf, history, cuts>>

Open == {c \in Cmd : srv[c] = "open"}

(* What does not fit a cell is passed over, and takes no cell.             *)
Fitting == Open \ Oversize

(* The command that is listed in a place, oldest first.                    *)
Offered(k) == {c \in Fitting : Cardinality({d \in Fitting : d <= c}) = k}

---------------------------------------------------------------------------
(* The gateway.                                                            *)

(* The list is rebuilt in place, and a cell that is no longer used keeps   *)
(* its text: the time of the last send is taken from the last cell, not    *)
(* yet overwritten, that holds the same text.                              *)
KeptHot(c, k) ==
    LET same == {j \in k .. Slots : cell[j].cmd = c}
    IN  \E j \in same : cell[j].hot /\ \A i \in same : i <= j

Listed(k) ==
    IF Offered(k) # {}
    THEN LET c == CHOOSE c \in Offered(k) : TRUE
         IN  [cmd |-> c, used |-> TRUE, hot |-> KeptHot(c, k)]
    ELSE [cell[k] EXCEPT !.used = FALSE]

Poll ==
    /\ cell' = [k \in 1 .. Slots |-> Listed(k)]
    /\ UNCHANGED <<srv, heard, acks, leaf, history, cuts>>

Lapse(k) ==
    /\ cell[k].hot
    /\ cell' = [cell EXCEPT ![k].hot = FALSE]
    /\ UNCHANGED <<srv, heard, acks, leaf, history, cuts>>

(* Mutant: commands delivered blind, whatever camera they are for.         *)
RoutedBlind(l, c) == TRUE

(* By the slug, which every leaf of the roster has, if only a default one. *)
Routed(l, c) == For(l, c)

Due(l, k) == cell[k].used /\ ~ cell[k].hot /\ Routed(l, cell[k].cmd)

(* The cells whose packets may get through, in the order they are sent.    *)
Arrivals ==
    {p \in UNION {[1 .. n -> 1 .. Slots] : n \in 0 .. LeafSlots} :
        \A i, j \in DOMAIN p : i < j => p[i] < p[j]}

(* Mutant: the gateway acks what it has sent.                              *)
DeliverAcking(l, p) ==
    /\ l \in heard /\ heard' = heard \ {l}
    /\ cell' = [k \in 1 .. Slots |->
                  IF Due(l, k) THEN [cell[k] EXCEPT !.hot = TRUE] ELSE cell[k]]
    /\ \A i \in DOMAIN p : Due(l, p[i])
    /\ acks' = Kept(acks \o [i \in DOMAIN p |-> cell[p[i]].cmd], AckSlots)
    /\ UNCHANGED <<srv, leaf, history, cuts>>

(* The loop answers an announce with every command due.  A packet counts   *)
(* as sent whether or not it arrives: the leaf must be up, in its window   *)
(* or at work, with a slot to spare.  A split packet may arrive, but its   *)
(* second half misses the window as a rule (trim_cmd_for_air).             *)
Deliver(l, p) ==
    /\ l \in heard /\ heard' = heard \ {l}
    /\ cell' = [k \in 1 .. Slots |->
                  IF Due(l, k) THEN [cell[k] EXCEPT !.hot = TRUE] ELSE cell[k]]
    /\ \A i \in DOMAIN p : Due(l, p[i])
    /\ p # <<>> => phase[l] # "away" /\ Len(inbox[l]) + Len(p) <= LeafSlots
    /\ LET packets == [i \in DOMAIN p |-> cell[p[i]].cmd]
       IN  /\ inbox' = [inbox EXCEPT ![l] = @ \o packets]
           /\ held' = held \cup Owned(l, packets)
    /\ UNCHANGED <<srv, acks, phase, done, ran, lost, cuts>>

(* Every queued ack is posted once, and forgotten whether or not the POST  *)
(* got through; the endpoint never regresses a command.                    *)
PostAcks(through) ==
    /\ acks # <<>>
    /\ through \subseteq Elements(acks)
    /\ acks' = <<>>
    /\ srv' = [c \in Cmd |-> IF c \in through /\ srv[c] = "open"
                             THEN "received" ELSE srv[c]]
    /\ UNCHANGED <<cell, heard, leaf, history, cuts>>

GatewayCut ==
    /\ cuts < MaxCuts /\ cuts' = cuts + 1
    /\ cell' = [k \in 1 .. Slots |-> Empty] /\ heard' = {} /\ acks' = <<>>
    /\ UNCHANGED <<srv, leaf, history>>

---------------------------------------------------------------------------
(* The leaf.                                                               *)

(* Hello, check-in, alert or maintenance: an announce, then the window.    *)
Wake(l, audible) ==
    /\ phase[l] = "away" /\ l \in Alive
    /\ phase' = [phase EXCEPT ![l] = "window"]
    /\ heard' = IF audible THEN heard \cup {l} ELSE heard
    /\ UNCHANGED <<srv, cell, acks, inbox, done, history, cuts>>

Asleep(l) ==
    /\ phase' = [phase EXCEPT ![l] = "away"]
    /\ inbox' = [inbox EXCEPT ![l] = <<>>]
    /\ done' = [done EXCEPT ![l] = 0]

CloseEmpty(l) ==
    /\ phase[l] = "window" /\ inbox[l] = <<>>
    /\ Asleep(l)
    /\ UNCHANGED <<srv, gateway, history, cuts>>

(* Receipt first: one announce carries the ids, heard or not, before       *)
(* anything is executed.                                                   *)
CloseAcking(l, audible) ==
    /\ phase[l] = "window" /\ inbox[l] # <<>>
    /\ phase' = [phase EXCEPT ![l] = "exec"]
    /\ IF audible
       THEN heard' = heard \cup {l} /\ acks' = Kept(acks \o inbox[l], AckSlots)
       ELSE UNCHANGED <<heard, acks>>
    /\ UNCHANGED <<srv, cell, inbox, done, history, cuts>>

(* Mutant: only the first command of a window is executed.                 *)
ExecuteOne(l, lands) ==
    /\ phase[l] = "exec" /\ ~ lands
    /\ ran' = ran \cup Owned(l, <<inbox[l][1]>>)
    /\ Asleep(l)
    /\ UNCHANGED <<srv, gateway, held, lost, cuts>>

(* One command at a time, those that came in meanwhile too; a fetch_full   *)
(* whose photo lands completes itself.                                     *)
Execute(l, lands) ==
    /\ phase[l] = "exec"
    /\ LET c == inbox[l][done[l] + 1]
       IN  /\ lands => c \in Fetch /\ For(l, c)
           /\ ran' = ran \cup Owned(l, <<c>>)
           /\ srv' = IF lands /\ srv[c] \in {"open", "received"}
                     THEN [srv EXCEPT ![c] = "completed"] ELSE srv
    /\ IF done[l] + 1 < Len(inbox[l])
       THEN done' = [done EXCEPT ![l] = @ + 1] /\ UNCHANGED <<phase, inbox>>
       ELSE Asleep(l)
    /\ UNCHANGED <<gateway, held, lost, cuts>>

LeafCut(l) ==
    /\ cuts < MaxCuts /\ cuts' = cuts + 1
    /\ phase[l] # "away"
    /\ Asleep(l)
    /\ lost' = lost \cup Owned(l, SubSeq(inbox[l], done[l] + 1, Len(inbox[l])))
    /\ UNCHANGED <<srv, gateway, held, ran>>

---------------------------------------------------------------------------
Next ==
    \/ \E c \in Cmd : Post(c) \/ Expire(c)
    \/ Poll \/ GatewayCut
    \/ \E k \in 1 .. Slots : Lapse(k)
    \/ \E through \in SUBSET Cmd : PostAcks(through)
    \/ \E l \in Leaf :
         \/ \E p \in Arrivals : Deliver(l, p)
         \/ \E audible \in BOOLEAN : Wake(l, audible) \/ CloseAcking(l, audible)
         \/ CloseEmpty(l) \/ LeafCut(l)
         \/ \E lands \in BOOLEAN : Execute(l, lands)

Spec == Init /\ [][Next]_vars

(* A camera that wakes takes it, and it fits a cell and a frame.           *)
Deliverable(c) ==
    /\ c \notin Oversize \cup Split
    /\ \E l \in Alive : For(l, c)

(* The gateway's loop and its timers go on, and so does a leaf that is up. *)
(* Again and again such a leaf wakes while a command is due to it and is   *)
(* heard; a command of one frame is answered within the window, and the    *)
(* ack gets through: the radio and the uplink lose much, never everything. *)
(* Nothing of the kind is assumed of a command that does not fit one.      *)
WakesInNeed(l, c) ==
    (\E k \in 1 .. Slots : Due(l, k) /\ cell[k].cmd = c) /\ Wake(l, TRUE)
AnsweredInTime(l, c) ==
    /\ phase[l] = "window"
    /\ \E p \in Arrivals :
         (\E i \in DOMAIN p : cell[p[i]].cmd = c) /\ Deliver(l, p)

FairSpec ==
    /\ Spec
    /\ WF_vars(Poll)
    /\ \A k \in 1 .. Slots : WF_vars(Lapse(k))
    /\ SF_vars(PostAcks(Elements(acks)))
    /\ \A l \in Alive :
          /\ \A c \in {c \in Cmd : Deliverable(c) /\ For(l, c)} :
                SF_vars(WakesInNeed(l, c)) /\ SF_vars(AnsweredInTime(l, c))
          /\ SF_vars(CloseAcking(l, TRUE))
          /\ WF_vars(CloseEmpty(l))
          /\ WF_vars(\E b \in BOOLEAN : CloseAcking(l, b) \/ Execute(l, b))

---------------------------------------------------------------------------
(* Properties.                                                             *)

Standing == {"unposted", "open", "received", "completed", "expired"}

(* The slots of a leaf: never overfull, and at work there is work to do.   *)
SlotsOK(l) ==
    /\ Len(inbox[l]) <= LeafSlots
    /\ IF phase[l] = "exec" THEN done[l] < Len(inbox[l]) ELSE done[l] = 0

(* Every variable has its shape.                                           *)
TypeOK ==
    /\ srv \in [Cmd -> Standing]
    /\ cell \in [1 .. Slots -> Cell]
    /\ heard \subseteq Leaf
    /\ acks \in Seq(Cmd) /\ Len(acks) <= AckSlots
    /\ phase \in [Leaf -> {"away", "window", "exec"}]
    /\ inbox \in [Leaf -> Seq(Cmd)]
    /\ \A l \in Leaf : SlotsOK(l)
    /\ done \in [Leaf -> Nat]
    /\ held \subseteq Cmd /\ ran \subseteq Cmd /\ lost \subseteq Cmd
    /\ cuts \in 0 .. MaxCuts

(* The server stops redelivering a command only once the camera it is for  *)
(* has had it: no ack of another camera, and no ack of an earlier boot,    *)
(* closes it (deliver_pending_commands' routing, leaf_radio_poll_commands, *)
(* queue_cmd_acks).                                                        *)
ReceiptHonest ==
    \A c \in Cmd : srv[c] \in {"received", "completed"} => c \in held

(* The whole downlink does no more than a mailbox does (Mailbox.tla).      *)
MB == INSTANCE Mailbox

RefinesMailbox == MB!MailSpec

(* A command for a camera that keeps waking is executed, or expires, or    *)
(* was taken by a power cut after its receipt was acked.                   *)
Served(c) ==
    \/ c \in ran
    \/ srv[c] = "expired"
    \/ c \in lost /\ srv[c] = "received"

(* Every cell is taken by an older command that cannot be delivered.       *)
Crowded(c) ==
    Cardinality({d \in Fitting : d < c /\ ~ Deliverable(d)}) >= Slots

(* Every deliverable command is served, unless undeliverable ones hold all *)
(* the cells for good: nothing but their expiry gives a cell back.         *)
CommandRuns ==
    \A c \in Cmd :
        Deliverable(c) => (srv[c] = "open" ~> Served(c) \/ []Crowded(c))

(* main.cpp, poll_commands: "Preserve last_sent for commands we already    *)
(* delivered recently": a poll that lists a command again keeps its        *)
(* suppression.                                                            *)
SuppressionKept ==
    [][\A k \in 1 .. Slots : Poll /\ cell[k].used /\ cell[k].hot =>
          \A j \in 1 .. Slots :
             cell'[j].used /\ cell'[j].cmd = cell[k].cmd => cell'[j].hot]_vars
=============================================================================
