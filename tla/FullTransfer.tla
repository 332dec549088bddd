---------------------------- MODULE FullTransfer ----------------------------
(***************************************************************************)
(* A full-size photo crosses the mesh in chunks.  The leaf asks "have?",   *)
(* skips what the gateway says it holds and sends the rest one Resource at *)
(* a time (leaf/src/leaf_radio.cpp, leaf_radio_send_full); the gateway     *)
(* gathers them in its only assembly, one spool file, and takes custody of *)
(* the whole (gateway/src/main.cpp, handle_chunk).  Two leaves share the   *)
(* assembly, and a user may ask for either tier of a photo.                *)
(*                                                                         *)
(* Each leaf has one photo and is named after it.  A tier stands for its   *)
(* bytes, so "same event and same total" is "same leaf and same tier".     *)
(***************************************************************************)
EXTENDS Integers, FiniteSets

CONSTANTS
    Leaf,
    Tier,           \* the sizes a full can be asked in
    Chunks,         \* Chunks[l][t]: the Resources the photo takes
    MaxAsks,        \* bound: requests a user makes
    MaxFaults,      \* bound: packets, links, flash and power lost
    None

ASSUME TransferAssumption ==
    /\ Chunks \in [Leaf -> [Tier -> 1 .. 32]]
    /\ MaxAsks \in Nat /\ MaxFaults \in Nat
    /\ None \notin Tier

VARIABLES
    asm,        \* s_asm: None or the photo being gathered and got_mask
    part,       \* the spool file: for each chunk written, whose it is
    have,       \* photos the ring claims
    queue,      \* fulls in custody, not uploaded yet
    want,       \* the tier the server asks each leaf for
    leaf,       \* each leaf's run of send_full
    taken,      \* history: the files the gateway took custody of
    asks, faults

gwVars   == <<asm, part, have, queue, taken>>
vars == <<gwVars, leaf, want, asks, faults>>

Index(l, t) == 0 .. Chunks[l][t] - 1

Chunk == [ev : Leaf, tier : Tier]

Assembly ==
    {a \in [ev : Leaf, tier : Tier, mask : SUBSET (0 .. 31)] :
        a.mask \subseteq Index(a.ev, a.tier)}

ASSUME NoneAssembly == None \notin Assembly

Empty == [i \in {} |-> None]

Idle == [pc |-> "idle", tier |-> None, i |-> 0, mask |-> {}, of |-> None,
         blind |-> FALSE]

Run == [pc : {"idle", "ask", "send", "failed", "resend"},
        tier : Tier \cup {None}, i : 0 .. 32, mask : SUBSET (0 .. 31),
        of : Tier \cup {None}, blind : BOOLEAN]

Init ==
    /\ asm = None /\ part = Empty
    /\ have = {} /\ queue = {} /\ taken = {}
    /\ want = [l \in Leaf |-> None]
    /\ leaf = [l \in Leaf |-> Idle]
    /\ asks = 0 /\ faults = 0

Fault   == faults < MaxFaults /\ faults' = faults + 1
NoFault == UNCHANGED faults

-----------------------------------------------------------------------------
(* The gateway: handle_chunk.                                              *)

(* Mutant of Gathers: the total is not compared.                           *)
GathersAnyTier(l, t) == asm # None /\ asm.ev = l

Gathers(l, t) == asm # None /\ asm.ev = l /\ asm.tier = t

AsmReset == asm' = None /\ part' = Empty

Complete(l, f) ==
    /\ have' = have \cup {l}
    /\ queue' = queue \cup {l}
    /\ taken' = taken \cup {f}

(* Chunk i of l's tier t was written; a chunk of another photo has first   *)
(* discarded what was gathered.  With the last one the file is promoted.   *)
Stored(l, t, i) ==
    LET mask == (IF Gathers(l, t) THEN asm.mask ELSE {}) \cup {i}
        old  == IF Gathers(l, t) THEN part ELSE Empty
        file == [j \in DOMAIN old \cup {i} |->
                    IF j = i THEN [ev |-> l, tier |-> t] ELSE old[j]]
    IN  IF Cardinality(mask) = Chunks[l][t]
        THEN AsmReset /\ Complete(l, [ev |-> l, tier |-> t, file |-> file])
        ELSE /\ asm' = [ev |-> l, tier |-> t, mask |-> mask]
             /\ part' = file
             /\ UNCHANGED <<have, queue, taken>>

(* A full of one chunk never meets the assembly: queue_upload.             *)
Single(l, t) ==
    /\ Complete(l, [ev |-> l, tier |-> t,
                    file |-> [j \in {0} |-> [ev |-> l, tier |-> t]]])
    /\ UNCHANGED <<asm, part>>

HandleChunk(l, t, i) ==
    IF Chunks[l][t] = 1 THEN Single(l, t) ELSE Stored(l, t, i)

(* Mutant of Dropped: the failed write leaves the assembly in place.       *)
DroppedNoReset(l, t, i) ==
    /\ Chunks[l][t] > 1
    /\ asm' = [ev |-> l, tier |-> t,
               mask |-> (IF Gathers(l, t) THEN asm.mask ELSE {}) \cup {i}]
    /\ part' = IF Gathers(l, t) THEN part ELSE Empty
    /\ UNCHANGED <<have, queue, taken>>

(* No room, or the spool could not be created, written or renamed.  The    *)
(* Resource has concluded all the same: the leaf is not told.              *)
Dropped(l, t, i) ==
    /\ Chunks[l][t] > 1
    /\ AsmReset
    /\ UNCHANGED <<have, queue, taken>>

(* Mutant of Stall: the stall is noticed, the assembly stays.              *)
StallNoReset ==
    /\ asm # None
    /\ UNCHANGED <<gwVars, leaf, want, asks>>

(* Ten minutes without a chunk.                                            *)
Stall ==
    /\ asm # None
    /\ AsmReset
    /\ UNCHANGED <<have, queue, taken, leaf, want, asks>>

-----------------------------------------------------------------------------
(* A leaf: leaf_radio_send_full.                                           *)

Pc(l, p)  == leaf[l].pc = p
Become(l, r) == leaf' = [leaf EXCEPT ![l] = r]

Fetch(l) ==
    /\ Pc(l, "idle") /\ want[l] # None
    /\ Become(l, [Idle EXCEPT !.pc = "ask", !.tier = want[l]])
    /\ UNCHANGED <<gwVars, want, asks>> /\ NoFault

(* What the gateway answers about l: the assembly's mask, whichever tier   *)
(* it is gathering (on_link_packet compares the event alone).              *)
MaskFor(l) == IF asm # None /\ asm.ev = l THEN asm.mask ELSE {}
TierFor(l) == IF asm # None /\ asm.ev = l THEN asm.tier ELSE None

Succeed(l) == Become(l, Idle)

Answered(l) ==
    /\ Pc(l, "ask")
    /\ \/ l \in have /\ Succeed(l)
       \/ /\ l \notin have
          /\ Become(l, [leaf[l] EXCEPT !.pc = "send", !.mask = MaskFor(l),
                                       !.of = TierFor(l)])
    /\ UNCHANGED <<gwVars, want, asks>> /\ NoFault

(* No reply: "fail-open send".                                             *)
Unanswered(l) ==
    /\ Pc(l, "ask") /\ Fault
    /\ Become(l, [leaf[l] EXCEPT !.pc = "send", !.blind = TRUE])
    /\ UNCHANGED <<gwVars, want, asks>>

Here(l)  == leaf[l].i
More(l)  == Here(l) < Chunks[l][leaf[l].tier]
Advance(l) == Become(l, [leaf[l] EXCEPT !.pc = "send", !.i = @ + 1])

Skip(l) ==
    /\ Pc(l, "send") /\ More(l) /\ Here(l) \in leaf[l].mask
    /\ Advance(l)
    /\ UNCHANGED <<gwVars, want, asks>> /\ NoFault

Sending(l) == Pc(l, "send") /\ More(l) /\ Here(l) \notin leaf[l].mask

(* The gateway concludes the Resource; it keeps the chunk or drops it.     *)
Received(l) ==
    \/ HandleChunk(l, leaf[l].tier, Here(l)) /\ NoFault
    \/ Dropped(l, leaf[l].tier, Here(l)) /\ Fault

SendOk(l) ==
    /\ Sending(l)
    /\ Received(l)
    /\ Advance(l)
    /\ UNCHANGED <<want, asks>>

(* The Resource failed for the leaf: lost, or only its conclusion was.     *)
SendFails(l) ==
    /\ Sending(l) /\ Fault
    /\ \/ UNCHANGED gwVars
       \/ HandleChunk(l, leaf[l].tier, Here(l))
    /\ Become(l, [leaf[l] EXCEPT !.pc = "failed"])
    /\ UNCHANGED <<want, asks>>

(* Mutant of ReAnswered: what landed despite the lost ack is sent again.   *)
ReAnsweredIgnored(l) ==
    /\ Pc(l, "failed")
    /\ Become(l, [leaf[l] EXCEPT !.pc = "resend"])
    /\ UNCHANGED <<gwVars, want, asks>> /\ NoFault

(* The link is up again: ask what landed before sending it twice.          *)
ReAnswered(l) ==
    /\ Pc(l, "failed")
    /\ \/ l \in have /\ Succeed(l)
       \/ /\ l \notin have
          /\ LET r == [leaf[l] EXCEPT !.mask = MaskFor(l), !.of = TierFor(l),
                                      !.blind = FALSE]
             IN  Become(l, IF Here(l) \in MaskFor(l)
                           THEN [r EXCEPT !.pc = "send", !.i = @ + 1]
                           ELSE [r EXCEPT !.pc = "resend"])
    /\ UNCHANGED <<gwVars, want, asks>> /\ NoFault

(* No reply: the outage that failed the Resource is still going on.        *)
ReUnanswered(l) ==
    /\ Pc(l, "failed")
    /\ Become(l, [leaf[l] EXCEPT !.pc = "resend", !.blind = TRUE])
    /\ UNCHANGED <<gwVars, want, asks>> /\ NoFault

ResendOk(l) ==
    /\ Pc(l, "resend")
    /\ Received(l)
    /\ Advance(l)
    /\ UNCHANGED <<want, asks>>

Finish(l) ==
    /\ Pc(l, "send") /\ ~ More(l)
    /\ Succeed(l)
    /\ UNCHANGED <<gwVars, want, asks>> /\ NoFault

(* The second send failed, no link, or the leaf lost power.                *)
Abort(l) ==
    /\ ~ Pc(l, "idle") /\ Fault
    /\ \/ UNCHANGED gwVars
       \/ Pc(l, "resend") /\ HandleChunk(l, leaf[l].tier, Here(l))
    /\ Become(l, Idle)
    /\ UNCHANGED <<want, asks>>

-----------------------------------------------------------------------------
(* The server, the uploader, power.                                        *)

Ask(l, t) ==
    /\ asks < MaxAsks /\ asks' = asks + 1
    /\ want[l] # t
    /\ want' = [want EXCEPT ![l] = t]
    /\ UNCHANGED <<gwVars, leaf>> /\ NoFault

(* The ingest of any full of the photo completes the command.              *)
Upload(l) ==
    /\ l \in queue
    /\ queue' = queue \ {l}
    /\ want' = [want EXCEPT ![l] = None]
    /\ UNCHANGED <<asm, part, have, taken, leaf, asks>> /\ NoFault

(* A full in custody is given up and disclaimed (GatewayCustody).          *)
GiveUp(l) ==
    /\ l \in queue /\ Fault
    /\ queue' = queue \ {l} /\ have' = have \ {l}
    /\ UNCHANGED <<asm, part, taken, leaf, want, asks>>

(* The claim is displaced by newer ones.                                   *)
ClaimAges(l) ==
    /\ l \in have /\ Fault
    /\ have' = have \ {l}
    /\ UNCHANGED <<asm, part, queue, taken, leaf, want, asks>>

(* The card's part of the queue survives; the ring and the assembly do not. *)
GatewayReboots ==
    /\ Fault
    /\ AsmReset
    /\ have' = {} /\ queue' \in SUBSET queue
    /\ UNCHANGED <<taken, leaf, want, asks>>

Quiet == \A l \in Leaf : Pc(l, "idle")

LeafStep(l) ==
    \/ Answered(l) \/ Skip(l) \/ SendOk(l) \/ ReAnswered(l) \/ ResendOk(l)
    \/ Finish(l)

Next ==
    \/ \E l \in Leaf :
         \/ Fetch(l) \/ LeafStep(l) \/ Unanswered(l) \/ SendFails(l)
         \/ ReUnanswered(l) \/ Abort(l)
         \/ Upload(l) \/ GiveUp(l) \/ ClaimAges(l)
         \/ \E t \in Tier : Ask(l, t)
    \/ Stall /\ (Fault \/ (Quiet /\ NoFault))
    \/ GatewayReboots

Spec == Init /\ [][Next]_vars

(* The leaf's code runs on; the server re-delivers the command; the queue  *)
(* drains; the stall timer, which an attempt that sends nothing does not   *)
(* restart, fires in the end.                                              *)
Fairness ==
    /\ \A l \in Leaf : WF_vars(Fetch(l)) /\ WF_vars(LeafStep(l))
                       /\ WF_vars(Upload(l))
    /\ SF_vars(Stall /\ Quiet /\ NoFault)

FairSpec == Spec /\ Fairness

-----------------------------------------------------------------------------
(* Properties.                                                             *)

(* Every variable has its type.                                            *)
TypeOK ==
    /\ asm \in Assembly \cup {None}
    /\ \E D \in SUBSET (0 .. 31) : part \in [D -> Chunk]
    /\ have \subseteq Leaf /\ queue \subseteq Leaf
    /\ want \in [Leaf -> Tier \cup {None}]
    /\ leaf \in [Leaf -> Run]
    /\ asks \in 0 .. MaxAsks /\ faults \in 0 .. MaxFaults

(* got_mask tells the truth about the spool file: the chunks it names, and *)
(* no others, were written, all of the photo and tier being gathered.      *)
(* What a displaced or failed assembly wrote never stays behind.           *)
MaskIsTheSpool ==
    IF asm = None THEN part = Empty
    ELSE part = [i \in asm.mask |-> [ev |-> asm.ev, tier |-> asm.tier]]

(* What the gateway takes custody of is one photo in one tier, complete.   *)
TakenWhole ==
    \A p \in taken :
        p.file = [i \in Index(p.ev, p.tier) |-> [ev |-> p.ev, tier |-> p.tier]]

(* A send_full under way has a tier and stays within its chunks.           *)
RunInv ==
    \A l \in Leaf :
        ~ Pc(l, "idle") =>
            /\ leaf[l].tier \in Tier
            /\ Here(l) <= Chunks[l][leaf[l].tier]
            /\ Pc(l, "failed") \/ Pc(l, "resend") => More(l)

Resends(l) ==
    /\ Sending(l) \/ Pc(l, "resend")
    /\ leaf'[l].i # leaf[l].i
    /\ Gathers(l, leaf[l].tier) /\ Here(l) \in asm.mask

(* "The exact waste this protocol exists to kill": a chunk already in the  *)
(* assembly is sent again only by a leaf that got no answer to "have?".    *)
NoWaste == [][\A l \in Leaf : Resends(l) => leaf[l].blind]_vars

(* A photo asked for reaches the server, or the leaf is told that the      *)
(* gateway has it, once the other leaves keep off the assembly.            *)
AskedArrives ==
    \A l \in Leaf :
        <>[](\A m \in Leaf \ {l} : Pc(m, "idle"))
            => (want[l] # None ~> want[l] = None \/ l \in have \ queue)

=============================================================================
