# MeshCam firmware: TLA+ specifications and proofs

Trail cameras (*leaves*) sleep most of their life, photograph what moves, and
push a thumbnail over a LoRa mesh (Reticulum) to a *gateway*, which uploads it
to a server.  A user who likes the thumbnail asks for the full photo; the
server queues a command, the gateway delivers it into the few seconds a leaf
listens after it has announced itself, and the leaf sends the photo in chunks
that may take minutes of airtime.  Everything in between can lose power, lose
a packet, fill up, or be unplugged.

This directory holds models of the parts of that chain where a photo, or the
link itself, can be lost, their TLC configurations and their TLAPS proofs.

    tlc -config SdQueue.cfg MCSdQueue       # check a module
    tlapm SdQueue_proof.tla                 # check its proofs

`PROJECT.json` maps every definition to the source lines it models, lists each
run with what it shows, a mutant of the code for every property, the hazards,
the findings and the theorems.

## 1. The system

| Component | Source | State | Operations | Hard part | Correct when |
|---|---|---|---|---|---|
| SD upload queue | `gateway/src/sd_queue.inc`, `sd_queue_drain.inc` | `/q` on the card, `TMP.TMP`, `s_sdq` (mounted, depth, free bytes, strikes), card-detect sample | mount, scan, enqueue (make room, write, rename), drain (pick, post, remove) | card pulled, card hung, power lost, write or remove failed between any two steps; cached depth and free bytes | accepted frames stay until settled or evicted in order; claims are honest; the backlog drains |
| Card probe task | `sd_queue.inc` 347-417, 540-565 | a second FreeRTOS task on the other core, `probe_task`, `stuck` | mount off the loop task; kill after 4 s | two tasks on one file system | a card in use is never being mounted |
| Custody | `gateway/src/main.cpp` 330-339, 984-1130, 3240-3265 | `s_pending` (one frame), `/spool.jpg`, the ring `s_have[12]` | take custody, displace, disclaim, upload, drop | the claim outliving the frame; depth-1 slot | "have" is answered only for a photo someone has |
| Chunked transfer, gateway end | `main.cpp` 934-981, 1128-1245, 1310-1371 | `s_asm` (one assembly, `got_mask`), spool file | `handle_chunk`, `have?`, stall timer | leaves and tiers displace one another; flash write fails after the air did not | only whole photos enter custody |
| Chunked transfer, leaf end | `leaf/src/leaf_radio.cpp` 312-566, `leaf/src/main.cpp` 401-429 | one run of `leaf_radio_send_full` | query, skip, send, query again, resend once | conclusion lost although the chunk landed; gateway reboots mid-way | a full arrives; nothing is sent twice without need |
| Upload and its outcome | `gateway/src/sd_queue_upload.inc` | none | POST, classify | an answer lost after the server stored the frame | retry, drop and settle are told apart |
| Radio profiles, gateway end | `main.cpp` 646-730, 2081-2375, 2454-2535, 3757-3783, 3836-3880, 4037-4084 | `s_rf`, the roster's shepherd marks, hold, NVS index | grant, confirm, revert, scan, walk back, shepherd, `/rf/base`, boot | one radio retuned by five timers; lost grants and confirms | the two ends meet again |
| Radio profiles, leaf end | `leaf/src/main.cpp` 84-104, 242-337, 1495-1515 | RTC memory: profile, TTL, silent wakes, ever-contact, sweep step | wake, move, confirm, count, sweep | RTC lost; silence means two things | a leaf falls back to base, or finds the gateway |
| Roster and TOFU admission | `main.cpp` 449-527, 1437-1616, 1684-1886 | `s_roster[4]`, live and witness marks, re-arm budget | pin, re-arm, clear | a live leaf that sleeps longer than the grace time; evidence older than the fault it should rule out | ghosts make room for the leaf that came back, and nothing else does; flash agrees with RAM |
| Command downlink | `main.cpp` 1390-1412, 1626-1660, 1888-2070; `leaf_radio.cpp` 572-633 | `s_cmds[6]`, `s_cmd_acks[8]`, leaves heard; four slots in the leaf | poll, deliver on announce, receipt ack, relay, execute | ack lost; a leaf that listens for seconds; a list rebuilt in place | no command leaves the offer before its leaf had it; it runs or expires |
| Claim client | `gateway/src/claim_client.inc` | claim block in flash, `s_claim_state`, the time of the first 401 | start, attempt, 401 on ingest, forget | a 401 out of turn; five keys removed one by one | a unit works or can be set up |
| Network selector, UDP bridge gate, portal | `main.cpp` 2561-2995, 4122-4157; `portal.inc` | `s_net_state`, rotation cursor, failures; credential and `wifi_ok` in flash; `_online` of the bridge | tick, wired take-over, save and clear a credential, portal on and off | tasks of three drivers between any two steps; edges the loop misses | bridge on the wire only; portal shut for what worked; a door stays open |
| Console, beats, OTA validity, factory reset, announce watchdog | `main.cpp` 2393-2451, 3031-3165, 3558-3673 | NVS | HTTP and serial handlers | mostly I/O | |
| LoRa interface, RAK3172 driver | `lib/lora_interface/` (one source, copied to leaf and gateway) | `_rx_armed`, the module behind the UART, `split_buffer` | send, receive, retune, recycle | flag and module disagree; late answers; halves of two packets | one clean operation heals; no mixture is handed up |
| Leaf wake cycle and store | `leaf/src/main.cpp` 209-238, 440-558, 906-1089, 1298-1519; `leaf_store.cpp` | `g_lowbatt` and the clock in RTC memory; `/tcfull2` on the card or in flash; the backend chosen per boot | brownout nap, lock-out, capture, save, evict, fetch, format, sleep | resets between any two steps; a card pulled or exchanged; a clock that falls back | served photos are whole; no readable card is formatted; rails rest; the ring keeps the newest |
| Leaf identity, NVS, OTA | `leaf_nvs.cpp`, `leaf_identity.cpp`, `leaf_ota.cpp` | keys in two partitions, the OTA slots | migrate, update | one-off | |
| Leaf portal, BLE, serial protocol, camera, detector | `leaf/src/leaf_*.cpp` | | peripheral I/O | | |
| Serial bridge | `bridge-host/serial_bridge.py` | line assembler, upload queue | parse, post, poll | | |
| PoE bridge, surveyor, validation rigs | `bridge-poe/`, `surveyor/`, `validation/` | | | forward packets, measure | |

How they interact.  All of the gateway's protocol code runs on one task:
`loop()` polls Reticulum, whose callbacks set flags or buffer, and then runs
each handler to its end, in a fixed order (announces and grants, uploads,
commands, `rf_loop`, the SD queue).  So handlers are not interleaved with each
other; what interleaves with them is the outside: the other radio, the card,
the server, power.  The exceptions are the card probe and the tasks of the
Ethernet and Wi-Fi drivers.  A leaf is one pass through `setup()` per wake; between wakes it
keeps only its RTC memory, NVS and its card.

## 2. The modules

| Module | Models | Composes |
|---|---|---|
| `FrameStore` | what the upload queue promises: abstract | |
| `SdQueue` | the queue, step by step | implements `FrameStore` |
| `GatewayCustody` | slot, spool file and ring | has `FrameStore` for its card, implements it |
| `FullTransfer` | several leaves' senders and the gateway's one assembly | leaf and gateway |
| `Adr` | radio profiles, several leaves and the gateway | leaf and gateway |
| `AdrLive` | `Adr`, with an end to the disturbances and fairness | extends `Adr` |
| `TofuRoster` | which leaves a gateway manages | |
| `Mailbox` | what the command downlink promises: abstract | |
| `CmdDownlink` | commands and receipt acks, gateway and leaves | implements `Mailbox` |
| `NetSelect` | network selector, portal, bridge gate | |
| `ClaimClient` | the claim state machine | |
| `Uplink` | the gateway's way out | composes `NetSelect` and `ClaimClient` |
| `LoRaLink` | AT driver, module and split frames | sender and far end |
| `LeafWake` | one leaf from wake to wake: gates, capture, store | |
| `MC*` | instances for TLC | |
| `*_proof` | theorems and proofs; those about `LeafWake` are in `CmdDownlink_proof` | |

### FrameStore

A set of named entries.  An accepted frame leaves only after the server has
settled it (stored or refused it for good), by eviction in the documented order
(a full for anything, oldest first; a thumb only for a thumb and only when no
full is left), or because its medium went bad.  Mounting, scanning, the torn
assembly and reboots are not even steps of it.  The queue refuses and removes in
two steps (`Reject`, `Settle`); custody, which takes a handler whole, in one
(`Refuse`).

### SdQueue

`sdq_enqueue` and `sdq_drain_one` run to completion on the loop task, but the
world does not wait: the model cuts them where the card is touched (`pc`), and
between any two steps the card may be pulled or put in, hang, rot in one entry,
refuse a mount, a write, a rename or a remove, or the box may lose power.

* `card`, `tmp`, `free`, `present`, `live` are the world; `mounted`, `depth`,
  `strikes`, `est`, `cdLast` are the code's cached beliefs about it.
* `EnqueueStart`, the steps of `sdq_make_room` (`RoomEnough`, `EvictFull`,
  `EvictThumb`, `RoomRefused`, `RoomScanFails`), `WriteBegin`, `WriteDone`,
  `WriteFails`, `Rename`, `RenameFails` are `sdq_enqueue`; the custody note of
  `queue_upload_owned` belongs to the rename, which is followed by it without
  the card being touched.
* `DrainPick`, `DrainBad`, `PostOk`, `PostRetry`, `PostReject`, `DrainRemove`
  are `sdq_drain_one` and the outcome of `upload_body`.  A retry is ambiguous:
  the server may have stored the frame although the answer was lost.
* Names are the capture second, or the gateway's clock for a leaf without one,
  stepped past names that are taken; the last step's name is used unseen
  (`SteppedTo`), as the code's loop ends without looking at it.
* `Mount` is `sdq_mount_blocking` that succeeds, `MountFails` its four ways to
  return false (tried again a minute later), `MountWedges` the probe that never
  returns: `stuck` is then set for the rest of the boot.  A card at the start
  may carry entries of another box (`CardsAtStart`).
* The removes of `TMP.TMP` are unchecked in the code and may fail (`TmpGone`,
  `TmpStays`): at the mount, after a failed write and after a failed rename.

`orphaned`, `phantom` and `stale` are history variables: frames of entries that
were dropped although their header no longer read, bytes credited by an eviction
that removed nothing, and whether the assembly on the card is there because its
remove failed.

### GatewayCustody

A handler is one step, the card is a `FrameStore`.  `ThumbArrives`,
`FullArrives`, `FullRenameFails` are the ends of `queue_upload` and
`handle_chunk`; `SlotOk`, `SlotRetry`, `SlotDrop`, `SlotBad` are
`upload_pending`; the `Card*` actions are the queue's.  `WantFull` is a user,
and a wanted full is sent (`FullArrives`) only while the ring does not claim it.
`leaked` records the frames the code lets go with their claim left standing, at
the four places where it does (see findings).

### FullTransfer

Each leaf runs `leaf_radio_send_full` as a program counter: query, skip or send
each chunk, query again after a transfer that seemed to fail, resend once.  The
gateway's assembly remembers event, total and mask; the spool file is a function
from chunk numbers to the photo each came from, so that a mixture would show.
A tier is what distinguishes two sets of bytes of one photo.

### Adr and AdrLive

One gateway, any number of leaves, any family of rungs around `Base`.

* `gw` is `s_rf` with the roster's marks.  Time is abstracted to what the code
  compares: `quiet` (90 s without a direct announce), `recent` (heard on base in
  the last minute), `since` (announces since the last grant, up to two), and the
  timers, which may fire at any time their guard allows.  `ConfirmTimeout` waits
  until no leaf is in the window a grant was sent into (twenty seconds against
  two and a half); the scan's ninety seconds outlast the confirm timeout.
* A wake is two steps: the announce (`WakeHeard`, `WakeUnheard`,
  `WakeRelayed`), to which the gateway reacts within its `loop()` pass, and the
  end of the window (`SleepQuietly`, `ConfirmHeard`, `ConfirmLost`).  Between
  them any timer, other leaf or power cut may come.
* Signal strength, sample count, cooldown and back-off only decide whether and
  which way to step; the model may take either step or none.
* `Course` is what goes on by itself, `Disturbance` what a site is spared in
  the end: power cuts, the operator, pins dropped.

`Adr` leaves out what only delays a retune (`radio_busy()`, an open assembly):
its timers may be late without it.  Where lateness matters, in the shepherd's
end, the model shows it (`Attentive`, `ShepherdEnd`).

### TofuRoster

`entry` is `s_roster` by identity, with the evidence each member has given;
`live` is the one slot for a stranger's evidence, `nvs` the flash namespace, with
the single pin of an older firmware.  `MemberHeard`, `Enrols` and `StrangerHeard`
are a direct announce in `received_announce` (`tofu_note_live` first, then the
roster); `Rearm` is `tofu_rearm_scan`; `Save` is the deferred write, which may
come any number of announces later and which does nothing for an empty roster,
as `Preferences` does not write a blob of no bytes; `ClearRoster` and `Reboot`
complete it.  The world is which identities are on the air (`Joins`, `Departs`,
at any time) and whether the gateway's receive path works (`GoesDeaf`).  A leaf
may be silent for as long as it likes.

Clocks are ages that stop at the value the code compares them with.  The scan
runs in every pass of `loop()`, so time does not pass (`Tick`), nor does the
gateway go deaf, with a re-arm due (`ScanDone`).

### Mailbox and CmdDownlink

`Mailbox` says what whoever queues a command is promised: it stays on offer
until the leaf it is for has had it in its hands, its answer has come in, or it
has expired.  In `CmdDownlink`

* `cell` is `s_cmds`; a cell no longer `used` keeps its text, as in the code, and
  `hot` is "sent less than 120 s ago".  `Poll` rebuilds the list in place, `KeptHot`
  is the lookup by text of lines 1919-1923.  `heard` are the leaves whose
  announce the loop has not yet answered, `acks` is `s_cmd_acks`.
* `Deliver` is `deliver_pending_commands` together with
  `leaf_radio_poll_commands` receiving: every due cell counts as sent, any part
  of the packets arrives, and only at a leaf that is up and has slots to spare.
  `Routed` sends a command to the leaf it names, or to any if it names none
  (`For`); the branch for a leaf without a slug is never taken, as every roster
  entry is given one.
* A command that does not fit a cell's text is not listed (`Oversize`, `Fitting`);
  one that does not fit a frame is sent and never heard (`Split`): the comment
  at `trim_cmd_for_air` says that its second half misses the window.
* `Wake`, `CloseEmpty`, `CloseAcking`, `Execute` are a leaf's wake: announce,
  window, receipt ack, then the commands one by one.  `PostAcks` posts every
  queued ack once.  `GatewayCut` and `LeafCut` are power cuts.

`held`, `ran` and `lost` are history.  The server (lists what is open, oldest
first, never regresses a command) is external.

### NetSelect, ClaimClient and Uplink

`NetSelect` is the dual-stack build.  The loop alternates between `Tick`
(`net_ensure`: one state of `net_select_tick`, then `portal_sync`) and `Check`
(the edge of `net_up()` that starts the bridge); `EthEvent`, `Associates` and
`Drops` are the drivers' tasks and come between any two of them.  `late` and
`over` are the timers; `List` is what `net_cred_at` indexes, `Ensure` is
`wifi_ensure`, `Preempt` the wired take-over, `SaveCred`/`ClearCred`/`Changed`
are `net_creds_save`, `_clear` and `_changed`.  `met` (the selector went up on
the credential) and `doubt` (a mark that may be about another network) are
history.

`ClaimClient` keeps the claim block as `code` and `tok` (what is in flash, and
whether the server would take it), `s_claim_state` and the strike.  An attempt
is one step per answer: `Claimed`, `Unbound`, `Refused` (a terminal answer to a
code the account does not know), `RefusedAnyway` (one to a good code: clock,
replay, quota), `Retried`; `SignFails` is an attempt that cannot be signed;
`Note401` is `claim_note_ingest_401`.  Back-off only delays and is left out.

`Uplink` runs both over one unit, with the console, the portal's form, the form
on the uplink (`SetupSubmit`), the factory reset, cables, routers, the owner's
account, lost answers and power cuts, among them cuts inside `net_creds_save`
(`HalfSaved`) and `claim_clear` (`HalfCleared`).

### LoRaLink

One node's AT driver, the module behind its UART, and the reassembly slot of
the far end.  Every operation blocks its caller, so the node is sequential and
`pc` is the next command: `Handshake`, `Encry` and `P2P` are `begin` up to its
`configure`, `Stop` is `_stop_rx`, `Arm`/`ArmAgain` `_arm_rx`, `Exit`
`_force_rx_exit`, `P2P` `configure`, `PSend`/`PSendAgain`/`Done` `transmit`.  A
start that fails leaves the driver `off`: nothing is sent or polled until the
next `Restart`, a wake of a leaf or a reboot of a gateway, which numbers its
packets from 0 again.  A command may be garbled (the module does nothing), its answer lost,
or late: `late` is an answer still on its way, which the next command may take
for its own.  `HandleSplit` is the split branch of `handle_rx_frame`, and the
sender's half stands for `send_outgoing` in both copies of the file.

The slot is one for all senders and knows a half by a number of three bits, so
`Chatter` brings halves of other nodes under any number at any time, which take
the slot, replace what is in it or are joined with it.  Four histories tell the
cases apart: `boot` (the last packet before the latest start), `echo` (the
module was given a half a second time), `clear` (the packet being sent met no
half with its number, and nothing took the slot between its two halves) and
`up` (what was joined last).

### LeafWake

One leaf: one pass through `setup()` per wake, `pc` telling where it is, and
between wakes only `g_lowbatt`, the clock and the armed pin (RTC), the card and
the flash.  `Reset` may come between any two steps, with RTC memory new, the
clock back at the build time unless the RTC kept it, and `brown` when
`esp_reset_reason()` says brownout.

* `Nap` is `brownout_backoff_sleep`; `GatePasses`, `GateHolds` and `GateCloses`
  are the over-discharge gate with `Resumes` its upper threshold and the blind
  sense; `WalkUpEnds` ends the walk-up window of a lock-out, `Gasp` is the last
  announce and `lowbatt_sleep`.  `KeepPir` says whether the PIR stays armed in
  lock-out.  `WakeUp` clears the reset reason, as a wake from deep sleep does,
  and raises the camera's rail if the PIR woke the leaf, before either gate.
  `rails` are the switched rails that are up.  `CellMoves` is the battery, seen
  once per wake; a reading off the scale, which is not believed, counts as full.
* `Capture` is `on_pir_event` up to the save, also from the maintenance window;
  `SaveBegins`, `Evict`, `OpenFile`, `Write` are `leaf_store_save`, cut where the
  medium is touched; a directory that does not open lets a save past the count.
  `Mounted` is `leaf_store_begin`: the backend is chosen once per boot, and the
  flash may have to be formatted to be mounted, or fail (`FlashBegins`).  `Answers` and `Remounts` are the SD driver when the mounted card is
  gone or another sits in its place.
* `FetchFull` is `leaf_store_load`, `TimeSync` the gateway's clock.  The consented
  format is two steps: `FormatGate`, which reads `Unreadable` at that instant, and
  `Mkfs` or `MkfsFails`, minutes later, on whatever card is then in the slot.

A file keeps its shot, how far behind the clock was (`late`; its time of last
write is `ev - late`) and whether all, some or none of it is there.  `reported`
(saves that came back false), `torn` (shots of which less than the original was
served), `erased` (readable cards formatted, and whether they were put in after
the gate: `entered`), `due` (a brownout without a nap since, a lock-out without
a charge since) and `forgotten` (what of that a later reset wiped out: the
lock-out is in RTC memory, the reset reason is the last reset's) are history.
No reset clears them.

## 3. The runs

| Run | Bounds | Shows |
|---|---|---|
| `sd_queue` | two events (four frames), one with no clock, colliding keys, card of three entries, three arrivals, two faults, a card that is blank or carries an entry of another box at the start | `HaveHonest`, `NoTornAssembly`, `DepthNeverOver`, `EntersWhole`, `RoomKept`, `BacklogDrains`, and `RefinesStore`: the queue implements `FrameStore` |
| `custody` | two events, one full asked for, ring of two, card of one, two faults | `RingHonest`, `SpoolOwned`, `WantedLands` |
| `custody_claim` | no fault | finding |
| `transfer` | two leaves; one photo of one chunk (standard) or two (max), one of two or three; three requests, one fault | `MaskIsTheSpool`, `TakenWhole`, `NoWaste`, `AskedArrives` |
| `adr` | two leaves, one of which may fall silent for good; two rungs; power cuts, operator, relays, pins dropped between sweeps | `WayBack`, `Settled`, `PersistedIsGranted`, `NeverStranded`, `OrphanAdopted` |
| `adr_stranded` | as `adr`, pins dropped mid-sweep, safety only | finding |
| `tofu` | two slots, three identities, two announces to a witness, clocks of one unit, one re-arm per boot, one fault | `Persisted`, `NeverEmptied`, `Admitted` |
| `cmd` | two cameras, one of which never wakes; four commands: for the camera that is gone, too big for a cell, too big for a frame, and a `fetch_full` that names no camera; two cells, two leaf slots, two ack slots, one power cut | `ReceiptHonest`, `CommandRuns`, and `RefinesMailbox`: the downlink implements `Mailbox` |
| `cmd_hammer` | as `cmd` | finding |
| `uplink` | two networks, none or one of them baked in; two failures to a rescue; any claim state; two events from outside | `BridgeFollowsWire`, `PortalBounded`, `ProvenHonest`, `DoorOrService` |
| `lora` | two profiles, numbers modulo two, three packets of two frames, other nodes' halves, two faults, one start after the first | `OpsHeal`, `NoMix`, `CleanArrives`, `DeafnessEnds` |
| `leaf` | two cards with, without or with a damaged file system; the PIR armed in lock-out; a ring of two, three shots, two faults | `ServedWhole`, `NeverErased`, `RailsRest`, `NewestKept`, `ComesBack` |

Every property has a mutant of the code that breaks it.  `adr` and `uplink` also
check `TypeOK`, where it says something of its own (the shape of the radio's
state, the cursor within its list); in the other proved modules it is a theorem,
and in no run.

Are the bounds enough?  Two events give two thumbs and two fulls, so every
eviction choice (full for full, full for thumb, thumb for thumb, refusal), every
name collision and every displacement of slot and spool happens; the third
arrival is what finds the room that the second had to make.  Two faults allow a
fault during the recovery from a fault.  A ring of two wraps.  Two chunks are
the least with a skip and a send, three have a middle; two leaves are the least
that displace each other.  Two leaves are the least that make a site
multi-leaf; with two rungs every step reaches or leaves base, and longer
families are covered by the proofs, which hold for any.
Two slots and three identities give a full roster with a stranger, a silent pin
beside a heard one, and a slot that two compete for; the cooldown needs a second
re-arm and so three slots, which only the proof covers.  The flash may hold
anything at the start, so that the one fault comes on top of any earlier boot.
Two cells with four commands make the list shift, fill and leave stale copies
behind; the command for the camera that is gone and the one too big for a frame
can hold both cells, which is `Crowded`, and either's expiry ends it.  Two events from outside are,
for example, a save and a power cut inside it, or a take-over by the wire in the
middle of an attempt and its end; the initial states range over every cable,
router, credential and claim, so that they come on top of any earlier history
(the invariants were also checked with three events).  Numbers modulo two
come round with the third packet, and one more start lets a packet meet a half
of the boot before under its own number; two faults allow a fault in the
recovery from another, or an answer that is late and a start that fails.  With a ring of two, the third shot evicts
one of the first two; two faults let the clock fall back and another card come,
or a write fail and power with it; two cards are the least that can be exchanged.  Unbounded inputs are capped by
`MaxArrivals`, `MaxAsks`, `MaxShots`, `MaxFaults`, `MaxCuts`, `MaxEvents`, `MaxSplits`,
`MaxStarts` and `N`; the
leaf's counters saturate where the code compares them.  `RemoveMayFail`,
`Operator`, `MidSweep` and `Relay` switch a kind of disturbance off.

### Fairness

* `SdQueue`: `loop()` runs for ever and reaches `sdq_loop` and the drain on
  each pass that the radio is quiet, so every step of an operation under way is
  weakly fair.  That a frame offered again and again is answered one day
  (`PostOk \/ PostReject`, strongly fair) is an assumption about the network.
  Arrivals and faults are not fair; faults are finite by `MaxFaults`.  A mount
  that failed is tried again each minute, but a probe that wedged is not tried
  again in this boot: `BacklogDrains` excepts it (`stuck`), as the comment at 547
  does.  The run may stop there, hence no deadlock check.
* `GatewayCustody`: the same for uploads from slot and card, and the server
  re-issues a `fetch_full` until it has the frame.  `WantedLands` assumes a card
  that comes back if it holds something.
* `FullTransfer`: a leaf's code runs on; commands are delivered again; the stall
  timer fires once no leaf is sending.  `AskedArrives` is stated for a leaf
  whose neighbours have gone quiet: nothing in the code keeps two leaves that
  send alternately from displacing each other for ever.
* `AdrLive`: the gateway's timers and the end of a window are weakly fair.  A
  leaf checks in for ever, by its own timer and not by motion alone, and the air
  does not lose every announce that meets the gateway's profile: strongly fair.
  That the gateway's toggle and a leaf's check-in do not stay out of phase for
  ever (`Meets`) is the code's own reasoning: thirty seconds of alternation
  against minutes or hours, "a coin flip" (comment at `GW_RF_SHEPHERD_MAX_MS`).
  Disturbances end at an arbitrary moment (`CalmDown`), before which every state
  of `Adr` can be reached; from then on no new rung is tried either.
* `TofuRoster`: the clock and the scan go on (weakly fair), and a stranger that
  announces for ever is heard again and again (strongly fair).  Known leaves
  need not be.  `Admitted` is stated for a stranger that is the only one, for a
  gateway that hears; it excepts a roster of which every member has been heard
  in this boot (then it is rightly full) and a boot whose re-arms are spent.
* `CmdDownlink`: polling, timers and ack posts go on, and a leaf that is awake
  runs on (weakly fair).  Strongly fair, assumptions about radio and uplink: a
  camera that keeps waking does so, again and again, while a command is due and is
  heard; is answered within its window; its receipt ack is heard, and its POST
  gets through.  None of this is assumed of a command that is too big for a
  frame, or for a camera that is gone (`Deliverable`).  `CommandRuns` excepts
  commands that expired, those that a power cut took after their receipt was
  acked, and those behind as many undeliverable ones as there are cells, for as
  long as these stand (`Crowded`).
* `Uplink`: the loop goes round, its timers run out, and the drivers report what
  has happened (weakly fair); a network within reach is joined within some
  window, and claim attempts and beats are answered in the end (strongly fair).
  Events are not fair.  `DoorOrService` excepts a unit whose proven network is
  out of reach (`RouterGone`: the code keeps the portal shut by design) and
  `Orphaned` (below).
* `LeafWake`: `setup()` runs on, and the timer, which every sleep arms, wakes what
  sleeps (weakly fair).  Motion, weather, people and commands are not fair.  That
  a walk-up window ends assumes a phone that lets go.
* `LoRaLink`: commands time out, so the driver always goes on; the gateway
  announces every thirty seconds, and a packet begun is finished.  A driver that
  is off stays off, restarts being nobody's duty: `DeafnessEnds` is stated for a
  start that succeeded.

## 4. Findings

1. **`custody_claim`** (code bug, `main.cpp:1233`): when a second full completes
   without a card, `handle_chunk` empties the spool through `pending_clear()`,
   and `queue_upload_spooled`, which would have disclaimed the displaced frame,
   finds the slot empty.  The displaced photo's claim stands; its leaf skips
   every request for it until twelve newer claims or a reboot.  Three more drops
   keep their claims: a spool file of the wrong size (3247), a slot frame the
   server refuses (the server has then decided on it), and an entry discarded
   for its header.
2. **`adr_stranded`** (`main.cpp:2368`): a pin dropped while the shepherd is
   parked on a vacated rung, and while frames keep `rf_loop` from ending the
   shepherd, lets a single-leaf grant be made *from* that rung.  If its confirm
   is lost, the revert goes to that rung, where nothing is pending, nothing
   scans (`granted` is base) and nothing sweeps.
3. **`cmd_hammer`** (`main.cpp:1921`): a cell of the command list that drops out
   of use keeps its text and its time; a command that moves up leaves a copy
   behind, and the next poll keeps the time of the last copy it finds.  A command
   just sent is sent again with the next announce, "mid-transfer".

Met on the way and described by the models, without a run of their own:

* The `have?` ring does not know tiers (`main.cpp:1003`): a "max" asked for after a
  "standard" is answered "have", the original never leaves the leaf and the leaf
  reports success, against `leaf/README.md:171-175`.
* A leaf skips chunks on the mask of another tier's assembly and ends "all chunks
  sent" with a partial photo (`leaf_radio.cpp:518`); `TakenWhole` shows that no
  mixture is taken, `AskedArrives` that a later request brings the photo.
* The evidence that ears and air work is counted from a witness's first announce
  to *now* (`main.cpp:1543`): three announces in the first minute are evidence for
  the rest of the boot, and a gateway whose antenna snaps after them drops a pin,
  in spite of the comment on `tofu_rearm_scan`.
* `claim_clear` (`main.cpp:170`) removes the code before the token: a power cut
  between them leaves a unit that boots as claimed, is refused, has no code to
  claim with and shows no form (`Orphaned`).  The comment at
  `claim_client.inc:243` names that the state with "no way back".
* A cut inside `net_creds_save` (`main.cpp:2675`) leaves the new network with the
  `wifi_ok` of the old; and a credential saved while the station is still on
  the old network is marked as proven by the old one's association (2928), against
  2655: a mistyped passphrase then never brings the rescue portal.  These are the
  two cases of `doubt` in `ProvenHonest`.
* A claim started on the console while the unit is claimed keeps the old token and
  resumes as claimed after a cut; an unbound answer while re-claiming moves to
  `AWAITING`, from which a terminal answer no longer clears the block.
* After a take-over from Wi-Fi to a wire that nobody had used in this boot,
  `net_up()` shows no edge, so the bridge is first started by the next one.
* Power lost, a leaf seeds its clock with the build time (`leaf/src/main.cpp:1352`)
  and its flash ring, which evicts by time of last write, drops the photo just
  taken for the old ones, until a gateway sets the clock; `leaf_store.h:11-13`
  promises "a ring of the newest".  `NewestKept` excepts exactly this.
* A save that fails its second look (`leaf_store.cpp:185`) leaves the short file,
  unlike a short write (174); a later `fetch_full` sends it as the original.
  `ServedWhole` excepts what the save itself reported.
* `evict_for_space` runs before the write it makes room for: a write that then
  fails has cost a photo.  Files of no bytes, left by a reset between open and
  write, count as entries of the ring.
* Photos saved in flash while the card was out are not found once it is back,
  and the other way round: one backend per boot is looked at.
* A card put in between the gate of a confirmed `format_card` and `f_mkfs`
  (`leaf_store.cpp:267`, 299) is formatted, readable or not, against
  `leaf_store.h`: "A card the leaf can read is never formatted".  The window is
  short and the driver must find its way into the new card; `NeverErased` excepts
  exactly these cards.
* A lock-out is `g_lowbatt` in RTC memory: a reset that wipes it lets a leaf with
  the cell between the two thresholds work (`forgotten` in `RailsRest`).
* Halves of two nodes, or of one node before and after a restart, that bear the
  same number are joined (`LoRaInterface.cpp:496-509`), and a half that waits
  under a packet's number costs that packet; `NoMix` and `CleanArrives` except
  these.  A half the module was given twice is joined with itself.
* One lost answer to `AT+P2P`, or four to `AT`, during `begin` keeps a gateway
  without a radio until somebody reboots it (`Rak3172Modem.cpp:241`,
  `main.cpp:3784-3791`).
* Open commands for cameras that are gone, or too big for one frame, fill the
  cells and starve those of live cameras until they expire (`main.cpp:1905`):
  `Crowded` in `CommandRuns`.  A command of 512 bytes or more is skipped (1916).
* The last gasp is "never after a BROWNOUT reset" (`main.cpp:1405`), but after one
  the nap of 1323 always comes first, and the wake from it has another reset reason
  and `g_lowbatt` wiped: a flat cell gasps after every nap.  `RailsRest` shows that
  the nap does come between.

In `adr` pins are therefore not dropped mid-sweep; all else may be.

## 5. The proofs

For every value of the constants (any events, card, ring, leaves, chunks up to
32, rungs), from the `ASSUME`s of the modules:

* **`SdQueue_proof`.**  `TypeOK /\ WorkInv` is inductive: `WorkInv` is what the
  later steps of an operation rely on from its earlier ones (the frame at hand is
  the one in the assembly; the entry being drained stays on the card until it is
  settled), across every fault that may come between.  On it rest `CustodyHonest`
  (`HaveHonest`), `AssemblyClean` (`NoTornAssembly`: a remove that failed is the
  only way in which an assembly is left behind) and `NamesApart`
  (`NamesUnique`: no two entries share a name), on the latter `DepthSound`
  (`DepthNeverOver`, with finite-set cardinalities) and **`QueueIsStore`**:
  `Spec => RefinesStore`, each step of the queue being a `FrameStore` step or a
  stutter.  `CeilingsHold` (`RoomKept`) needs `RoomInv`: the estimate an enqueue
  works with is covered, from the making of room to the rename, by what is free
  and what a failed remove was credited with (`phantom`), and the bound on
  entries by the last count.  The rename is the only step that adds an entry
  (`OnlyRenameAdds`), so the invariant is read off there, as is `EntriesAreWhole`
  (`EntersWhole`), for which `WorkInv` says that what is renamed is the whole
  assembly of the frame at hand, stale predecessors or not.
* **`GatewayCustody_proof`.**  `CustodyInv == TypeOK /\ RingHonest /\ SpoolOwned
  /\ ClaimedOnce` is inductive as a whole: that a displaced frame's claim goes
  needs the claim to be single, and that the frame uploaded is the one claimed
  needs slot and spool file to agree.  Theorems `ClaimsHonest`,
  `SpoolAndSlotAgree`, `OneClaimEach` (`ClaimedOnce` is only proved, not run).
  `CardIsStore`: `Spec => Card!StoreSpec`, so that custody asks no more of its
  card than the contract `QueueIsStore` shows the queue to keep.
* **`FullTransfer_proof`.**  `TransferInv == GatherType /\ RunInv /\
  MaskIsTheSpool /\ TakenWhole`.  A mask with as many chunks as the photo has is
  the whole photo (`FullMask`, by cardinality), the mask tells the truth about
  the spool, hence what is taken is whole.  Theorems `CustodyOfWholes`,
  `MaskTruthful`, `TypeCorrect`.  `NothingSentTwice` (`NoWaste`) needs `KnowsInv`:
  a leaf that had an answer, while it sends, knows of every chunk of its photo
  that the gateway has gathered, from the mask or because it has gone past it, and
  never stands on one it was told of.  It survives the other leaf because whatever
  that does to the assembly takes it away whole or makes it that leaf's own.
* **`Adr_proof`.**  `Tidy` says that at most one of grant, scan and shepherd is
  at work and that each knows the rung it will leave: a pending grant's `prev`
  is what is granted, a scan parks on the granted rung or on base, a shepherd
  implies that base is granted and that the site has several leaves.  It is
  inductive when pins are not dropped mid-sweep (`~ MidSweep`, the hypothesis of
  `ComesHome`, `BelievesItsRadio` and `FlashTruthful`), and finding 2 is exactly
  the way in which it fails otherwise.  `TypeCorrect` needs no such hypothesis.
* **`TofuRoster_proof`.**  `RosterInv == TypeOK /\ StrangerOutside /\
  StrangerInside /\ NeverEmptied /\ Persisted`.  That a re-arm leaves somebody is
  plain when its witness is a member.  A stranger is heard on a full roster, but
  may bear witness long after, so the invariant must say how much room can have
  been made since: while it is outside and a pin is silent, only re-arms have
  (`StrangerOutside`: roster and spent budget add up to the slots), and the
  budget is below the slots (`TofuAssumption`).  Theorems `RosterTypes`,
  `RosterNeverEmptied`, `RosterPersisted`.

* **`CmdDownlink_proof`.**  `DownlinkInv == TypeOK /\ CellsUsed /\ InboxHeld /\
  AcksHeld /\ ReceiptHonest`: what waits in a leaf's slots is that leaf's and was
  held by it, and so was whatever an ack is queued for.  The
  receipt is honest because of the chain *held, acked, received*, each link of
  which survives losses and cuts.  `DownlinkIsMailbox`: `Spec => RefinesMailbox`.
  `NothingVanishes`, the safety half of `CommandRuns`, needs `HeldAccounted`: what
  a leaf has held was executed, lies in its slots behind the next to be executed,
  or was lost with them; a delivery that comes while the leaf is at work appends
  behind that point, and the slots are emptied only past the last.
  The same module proves **`LeafWake`**, on `LeafInv == LeafTypes /\ SaveShape` (a
  save has a shot, a file opened lies on what is mounted):
  `RailsDoRest` by `Gates` (the reason of a reset stands until the nap, the
  lock-out until the cell is charged, a gasp is of a locked-out, flat cell, and
  while it is owed a charge a leaf is nowhere but before the gate, in the walk-up
  window or asleep); `ReadableNeverErased` by `Gated`
  (while a format is under way, a card in the slot that was not put in since is
  the one the gate found without a file system); `WholesServed` by `ShortReported` (whatever lies in part
  on any medium was reported, and reports are never taken back); `RingKeepsNewest`
  by `FilesApart` (a shot has one file per medium, and the shot at hand has none
  until it is opened), without which "older" would not be strict; and
  `RingStaysBounded` (`RingBounded`, only proved): the ring holds at most `Cap`
  originals and one for each fault, also while one is being written and whenever
  power fails.
* **`LoRaLink_proof`.**  `HealInv` follows one sound operation through the driver:
  at each `pc` it says what flag and module can still disagree about, and that
  nothing late is left; a start without a fault never ends `off`.  `NoMix` rests
  on `NumInv` and `HalfInv`: a half of this boot that waits is as
  many packets old as the next number says, so one that bears the number of the
  packet being sent is of this packet, of another node, of an earlier boot, or at
  least `SeqMod` packets old (`NumbersDiffer`).  `CleanArrives` rests on
  `CleanInv`: with `clear`, after the first half was heard once, the slot holds
  it.  No order or timing of the other senders is assumed.
* **`Uplink_proof`.**  `NetInv == NetTypeOK /\ Shape /\ BridgeFollowsWire /\
  PortalBounded /\ ProvenHonest`, where `Shape` ties state, interface, station and
  cursor together (up exactly with an interface; provisioning exactly with an
  empty list; with the cursor on the credential the station is set to it, or in
  doubt).  A tick is proved branch by branch up to `portal_sync` (`Selected`),
  and once more with it.  Theorems `TypeCorrect`, `BridgeOnWireOnly`,
  `PortalStaysBounded`, `MarkIsHonest`.  Two more delimit what the properties
  except: `OrphanedByCutOnly` (by `Paired`: a token without a code is in use) and
  `DoubtOnlyAsNamed`, which has no invariant of its own.

Only model-checked: the liveness properties (`BacklogDrains`, `WantedLands`,
`AskedArrives`, `NeverStranded`, `OrphanAdopted`, `Admitted`, `CommandRuns`,
`DoorOrService`, `DeafnessEnds`, `ComesBack`), which rest on fairness and
`ENABLED` and are out of the prover's reach.  Every invariant and every action
property of a passing run has its theorem; the three findings are properties
that do not hold.

## 6. Not modelled, and the plan

Left out for good: HTTP, TLS and the server beyond its three outcomes, the
camera, sensors and person detector (numerics, generated weights), the portal's
pages, the surveyor and the bench rigs, the PoE bridge (forwards packets and
keeps no state), the Reticulum library itself, which is modelled from its use:
a Resource arrives whole or not, its conclusion may be lost.  The link on which
a `have?` is answered is not modelled: a query is one step, so a late reply to
the thumbnail's query that is taken for the full's is out of view.

The announce watchdog (`main.cpp` 2393-2451) reboots a gateway whose announces
no longer come back; whether handlers still run then depends on how
`gateway/patch_microreticulum.py` reorders the library's replay guard, which is
not in the repository, so it is left out.  `ota_mark_valid_once` is a one-shot
at the first uplink.

Not taken up: the two tasks that share the mount (`mounted` is published before
the first scan ends, and the probe may be killed after it has published; the
queue's mount is one step here); the serial bridge, a host script for a bench
without a gateway; the maintenance window of a charged leaf, and OTA; the store
on SD_MMC, which only a bench build has (there a missing card and an unreadable
one look alike, and the format refuses); who is pinned next when `Adr` loses a
pin (`RosterShrinks` drops any pin at any time, which includes what a re-arm and
`/pin/clear` of `TofuRoster` do).

Worth proving next: the safety halves of the other liveness properties, as
`NothingVanishes` is that of `CommandRuns` (what a stuck state would have to look
like, for `AskedArrives`, `Admitted` and `DoorOrService`).
