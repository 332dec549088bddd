----------------------------- MODULE NetSelect -----------------------------
(***************************************************************************)
(* Which interface carries the gateway's traffic (main.cpp, portal.inc):   *)
(* wired first, else the Wi-Fi networks of a list that begins with the one *)
(* the owner typed in; a setup portal while neither can be tried; and the  *)
(* RNS-over-UDP bridge, which is for the wire only.  The loop runs the     *)
(* selector (Tick) and, later in the same pass, looks for an edge of       *)
(* net_up() (Check); Ethernet events and the Wi-Fi driver run in tasks of  *)
(* their own and may come between any two steps.                           *)
(***************************************************************************)
EXTENDS Integers, Sequences

CONSTANTS
    Cred,           \* networks with a passphrase, as an owner may type them
    Bakes,          \* lists of networks a build may have baked in
    None,
    RescueFails     \* GW_PORTAL_RESCUE_FAILS

VARIABLES
    cable, air,     \* external: a lease is to be had; networks that would let us in
    ip,             \* s_eth_got_ip
    iface, st,      \* s_net_active, s_net_state
    ethEver,        \* s_eth_ever_up
    baked,          \* WIFI_BAKED, fixed by the build
    cred, ok,       \* the provisioned network and wifi_ok, in flash and in RAM
    idx, fails,     \* s_wifi_idx, s_wifi_fails
    tried,          \* s_wifi_last_try is set
    sta, assoc,     \* the station: what it was told to join, and whether it has
    portal, hold,   \* s_portal_up; s_portal_hold_until is in the future
    started,        \* s_udp_started
    online,         \* the bridge's _online
    wasUp,          \* net_was_up
    at,             \* what the loop does next: a tick out of turn, tick, check
    met,            \* history: the selector went up on cred
    doubt           \* history: a wifi_ok that may be about another network

outside == <<cable, air>>
wifi    == <<idx, fails, tried, sta, assoc>>
flash   == <<cred, ok, met, doubt>>
bridge  == <<started, online>>
netVars == <<outside, ip, iface, st, ethEver, baked, flash, wifi, portal, hold,
             bridge, wasUp, at>>

(* net_cred_at: the provisioned network comes first.                       *)
List == IF cred = None THEN baked ELSE <<cred>> \o baked

NetUp == (iface = "eth" /\ ip) \/ (iface = "wifi" /\ assoc)

(* What a boot finds in RAM, and the tick that net_setup ends with.        *)
Booted ==
    /\ iface = "none" /\ st = "WAIT_ETH" /\ ethEver = FALSE /\ ip = FALSE
    /\ idx = 0 /\ fails = 0 /\ tried = FALSE /\ sta = None /\ assoc = FALSE
    /\ portal = FALSE /\ hold = FALSE /\ started = FALSE /\ online = FALSE
    /\ wasUp = FALSE /\ at = "again"

NetInit ==
    /\ cable \in BOOLEAN /\ air \in SUBSET Cred
    /\ baked \in Bakes /\ cred \in Cred \cup {None} /\ ok \in BOOLEAN
    /\ ok => cred # None
    /\ met = ok /\ doubt = FALSE
    /\ Booted

---------------------------------------------------------------------------
(* The world outside, and the two tasks that report it.                    *)

Plugged ==
    /\ cable' = ~ cable
    /\ UNCHANGED <<air, ip, iface, st, ethEver, baked, flash, wifi>>
    /\ UNCHANGED <<portal, hold, bridge, wasUp, at>>

Router(c) ==
    /\ air' = IF c \in air THEN air \ {c} ELSE air \cup {c}
    /\ UNCHANGED <<cable, ip, iface, st, ethEver, baked, flash, wifi>>
    /\ UNCHANGED <<portal, hold, bridge, wasUp, at>>

(* on_eth_event: a lease, or the link down.                                *)
EthEvent ==
    /\ ip # cable /\ ip' = cable
    /\ UNCHANGED <<outside, iface, st, ethEver, baked, flash, wifi>>
    /\ UNCHANGED <<portal, hold, bridge, wasUp, at>>

(* The station joins what it was told to, again and again on its own.      *)
Associates ==
    /\ ~ assoc /\ sta \in air /\ assoc' = TRUE
    /\ UNCHANGED <<outside, ip, iface, st, ethEver, baked, flash>>
    /\ UNCHANGED <<idx, fails, tried, sta, portal, hold, bridge, wasUp, at>>

Drops ==
    /\ assoc /\ sta \notin air /\ assoc' = FALSE
    /\ UNCHANGED <<outside, ip, iface, st, ethEver, baked, flash>>
    /\ UNCHANGED <<idx, fails, tried, sta, portal, hold, bridge, wasUp, at>>

---------------------------------------------------------------------------
(* The selector.                                                           *)

(* wifi_ensure: rotate when the window of the current network is over.     *)
(* The count of failures is only ever compared with RescueFails.           *)
Ensure(over) ==
    IF assoc \/ List = <<>> \/ (tried /\ ~ over) THEN UNCHANGED <<wifi, doubt>>
    ELSE LET n    == Len(List)
             next == IF tried /\ n > 1 THEN (idx + 1) % n ELSE idx
         IN /\ fails' = IF tried /\ fails < RescueFails THEN fails + 1 ELSE fails
            /\ idx' = IF next >= n THEN 0 ELSE next
            /\ tried' = TRUE
            /\ sta' = List[idx' + 1]
            /\ assoc' = FALSE
            /\ doubt' = (doubt /\ ok)

Rests == UNCHANGED <<iface, st, ethEver, flash, wifi, online>>

(* Mutant of Preempt: the bridge is left to the edge that Check looks for. *)
PreemptNoResume ==
    /\ iface' = "eth" /\ st' = "UP" /\ ethEver' = TRUE
    /\ IF iface = "wifi" THEN sta' = None /\ assoc' = FALSE ELSE UNCHANGED <<sta, assoc>>
    /\ UNCHANGED <<flash, idx, fails, tried, online>>

(* Ethernet takes over in every state, and resumes the bridge itself:      *)
(* net_up() may have been true all along.                                  *)
Preempt ==
    /\ iface' = "eth" /\ st' = "UP" /\ ethEver' = TRUE
    /\ IF iface = "wifi" THEN sta' = None /\ assoc' = FALSE ELSE UNCHANGED <<sta, assoc>>
    /\ online' = (online \/ started)
    /\ UNCHANGED <<flash, idx, fails, tried>>

WaitEth(late, over) ==
    IF ~ late THEN Rests
    ELSE /\ IF List # <<>> THEN st' = "WAIT_WIFI" /\ Ensure(over)
            ELSE st' = "PROVISION" /\ UNCHANGED <<wifi, doubt>>
         /\ UNCHANGED <<iface, ethEver, cred, ok, met, online>>

(* Mutant of GoesUp: whatever network let us in proves the one typed in.   *)
GoesUpAny ==
    /\ iface' = "wifi" /\ st' = "UP" /\ fails' = 0
    /\ ok' = (ok \/ (cred # None))
    /\ met' = (met \/ (cred # None /\ idx = 0 /\ sta = cred))
    /\ UNCHANGED <<ethEver, cred, doubt, idx, tried, sta, assoc, online>>

(* Up on Wi-Fi; net_creds_mark_ok when the cursor is on the provisioned    *)
(* network, whatever the station was told to join.                         *)
GoesUp ==
    /\ iface' = "wifi" /\ st' = "UP" /\ fails' = 0
    /\ ok' = (ok \/ (cred # None /\ idx = 0))
    /\ met' = (met \/ (cred # None /\ idx = 0 /\ sta = cred))
    /\ UNCHANGED <<ethEver, cred, doubt, idx, tried, sta, assoc, online>>

WaitWifi(over) ==
    CASE assoc -> GoesUp
      [] ~ assoc /\ List = <<>> ->
            st' = "PROVISION" /\ UNCHANGED <<iface, ethEver, flash, wifi, online>>
      [] OTHER -> Ensure(over) /\ UNCHANGED <<iface, st, ethEver, cred, ok, met, online>>

Provision ==
    /\ st' = IF List # <<>> THEN "WAIT_WIFI" ELSE st
    /\ UNCHANGED <<iface, ethEver, flash, wifi, online>>

(* The interface in use was lost: the bridge pauses, selection restarts.   *)
Up ==
    IF NetUp THEN Rests
    ELSE /\ online' = FALSE /\ iface' = "none"
         /\ st' = IF ethEver THEN "WAIT_ETH" ELSE "WAIT_WIFI"
         /\ UNCHANGED <<ethEver, flash, wifi>>

(* A network typed in that never worked, and nothing else to try.          *)
RescueDue == cred # None /\ ~ ok /\ baked = <<>> /\ fails >= RescueFails

(* Mutant of Wanted: a drop reopens the portal, whatever worked before.    *)
WantedAnyDrop == st # "UP" /\ (hold \/ st = "PROVISION" \/ (baked = <<>> /\ fails >= RescueFails))

(* portal_wanted                                                           *)
Wanted == st # "UP" /\ (hold \/ st = "PROVISION" \/ RescueDue)

(* net_ensure: one tick, then portal_sync.  late: the wait for Ethernet is *)
(* over, and the portal's lingering too; over: the window of the current   *)
(* network is.                                                             *)
Tick(late, over) ==
    /\ at \in {"again", "tick"}
    /\ at' = IF at = "again" THEN "tick" ELSE "check"
    /\ CASE ip /\ iface # "eth"                       -> Preempt
         [] ~ (ip /\ iface # "eth") /\ st = "WAIT_ETH"  -> WaitEth(late, over)
         [] ~ (ip /\ iface # "eth") /\ st = "WAIT_WIFI" -> WaitWifi(over)
         [] ~ (ip /\ iface # "eth") /\ st = "PROVISION" -> Provision
         [] OTHER                                     -> Up
    /\ UNCHANGED <<outside, ip, baked, started, wasUp>>
    /\ hold' \in {FALSE, hold /\ ~ late}
    /\ portal' = Wanted'
    /\ (portal /\ ~ portal') => hold' = FALSE

(* The edge of net_up(): the bridge is started, or resumed, on the wire.   *)
Check ==
    /\ at = "check" /\ at' = "tick" /\ wasUp' = NetUp
    /\ IF NetUp /\ ~ wasUp /\ iface = "eth"
       THEN started' = TRUE /\ online' = TRUE ELSE UNCHANGED bridge
    /\ UNCHANGED <<outside, ip, iface, st, ethEver, baked, flash, wifi, portal, hold>>

---------------------------------------------------------------------------
(* The credentials, from the console or the portal.                        *)

(* Mutant of Changed: the cursor stays where it was.                       *)
ChangedKeepsCursor ==
    /\ UNCHANGED <<outside, ip, iface, ethEver, baked, sta, assoc, portal, bridge, wasUp, idx>>
    /\ tried' = FALSE /\ fails' = 0
    /\ st' = IF st = "PROVISION" /\ List' # <<>> THEN "WAIT_WIFI" ELSE st
    /\ at' = IF st = "UP" THEN at ELSE "again"

(* net_creds_changed: the cursor rewinds; unless up, a tick follows.       *)
Changed ==
    /\ UNCHANGED <<outside, ip, iface, ethEver, baked, sta, assoc, portal, bridge, wasUp>>
    /\ idx' = 0 /\ tried' = FALSE /\ fails' = 0
    /\ st' = IF st = "PROVISION" /\ List' # <<>> THEN "WAIT_WIFI" ELSE st
    /\ at' = IF st = "UP" THEN at ELSE "again"

(* net_creds_save; the portal lingers for the confirmation page.           *)
SaveCred(c, byPortal) ==
    /\ at = "tick" /\ (byPortal => portal)
    /\ cred' = c /\ ok' = FALSE /\ met' = FALSE
    /\ doubt' = (sta \notin {None, c})
    /\ hold' = (hold \/ byPortal)
    /\ Changed

ClearCred ==
    /\ at = "tick"
    /\ cred' = None /\ ok' = FALSE /\ met' = FALSE /\ doubt' = FALSE
    /\ Changed /\ UNCHANGED hold

(* Power lost: RAM is as after a boot.                                     *)
NetBoot ==
    /\ iface' = "none" /\ st' = "WAIT_ETH" /\ ethEver' = FALSE /\ ip' = FALSE
    /\ idx' = 0 /\ fails' = 0 /\ tried' = FALSE /\ sta' = None /\ assoc' = FALSE
    /\ portal' = FALSE /\ hold' = FALSE /\ started' = FALSE /\ online' = FALSE
    /\ wasUp' = FALSE /\ at' = "again"
    /\ UNCHANGED <<outside, baked>>

KeepsCred == UNCHANGED <<cred, ok, met>> /\ doubt' = (doubt /\ ok)

LosesCred == cred' = None /\ ok' = FALSE /\ met' = FALSE /\ doubt' = FALSE

(* Power lost between the writes of net_creds_save: the new name is in     *)
(* flash, wifi_ok is still the old network's.                              *)
HalfSaved(c) == cred' = c /\ ok' = ok /\ met' = FALSE /\ doubt' = ok

---------------------------------------------------------------------------
(* Properties.                                                             *)

(* Every variable has its type, and the rotation cursor, which net_cred_at *)
(* is written to survive, never outlives the list it points into.          *)
NetTypeOK ==
    /\ cable \in BOOLEAN /\ air \subseteq Cred /\ ip \in BOOLEAN /\ ethEver \in BOOLEAN
    /\ iface \in {"none", "eth", "wifi"}
    /\ st \in {"WAIT_ETH", "WAIT_WIFI", "UP", "PROVISION"}
    /\ baked \in Bakes /\ cred \in Cred \cup {None} /\ ok \in BOOLEAN
    /\ idx \in Nat /\ (idx = 0 \/ idx < Len(List))
    /\ fails \in 0 .. RescueFails /\ tried \in BOOLEAN
    /\ sta \in Cred \cup {None} /\ assoc \in BOOLEAN
    /\ assoc => sta # None
    /\ portal \in BOOLEAN /\ hold \in BOOLEAN /\ started \in BOOLEAN /\ online \in BOOLEAN
    /\ wasUp \in BOOLEAN /\ at \in {"again", "tick", "check"}
    /\ met \in BOOLEAN /\ doubt \in BOOLEAN

(* Once started, the bridge runs exactly while the wire is the interface   *)
(* in use, whatever edges the loop misses and whatever takes over from     *)
(* what ("WIRED ONLY", main.cpp:4137, and the resume of 2876-2888).        *)
BridgeFollowsWire == online <=> started /\ iface = "eth"

(* The portal never comes back for a network that carried traffic before,  *)
(* nor over a working uplink, nor on a bench build ("NEVER resurrected by  *)
(* a WiFi drop", portal.inc:20).                                           *)
PortalBounded == portal => iface = "none" /\ ~ met /\ baked = <<>>

(* The flag that keeps the portal shut is only set by the network it is    *)
(* about, unless the owner replaced another's under a station still set to *)
(* it, or power failed inside the save; and what worked is remembered.     *)
ProvenHonest == (ok => met \/ doubt) /\ (met => ok)
=============================================================================
