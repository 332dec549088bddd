---------------------------- MODULE Uplink_proof ---------------------------
(***************************************************************************)
(* Proofs about the uplink, for any networks, any baked-in lists, any      *)
(* threshold of the rescue portal and any number of events: the selector   *)
(* and the claim client keep their shapes, the bridge follows the wire,    *)
(* the portal stays shut for what worked, and the mark that keeps it shut  *)
(* is honest but for the exceptions ProvenHonest names.                    *)
(***************************************************************************)
EXTENDS Uplink, TLAPS

ListOf(c, b) == IF c = None THEN b ELSE <<c>> \o b

(* What ties the selector's variables together between two ticks.          *)
Shape ==
    /\ st = "UP" <=> iface # "none"
    /\ ok => cred # None
    /\ hold => portal
    /\ st = "PROVISION" => cred = None /\ baked = <<>>
    /\ cred # None /\ idx = 0 /\ sta # None /\ ~ doubt => sta = cred

NetInv == NetTypeOK /\ Shape /\ BridgeFollowsWire /\ PortalBounded /\ ProvenHonest

UplinkInv == NetInv /\ ClaimTypeOK /\ events \in 0 .. MaxEvents

(* What the assumption says of constants and names.                        *)
LEMMA Assumed ==
    /\ None \notin Cred /\ RescueFails \in Nat /\ RescueFails > 0 /\ MaxEvents \in Nat
    /\ Nothing \notin {"right", "wrong", "good", "dead"}
    /\ \A b \in Bakes : b \in Seq(Cred)
BY UplinkAssumption

(* The list of networks, and that the provisioned one comes first.         *)
LEMMA Listed ==
    ASSUME NEW c \in Cred \cup {None}, NEW b \in Bakes
    PROVE  /\ ListOf(c, b) \in Seq(Cred) /\ Len(ListOf(c, b)) \in Nat
           /\ \A i \in 1 .. Len(ListOf(c, b)) : ListOf(c, b)[i] \in Cred
           /\ ListOf(c, b) # <<>> => Len(ListOf(c, b)) > 0
           /\ c # None => ListOf(c, b) # <<>> /\ ListOf(c, b)[1] = c
           /\ c = None => ListOf(c, b) = b
<1>1. b \in Seq(Cred)
  BY Assumed
<1>2. CASE c = None
  BY <1>1, <1>2 DEF ListOf
<1>3. CASE c # None
  <2>1. <<c>> \in Seq(Cred) /\ Len(<<c>>) = 1 /\ <<c>>[1] = c
    BY <1>3
  <2>2. ListOf(c, b) = <<c>> \o b
    BY <1>3 DEF ListOf
  <2>3. Len(<<c>> \o b) = 1 + Len(b) /\ (<<c>> \o b)[1] = c
    BY <1>1, <2>1
  <2>4. <<c>> \o b \in Seq(Cred)
    BY <1>1, <2>1
  <2>5. Len(<<>>) = 0 /\ Len(b) \in Nat
    BY <1>1
  <2> QED BY <1>3, <2>2, <2>3, <2>4, <2>5
<1> QED BY <1>2, <1>3

(* The list is the same function of its two parts before and after.        *)
LEMMA ListNow == List = ListOf(cred, baked) /\ List' = ListOf(cred', baked')
BY DEF List, ListOf

-----------------------------------------------------------------------------
(* The world outside and the tasks that report it.                         *)

(* Cables, routers and the drivers that report them touch nothing the      *)
(* selector has decided.                                                   *)
LEMMA ReportStep ==
    ASSUME NetInv, Plugged \/ (\E c \in Cred : Router(c)) \/ EthEvent \/ Associates \/ Drops
    PROVE  NetInv'
<1>1. NetTypeOK'
  <2>1. CASE Plugged
    BY <2>1 DEF NetInv, NetTypeOK, Plugged, wifi, flash, bridge, List
  <2>2. CASE \E c \in Cred : Router(c)
    BY <2>2 DEF NetInv, NetTypeOK, Router, wifi, flash, bridge, List
  <2>3. CASE EthEvent
    BY <2>3 DEF NetInv, NetTypeOK, EthEvent, outside, wifi, flash, bridge, List
  <2>4. CASE Associates \/ Drops
    <3>1. UNCHANGED <<outside, ip, iface, st, ethEver, baked, flash, idx, fails, tried, sta, portal, hold, bridge, wasUp, at>>
      BY <2>4 DEF Associates, Drops
    <3>2. assoc' \in BOOLEAN /\ (assoc' => sta' # None)
      BY <2>4, Assumed DEF Associates, Drops, NetInv, NetTypeOK
    <3> QED BY <3>1, <3>2 DEF NetInv, NetTypeOK, outside, flash, bridge, List
  <2> QED BY <2>1, <2>2, <2>3, <2>4
<1>2. /\ UNCHANGED <<iface, st, baked, cred, ok, met, doubt, idx, sta, portal, hold, started, online>>
  BY DEF Plugged, Router, EthEvent, Associates, Drops, outside, wifi, flash, bridge
<1>3. Shape' /\ BridgeFollowsWire' /\ PortalBounded' /\ ProvenHonest'
  BY <1>2 DEF NetInv, Shape, BridgeFollowsWire, PortalBounded, ProvenHonest
<1> QED BY <1>1, <1>3 DEF NetInv

-----------------------------------------------------------------------------
(* The selector.                                                           *)

(* wifi_ensure keeps the cursor within the list, and sets the station to   *)
(* the network the cursor is on.                                           *)
LEMMA EnsureStep ==
    ASSUME NetInv, NEW over \in BOOLEAN, Ensure(over), UNCHANGED <<cred, baked>>
    PROVE  /\ idx' \in Nat /\ (idx' = 0 \/ idx' < Len(List))
           /\ fails' \in 0 .. RescueFails /\ tried' \in BOOLEAN
           /\ sta' \in Cred \cup {None} /\ assoc' \in BOOLEAN /\ (assoc' => sta' # None)
           /\ doubt' \in BOOLEAN /\ (ok => (doubt' <=> doubt))
           /\ cred # None /\ idx' = 0 /\ sta' # None /\ ~ doubt' => sta' = cred
<1> USE Assumed
<1>0. cred \in Cred \cup {None} /\ baked \in Bakes
  BY DEF NetInv, NetTypeOK
<1>1. CASE UNCHANGED <<wifi, doubt>>
  BY <1>1 DEF NetInv, NetTypeOK, Shape, wifi
<1>2. CASE ~ (assoc \/ List = <<>> \/ (tried /\ ~ over))
  <2> DEFINE next == IF tried /\ Len(List) > 1 THEN (idx + 1) % Len(List) ELSE idx
  <2>1. Len(List) \in Nat /\ Len(List) > 0 /\ (\A i \in 1 .. Len(List) : List[i] \in Cred)
    BY <1>0, <1>2, Listed, ListNow
  <2>2. cred # None => List[1] = cred
    BY <1>0, Listed, ListNow
  <2>3. /\ fails' = IF tried /\ fails < RescueFails THEN fails + 1 ELSE fails
        /\ idx' = IF next >= Len(List) THEN 0 ELSE next
        /\ tried' = TRUE /\ sta' = List[idx' + 1] /\ assoc' = FALSE
        /\ doubt' = (doubt /\ ok)
    BY <1>2, Zenon DEF Ensure
  <2>4. next \in Nat
    <3>1. idx \in Nat
      BY DEF NetInv, NetTypeOK
    <3>2. Len(List) > 1 => (idx + 1) % Len(List) \in Nat
      BY <2>1, <3>1
    <3> QED BY <3>1, <3>2
  <2>5. idx' \in Nat /\ idx' < Len(List)
    <3> HIDE DEF next
    <3> QED BY <2>1, <2>3, <2>4
  <2> HIDE DEF next
  <2>6. idx' + 1 \in 1 .. Len(List)
    <3>1. Len(List) \in Nat
      BY <2>1
    <3>2. \A x, m \in Nat : x < m => x + 1 \in 1 .. m
      OBVIOUS
    <3> QED BY <2>5, <3>1, <3>2
  <2>7. sta' \in Cred /\ sta' # None
    BY <2>1, <2>3, <2>6
  <2>8. fails' \in 0 .. RescueFails
    BY <2>3 DEF NetInv, NetTypeOK
  <2>9. cred # None /\ idx' = 0 => sta' = cred
    BY <2>2, <2>3
  <2>10. doubt \in BOOLEAN /\ ok \in BOOLEAN
    BY DEF NetInv, NetTypeOK
  <2>11. doubt' \in BOOLEAN /\ (ok => (doubt' <=> doubt))
    BY <2>3, <2>10
  <2> QED BY <2>3, <2>5, <2>7, <2>8, <2>9, <2>11
<1> QED BY <1>1, <1>2 DEF Ensure

(* What every branch of the selector leaves true, before portal_sync.      *)
Selected ==
    /\ iface' \in {"none", "eth", "wifi"}
    /\ st' \in {"WAIT_ETH", "WAIT_WIFI", "UP", "PROVISION"}
    /\ ethEver' \in BOOLEAN /\ ok' \in BOOLEAN /\ met' \in BOOLEAN /\ doubt' \in BOOLEAN
    /\ cred' = cred /\ online' \in BOOLEAN
    /\ idx' \in Nat /\ (idx' = 0 \/ idx' < Len(List))
    /\ fails' \in 0 .. RescueFails /\ tried' \in BOOLEAN
    /\ sta' \in Cred \cup {None} /\ assoc' \in BOOLEAN /\ (assoc' => sta' # None)
    /\ st' = "UP" <=> iface' # "none"
    /\ ok' => cred # None
    /\ st' = "PROVISION" => cred = None /\ baked = <<>>
    /\ cred # None /\ idx' = 0 /\ sta' # None /\ ~ doubt' => sta' = cred
    /\ online' <=> started /\ iface' = "eth"
    /\ ok' => met' \/ doubt'
    /\ met' => ok'
    /\ st' # "UP" => (met' <=> met)

(* A tick that changes nothing.                                            *)
LEMMA RestsStep ==
    ASSUME NetInv, Rests PROVE Selected
BY DEF NetInv, NetTypeOK, Shape, BridgeFollowsWire, ProvenHonest, Rests, Selected, flash, wifi
----------------------------------------------------------------------------
(* A tick that ends in wifi_ensure.                                        *)
LEMMA EnsuredStep ==
    ASSUME NetInv, NEW over \in BOOLEAN, Ensure(over),
           UNCHANGED <<iface, ethEver, cred, ok, met, online, baked>>,
           st \in {"WAIT_ETH", "WAIT_WIFI"}, st' = "WAIT_WIFI"
    PROVE  Selected
<1>1. /\ idx' \in Nat /\ (idx' = 0 \/ idx' < Len(List))
      /\ fails' \in 0 .. RescueFails /\ tried' \in BOOLEAN
      /\ sta' \in Cred \cup {None} /\ assoc' \in BOOLEAN /\ (assoc' => sta' # None)
      /\ doubt' \in BOOLEAN /\ (ok => (doubt' <=> doubt))
      /\ cred # None /\ idx' = 0 /\ sta' # None /\ ~ doubt' => sta' = cred
  BY EnsureStep
<1>2. iface = "none" /\ online = FALSE
  BY DEF NetInv, NetTypeOK, Shape, BridgeFollowsWire
<1> QED BY <1>1, <1>2 DEF Selected, NetInv, NetTypeOK, Shape, BridgeFollowsWire, ProvenHonest

(* The wire takes over: the bridge runs if it was ever started.            *)
LEMMA PreemptStep ==
    ASSUME NetInv, Preempt PROVE Selected
<1>1. (sta' = None /\ assoc' = FALSE) \/ UNCHANGED <<sta, assoc>>
  BY DEF Preempt
<1>2. online' \in BOOLEAN /\ (online' <=> started)
  BY DEF Preempt, NetInv, NetTypeOK, BridgeFollowsWire
<1>3. iface' = "eth" /\ st' = "UP" /\ ethEver' = TRUE /\ UNCHANGED <<flash, idx, fails, tried>>
  BY DEF Preempt
<1>4. UNCHANGED <<cred, ok, met, doubt>> /\ (ok' => cred # None) /\ (ok' => met' \/ doubt') /\ (met' => ok')
  BY <1>3 DEF NetInv, Shape, ProvenHonest, flash
<1>5. ethEver' \in BOOLEAN /\ ok' \in BOOLEAN /\ met' \in BOOLEAN /\ doubt' \in BOOLEAN
  BY <1>3, <1>4 DEF NetInv, NetTypeOK
<1>6. /\ idx' \in Nat /\ (idx' = 0 \/ idx' < Len(List))
      /\ fails' \in 0 .. RescueFails /\ tried' \in BOOLEAN
  BY <1>3 DEF NetInv, NetTypeOK
<1>7. sta' \in Cred \cup {None} /\ assoc' \in BOOLEAN /\ (assoc' => sta' # None)
  <2>1. CASE sta' = None /\ assoc' = FALSE
    BY <2>1
  <2>2. CASE UNCHANGED <<sta, assoc>>
    BY <2>2 DEF NetInv, NetTypeOK
  <2> QED BY <1>1, <2>1, <2>2
<1>8. cred # None /\ idx' = 0 /\ sta' # None /\ ~ doubt' => sta' = cred
  BY <1>1, <1>3, <1>4 DEF NetInv, Shape
<1> QED BY <1>2, <1>3, <1>4, <1>5, <1>6, <1>7, <1>8 DEF Selected

(* The wait for the wire, and its end.                                     *)
LEMMA WaitEthStep ==
    ASSUME NetInv, NEW late \in BOOLEAN, NEW over \in BOOLEAN, UNCHANGED baked,
           st = "WAIT_ETH", WaitEth(late, over)
    PROVE  Selected
<1>1. CASE ~ late
  BY <1>1, RestsStep DEF WaitEth
<1>2. CASE late /\ List # <<>>
  <2>1. st' = "WAIT_WIFI" /\ Ensure(over) /\ UNCHANGED <<iface, ethEver, cred, ok, met, online>>
    BY <1>2 DEF WaitEth
  <2> QED BY <2>1, EnsuredStep
<1>3. CASE late /\ List = <<>>
  <2>1. st' = "PROVISION" /\ UNCHANGED <<wifi, doubt, iface, ethEver, cred, ok, met, online>>
    BY <1>3 DEF WaitEth
  <2>2. cred = None /\ baked = <<>>
    BY <1>3, Listed, ListNow DEF NetInv, NetTypeOK
  <2> QED BY <2>1, <2>2 DEF Selected, NetInv, NetTypeOK, Shape, BridgeFollowsWire, ProvenHonest, wifi
<1> QED BY <1>1, <1>2, <1>3

(* The wait for a network: up on it, provisioning, or the next one.        *)
LEMMA WaitWifiStep ==
    ASSUME NetInv, NEW over \in BOOLEAN, UNCHANGED baked, st = "WAIT_WIFI", WaitWifi(over)
    PROVE  Selected
<1>1. CASE assoc
  <2>1. GoesUp
    BY <1>1 DEF WaitWifi
  <2>2. iface = "none" /\ online = FALSE /\ sta # None
    BY <1>1 DEF NetInv, NetTypeOK, Shape, BridgeFollowsWire
  <2>3. ok' \in BOOLEAN /\ met' \in BOOLEAN
    BY <2>1 DEF GoesUp, NetInv, NetTypeOK
  <2>4. (ok' => met' \/ doubt) /\ (met' => ok') /\ (ok' => cred # None)
    BY <2>1, <2>2 DEF GoesUp, NetInv, Shape, ProvenHonest
  <2>5. /\ iface' = "wifi" /\ st' = "UP" /\ fails' = 0
        /\ UNCHANGED <<ethEver, cred, doubt, idx, tried, sta, assoc, online>>
    BY <2>1 DEF GoesUp
  <2>6. 0 \in 0 .. RescueFails
    BY Assumed
  <2> QED BY <2>2, <2>3, <2>4, <2>5, <2>6 DEF Selected, NetInv, NetTypeOK, Shape
<1>2. CASE ~ assoc /\ List = <<>>
  <2>1. st' = "PROVISION" /\ UNCHANGED <<iface, ethEver, flash, wifi, online>>
    BY <1>2 DEF WaitWifi
  <2>2. cred = None /\ baked = <<>>
    BY <1>2, Listed, ListNow DEF NetInv, NetTypeOK
  <2> QED BY <2>1, <2>2 DEF Selected, NetInv, NetTypeOK, Shape, BridgeFollowsWire, ProvenHonest, wifi, flash
<1>3. CASE ~ assoc /\ List # <<>>
  <2>1. Ensure(over) /\ UNCHANGED <<iface, st, ethEver, cred, ok, met, online>>
    BY <1>3 DEF WaitWifi
  <2> QED BY <2>1, EnsuredStep
<1> QED BY <1>1, <1>2, <1>3

(* Provisioning ends when the list has a network.                          *)
LEMMA ProvisionStep ==
    ASSUME NetInv, UNCHANGED baked, st = "PROVISION", Provision PROVE Selected
<1>1. UNCHANGED <<iface, ethEver, flash, wifi, online>> /\ st' \in {"WAIT_WIFI", "PROVISION"}
  BY DEF Provision
<1> QED BY <1>1 DEF Selected, NetInv, NetTypeOK, Shape, BridgeFollowsWire, ProvenHonest, wifi, flash

(* Up: all is well, or the interface is lost and the bridge paused.        *)
LEMMA UpStep ==
    ASSUME NetInv, st = "UP", Up PROVE Selected
<1>1. CASE NetUp
  BY <1>1, RestsStep DEF Up
<1>2. CASE ~ NetUp
  <2>1. online' = FALSE /\ iface' = "none" /\ st' \in {"WAIT_ETH", "WAIT_WIFI"}
        /\ UNCHANGED <<ethEver, flash, wifi>>
    BY <1>2 DEF Up
  <2> QED BY <2>1 DEF Selected, NetInv, NetTypeOK, Shape, ProvenHonest, wifi, flash
<1> QED BY <1>1, <1>2

(* A tick of the selector, with portal_sync.                               *)
LEMMA TickStep ==
    ASSUME NetInv, NEW late \in BOOLEAN, NEW over \in BOOLEAN, Tick(late, over)
    PROVE  NetInv'
<1>1. /\ UNCHANGED <<outside, ip, baked, started, wasUp>>
      /\ at' \in {"tick", "check"}
      /\ hold' \in {FALSE, hold /\ ~ late} /\ portal' = Wanted'
      /\ (portal /\ ~ portal') => hold' = FALSE
  BY DEF Tick
<1>2. st \in {"WAIT_ETH", "WAIT_WIFI", "UP", "PROVISION"}
  BY DEF NetInv, NetTypeOK
<1>3. Selected
  <2>1. CASE ip /\ iface # "eth"
    <3>1. Preempt
      BY <2>1 DEF Tick
    <3> QED BY <3>1, PreemptStep
  <2>2. CASE ~ (ip /\ iface # "eth") /\ st = "WAIT_ETH"
    <3>1. WaitEth(late, over)
      BY <2>2 DEF Tick
    <3> QED BY <1>1, <2>2, <3>1, WaitEthStep
  <2>3. CASE ~ (ip /\ iface # "eth") /\ st = "WAIT_WIFI"
    <3>1. WaitWifi(over)
      BY <2>3 DEF Tick
    <3> QED BY <1>1, <2>3, <3>1, WaitWifiStep
  <2>4. CASE ~ (ip /\ iface # "eth") /\ st = "PROVISION"
    <3>1. Provision
      BY <2>4 DEF Tick
    <3> QED BY <1>1, <2>4, <3>1, ProvisionStep
  <2>5. CASE ~ (ip /\ iface # "eth") /\ st = "UP"
    <3>1. Up
      BY <2>5 DEF Tick
    <3> QED BY <2>5, <3>1, UpStep
  <2> QED BY <1>2, <2>1, <2>2, <2>3, <2>4, <2>5
<1>4. hold' \in BOOLEAN /\ (hold' => hold) /\ portal' \in BOOLEAN
  BY <1>1 DEF NetInv, NetTypeOK, Wanted, RescueDue
<1>5. List' = List
  BY <1>1, <1>3 DEF List, Selected
<1>6. NetTypeOK'
  BY <1>1, <1>3, <1>4, <1>5 DEF NetInv, NetTypeOK, Selected, outside
<1>7. hold' => portal'
  BY <1>1, <1>4 DEF NetInv, Shape
<1>8. Shape' /\ BridgeFollowsWire' /\ ProvenHonest'
  BY <1>1, <1>3, <1>7 DEF Selected, Shape, BridgeFollowsWire, ProvenHonest
<1>9. PortalBounded'
  <2>1. SUFFICES ASSUME portal' PROVE iface' = "none" /\ ~ met' /\ baked' = <<>>
    BY DEF PortalBounded
  <2>2. st' # "UP" /\ (hold' \/ st' = "PROVISION" \/ RescueDue')
    BY <1>1, <2>1 DEF Wanted
  <2>3. iface' = "none" /\ (met' <=> met) /\ (met' => ok') /\ (ok' => cred # None) /\ cred' = cred
    BY <1>3, <2>2 DEF Selected
  <2>4. CASE hold'
    BY <1>1, <1>4, <2>3, <2>4 DEF NetInv, Shape, PortalBounded
  <2>5. CASE st' = "PROVISION"
    BY <1>1, <1>3, <2>3, <2>5 DEF Selected
  <2>6. CASE RescueDue'
    BY <2>3, <2>6 DEF RescueDue
  <2> QED BY <2>2, <2>4, <2>5, <2>6
<1> QED BY <1>6, <1>8, <1>9 DEF NetInv

(* The edge that the loop looks for.                                       *)
LEMMA CheckStep ==
    ASSUME NetInv, Check PROVE NetInv'
<1>1. UNCHANGED <<outside, ip, iface, st, ethEver, baked, flash, wifi, portal, hold>> /\ at' = "tick" /\ wasUp' = NetUp
  BY DEF Check
<1>2. \/ started' = TRUE /\ online' = TRUE /\ iface = "eth"
      \/ UNCHANGED bridge
  BY DEF Check
<1>3. started' \in BOOLEAN /\ online' \in BOOLEAN /\ wasUp' \in BOOLEAN /\ BridgeFollowsWire'
  <2>1. NetUp \in BOOLEAN
    BY DEF NetInv, NetTypeOK, NetUp
  <2>2. CASE started' = TRUE /\ online' = TRUE /\ iface = "eth"
    BY <1>1, <2>1, <2>2 DEF BridgeFollowsWire
  <2>3. CASE UNCHANGED bridge
    BY <1>1, <2>1, <2>3 DEF NetInv, NetTypeOK, BridgeFollowsWire, bridge
  <2> QED BY <1>2, <2>2, <2>3
<1>4. NetTypeOK'
  BY <1>1, <1>3 DEF NetInv, NetTypeOK, outside, wifi, flash, List
<1>5. Shape' /\ PortalBounded' /\ ProvenHonest'
  BY <1>1 DEF NetInv, Shape, PortalBounded, ProvenHonest, wifi, flash
<1> QED BY <1>3, <1>4, <1>5 DEF NetInv

-----------------------------------------------------------------------------
(* What is typed in, and what a power cut leaves.                          *)

(* A changed credential rewinds the cursor and is not yet proven.          *)
LEMMA ChangedStep ==
    ASSUME NetInv, Changed, cred' \in Cred \cup {None},
           ok' = FALSE, met' = FALSE, doubt' \in BOOLEAN, hold' \in BOOLEAN, hold' => portal,
           cred' # None /\ sta # None /\ ~ doubt' => sta = cred'
    PROVE  NetInv'
<1>1. /\ UNCHANGED <<outside, ip, iface, ethEver, baked, sta, assoc, portal, bridge, wasUp>>
      /\ idx' = 0 /\ tried' = FALSE /\ fails' = 0
      /\ st' = IF st = "PROVISION" /\ List' # <<>> THEN "WAIT_WIFI" ELSE st
      /\ at' = IF st = "UP" THEN at ELSE "again"
  BY DEF Changed
<1>2. 0 \in 0 .. RescueFails
  BY Assumed
<1>3. st' = "PROVISION" => cred' = None /\ baked' = <<>>
  <2>1. cred' # None => List' # <<>>
    BY <1>1, Listed, ListNow DEF NetInv, NetTypeOK
  <2> QED BY <1>1, <2>1 DEF NetInv, Shape
<1>4. NetTypeOK'
  BY <1>1, <1>2 DEF NetInv, NetTypeOK, outside, bridge
<1>5. st' = "UP" <=> iface' # "none"
  BY <1>1 DEF NetInv, Shape
<1>6. Shape'
  BY <1>1, <1>3, <1>5 DEF Shape
<1>7. BridgeFollowsWire' /\ PortalBounded' /\ ProvenHonest'
  BY <1>1 DEF NetInv, BridgeFollowsWire, PortalBounded, ProvenHonest, bridge
<1> QED BY <1>4, <1>6, <1>7 DEF NetInv

(* A credential is typed in.                                               *)
LEMMA SaveStep ==
    ASSUME NetInv, NEW c \in Cred, NEW byPortal \in BOOLEAN, SaveCred(c, byPortal)
    PROVE  NetInv'
<1>1. /\ cred' = c /\ ok' = FALSE /\ met' = FALSE /\ doubt' = (sta \notin {None, c})
      /\ hold' = (hold \/ byPortal) /\ (byPortal => portal) /\ Changed
  BY DEF SaveCred
<1>2. hold' \in BOOLEAN /\ (hold' => portal)
  BY <1>1 DEF NetInv, NetTypeOK, Shape
<1>3. doubt' \in BOOLEAN /\ cred' \in Cred \cup {None}
  BY <1>1
<1>4. cred' # None /\ sta # None /\ ~ doubt' => sta = cred'
  BY <1>1
<1> QED BY <1>1, <1>2, <1>3, <1>4, ChangedStep

(* The credential is cleared.                                              *)
LEMMA ClearStep ==
    ASSUME NetInv, ClearCred PROVE NetInv'
<1>1. /\ cred' = None /\ ok' = FALSE /\ met' = FALSE /\ doubt' = FALSE /\ hold' = hold /\ Changed
  BY DEF ClearCred
<1>2. hold' \in BOOLEAN /\ (hold' => portal)
  BY <1>1 DEF NetInv, NetTypeOK, Shape
<1> QED BY <1>1, <1>2, ChangedStep

(* A boot, with the flash whole, cleared, or half written.                 *)
LEMMA BootStep ==
    ASSUME NetInv, NetBoot,
           KeepsCred \/ LosesCred \/ (\E c \in Cred : HalfSaved(c))
    PROVE  NetInv'
<1>1. /\ iface' = "none" /\ st' = "WAIT_ETH" /\ ethEver' = FALSE /\ ip' = FALSE
      /\ idx' = 0 /\ fails' = 0 /\ tried' = FALSE /\ sta' = None /\ assoc' = FALSE
      /\ portal' = FALSE /\ hold' = FALSE /\ started' = FALSE /\ online' = FALSE
      /\ wasUp' = FALSE /\ at' = "again" /\ UNCHANGED <<outside, baked>>
  BY DEF NetBoot
<1>2. /\ cred' \in Cred \cup {None} /\ ok' \in BOOLEAN /\ met' \in BOOLEAN /\ doubt' \in BOOLEAN
      /\ (ok' => cred' # None) /\ ProvenHonest'
  <2>1. CASE KeepsCred
    BY <2>1 DEF KeepsCred, NetInv, NetTypeOK, Shape, ProvenHonest
  <2>2. CASE LosesCred
    BY <2>2 DEF LosesCred, ProvenHonest
  <2>3. CASE \E c \in Cred : HalfSaved(c)
    <3>1. PICK c \in Cred : cred' = c /\ ok' = ok /\ met' = FALSE /\ doubt' = ok
      BY <2>3 DEF HalfSaved
    <3>2. ok \in BOOLEAN /\ None \notin Cred
      BY Assumed DEF NetInv, NetTypeOK
    <3> QED BY <3>1, <3>2 DEF ProvenHonest
  <2> QED BY <2>1, <2>2, <2>3
<1>3. 0 \in 0 .. RescueFails
  BY Assumed
<1>4. NetTypeOK'
  BY <1>1, <1>2, <1>3 DEF NetInv, NetTypeOK, outside
<1>5. Shape' /\ BridgeFollowsWire' /\ PortalBounded'
  BY <1>1, <1>2 DEF Shape, BridgeFollowsWire, PortalBounded
<1> QED BY <1>2, <1>4, <1>5 DEF NetInv

(* The invariant of the selector is about its own variables.               *)
LEMMA SameNet ==
    ASSUME NetInv, UNCHANGED netVars PROVE NetInv'
<1>1. UNCHANGED <<cable, air, ip, iface, st, ethEver, baked, cred, ok, met, doubt, idx, fails,
                  tried, sta, assoc, portal, hold, started, online, wasUp, at>>
  BY DEF netVars, outside, wifi, flash, bridge
<1> QED BY <1>1 DEF NetInv, NetTypeOK, Shape, BridgeFollowsWire, PortalBounded, ProvenHonest, List

-----------------------------------------------------------------------------
(* The claim client.                                                       *)

(* The claim client's steps keep its shape.                                *)
LEMMA ClaimStep ==
    ASSUME ClaimTypeOK,
           \/ Claimed \/ Unbound \/ Refused \/ RefusedAnyway \/ SignFails
           \/ Retried \/ StrikeAges \/ Forget
           \/ Attaches \/ Revokes \/ Releases \/ (\E c \in Codes : ClaimStart(c))
           \/ (\E blip \in BOOLEAN : Ingest(blip)) \/ UNCHANGED claimVars
    PROVE  ClaimTypeOK'
<1> USE Assumed DEF ClaimTypeOK, Trying
<1>1. CASE Claimed \/ Unbound \/ Retried
  BY <1>1 DEF Claimed, Unbound, Retried
<1>2. CASE Refused \/ RefusedAnyway \/ SignFails
  BY <1>2 DEF Refused, RefusedAnyway, Rejected, SignFails
<1>3. CASE StrikeAges \/ Forget \/ Attaches
  BY <1>3 DEF StrikeAges, Forget, Attaches
<1>4. CASE Revokes \/ Releases
  BY <1>4 DEF Revokes, Releases, Dies
<1>5. CASE \E c \in Codes : ClaimStart(c)
  BY <1>5 DEF ClaimStart, Codes
<1>6. CASE \E blip \in BOOLEAN : Ingest(blip)
  BY <1>6 DEF Ingest, Note401
<1>7. CASE UNCHANGED claimVars
  BY <1>7 DEF claimVars
<1> QED BY <1>1, <1>2, <1>3, <1>4, <1>5, <1>6, <1>7

(* So does a boot, whatever of the claim block is left in flash.           *)
LEMMA ClaimBootStep ==
    ASSUME ClaimTypeOK, ClaimBoot, code' \in {code, Nothing}, tok' \in {tok, Nothing}
    PROVE  ClaimTypeOK'
BY Assumed DEF ClaimTypeOK, Trying, ClaimBoot, Resumed

-----------------------------------------------------------------------------
(* The invariant holds at the start.                                       *)
LEMMA InitInv == Init => UplinkInv
<1> SUFFICES ASSUME Init PROVE UplinkInv
  OBVIOUS
<1>1. 0 \in 0 .. RescueFails /\ 0 \in 0 .. MaxEvents
  BY Assumed
<1>2. NetInv
  BY <1>1 DEF Init, NetInit, Booted, NetInv, NetTypeOK, Shape, BridgeFollowsWire, PortalBounded, ProvenHonest
<1>3. ClaimTypeOK
  BY Assumed DEF Init, ClaimInit, ClaimTypeOK, Resumed, Trying
<1> QED BY <1>1, <1>2, <1>3 DEF Init, UplinkInv

(* Every step keeps the invariant.                                         *)
LEMMA StepInv == UplinkInv /\ [Next]_uplinkVars => UplinkInv'
<1> SUFFICES ASSUME UplinkInv, [Next]_uplinkVars PROVE UplinkInv'
  OBVIOUS
<1> USE DEF UplinkInv
<1>1. Event \/ Quiet => events' \in 0 .. MaxEvents
  BY Assumed DEF Event, Quiet
<1>2. CASE Drivers
  <2>1. NetInv' /\ ClaimTypeOK'
    BY <1>2, ReportStep, ClaimStep DEF Drivers
  <2> QED BY <1>1, <1>2, <2>1 DEF Drivers
<1>3. CASE Checks
  <2>1. NetInv' /\ ClaimTypeOK'
    BY <1>3, CheckStep, ClaimStep DEF Checks
  <2> QED BY <1>1, <1>3, <2>1 DEF Checks
<1>4. CASE \E late, over \in BOOLEAN : Selects(late, over)
  <2>1. NetInv' /\ ClaimTypeOK'
    BY <1>4, TickStep, ClaimStep DEF Selects
  <2> QED BY <1>1, <1>4, <2>1 DEF Selects
<1>5. CASE Attempts \/ Posts \/ Ages \/ Misses
  <2>1. UNCHANGED netVars
    BY <1>5 DEF Attempts, Posts, Ages, Misses
  <2>2. NetInv' /\ ClaimTypeOK'
    BY <1>5, <2>1, SameNet, ClaimStep DEF Attempts, Posts, Ages, Misses
  <2> QED BY <1>1, <1>5, <2>2 DEF Attempts, Posts, Ages, Misses
<1>6. CASE Outside
  <2>1. NetInv' /\ ClaimTypeOK'
    BY <1>6, ReportStep, SameNet, ClaimStep DEF Outside
  <2> QED BY <1>1, <1>6, <2>1 DEF Outside
<1>7. CASE Console
  <2>1. NetInv' /\ ClaimTypeOK'
    BY <1>7, SaveStep, ClearStep, SameNet, ClaimStep DEF Console
  <2> QED BY <1>1, <1>7, <2>1 DEF Console
<1>8. CASE PortalSubmit
  <2>1. NetInv' /\ ClaimTypeOK'
    BY <1>8, SaveStep, SameNet, ClaimStep DEF PortalSubmit
  <2> QED BY <1>1, <1>8, <2>1 DEF PortalSubmit
<1>9. CASE SetupSubmit
  <2>1. NetInv' /\ ClaimTypeOK'
    BY <1>9, SameNet, ClaimStep DEF SetupSubmit
  <2> QED BY <1>1, <1>9, <2>1 DEF SetupSubmit
<1>10. CASE FactoryReset
  <2>1. NetInv' /\ ClaimTypeOK'
    BY <1>10, BootStep, ClaimBootStep DEF FactoryReset, HalfCleared
  <2> QED BY <1>1, <1>10, <2>1 DEF FactoryReset
<1>11. CASE PowerCut
  <2>1. NetInv' /\ ClaimTypeOK'
    BY <1>11, BootStep, ClaimBootStep DEF PowerCut, HalfCleared
  <2> QED BY <1>1, <1>11, <2>1 DEF PowerCut
<1>12. CASE UNCHANGED uplinkVars
  <2>1. NetInv' /\ ClaimTypeOK'
    BY <1>12, SameNet, ClaimStep DEF uplinkVars
  <2> QED BY <1>12, <2>1 DEF uplinkVars
<1> QED BY <1>2, <1>3, <1>4, <1>5, <1>6, <1>7, <1>8, <1>9, <1>10, <1>11, <1>12 DEF Next

(* The invariant holds in every behaviour.                                 *)
LEMMA Invariance == Spec => []UplinkInv
BY InitInv, StepInv, PTL DEF Spec

(* Selector and claim client keep their shapes, and the rotation cursor    *)
(* stays within the list it points into, whatever is typed in (net_creds_  *)
(* changed, net_cred_at).                                                  *)
THEOREM TypeCorrect == Spec => []TypeOK
<1>1. UplinkInv => TypeOK
  BY DEF UplinkInv, NetInv, TypeOK
<1> QED BY <1>1, Invariance, PTL

(* Once started, the bridge runs exactly while the wire is the interface   *)
(* in use, by whichever of the edge, the preempt and the loss of the       *)
(* interface it got there (main.cpp).                                      *)
THEOREM BridgeOnWireOnly == Spec => []BridgeFollowsWire
<1>1. UplinkInv => BridgeFollowsWire
  BY DEF UplinkInv, NetInv
<1> QED BY <1>1, Invariance, PTL

(* The portal is never up over a working uplink, on a bench build, or for  *)
(* a network that carried traffic before (portal_wanted, portal_sync).     *)
THEOREM PortalStaysBounded == Spec => []PortalBounded
<1>1. UplinkInv => PortalBounded
  BY DEF UplinkInv, NetInv
<1> QED BY <1>1, Invariance, PTL

(* wifi_ok is about the network it stands beside, but for a credential     *)
(* replaced under an associated station and a save cut short; and what     *)
(* worked is remembered (net_creds_mark_ok, net_creds_save).               *)
THEOREM MarkIsHonest == Spec => []ProvenHonest
<1>1. UplinkInv => ProvenHonest
  BY DEF UplinkInv, NetInv
<1> QED BY <1>1, Invariance, PTL

-----------------------------------------------------------------------------
(* How the two exceptions come about.                                      *)

(* A token without a code is in use: no refusal and no form leaves one     *)
(* lying about.                                                            *)
Paired == code = Nothing /\ tok # Nothing => cst = "CLAIMED"

(* Steps of the claim client: they keep that, and none of them orphans.    *)
LEMMA ClaimPaired ==
    ASSUME ClaimTypeOK, Paired,
           \/ Claimed \/ Unbound \/ Refused \/ RefusedAnyway \/ SignFails
           \/ Retried \/ StrikeAges \/ Forget
           \/ Attaches \/ Revokes \/ Releases \/ (\E c \in Codes : ClaimStart(c))
           \/ (\E blip \in BOOLEAN : Ingest(blip)) \/ UNCHANGED claimVars
    PROVE  Paired' /\ (Orphaned' => Orphaned)
<1> USE Assumed DEF ClaimTypeOK, Trying, Paired, Orphaned
<1>1. CASE Claimed \/ Unbound \/ Retried
  BY <1>1 DEF Claimed, Unbound, Retried
<1>2. CASE Refused \/ RefusedAnyway \/ SignFails
  BY <1>2 DEF Refused, RefusedAnyway, Rejected, SignFails
<1>3. CASE StrikeAges \/ Forget \/ Attaches
  BY <1>3 DEF StrikeAges, Forget, Attaches
<1>4. CASE Revokes \/ Releases
  BY <1>4 DEF Revokes, Releases, Dies
<1>5. CASE \E c \in Codes : ClaimStart(c)
  BY <1>5 DEF ClaimStart, Codes
<1>6. CASE \E blip \in BOOLEAN : Ingest(blip)
  BY <1>6 DEF Ingest, Note401
<1>7. CASE UNCHANGED claimVars
  BY <1>7 DEF claimVars
<1> QED BY <1>1, <1>2, <1>3, <1>4, <1>5, <1>6, <1>7

(* A boot resumes from what is in flash: without a half-cleared block it   *)
(* finds no token alone that was not alone before.                         *)
LEMMA BootPaired ==
    ASSUME ClaimTypeOK, Paired, ClaimBoot,
           \/ UNCHANGED <<code, tok>> \/ HalfCleared
           \/ code' = Nothing /\ tok' = Nothing
    PROVE  Paired' /\ (Orphaned' => Orphaned \/ HalfCleared)
BY DEF ClaimTypeOK, Paired, Orphaned, ClaimBoot, Resumed, HalfCleared

(* Every step: only power lost in a write orphans a unit.                  *)
LEMMA PairedStep ==
    ASSUME UplinkInv, Paired, [Next]_uplinkVars
    PROVE  /\ Paired'
           /\ Orphaned' => Orphaned \/ (HalfCleared /\ (PowerCut \/ FactoryReset))
<1> USE DEF UplinkInv
<1>1. CASE \/ Drivers \/ Checks \/ \E late, over \in BOOLEAN : Selects(late, over)
           \/ Attempts \/ Posts \/ Ages \/ Misses
           \/ Outside \/ Console \/ PortalSubmit \/ SetupSubmit \/ UNCHANGED uplinkVars
  BY <1>1, ClaimPaired DEF Drivers, Checks, Selects, Attempts, Posts, Ages, Misses,
                           Outside, Console, PortalSubmit, SetupSubmit, uplinkVars
<1>2. CASE FactoryReset
  BY <1>2, BootPaired DEF FactoryReset
<1>3. CASE PowerCut
  BY <1>3, BootPaired DEF PowerCut
<1> QED BY <1>1, <1>2, <1>3 DEF Next

(* A dead token without its code, the state DoorOrService excepts, comes   *)
(* from power lost inside claim_clear and from nothing else: no answer, no *)
(* form, no console command and no order of them leads there.              *)
THEOREM OrphanedByCutOnly ==
    Spec => [][Orphaned' => \/ Orphaned
                            \/ HalfCleared /\ (PowerCut \/ FactoryReset)]_uplinkVars
<1>1. Init => Paired
  BY DEF Init, ClaimInit, Paired, Resumed
<1>2. UplinkInv /\ Paired /\ [Next]_uplinkVars
        => /\ Paired'
           /\ [Orphaned' => \/ Orphaned
                            \/ HalfCleared /\ (PowerCut \/ FactoryReset)]_uplinkVars
  BY PairedStep
<1> QED BY <1>1, <1>2, Invariance, PTL DEF Spec

(* A wifi_ok that may be about another network, which ProvenHonest         *)
(* excepts, comes from a credential typed in over a station still set to   *)
(* another one, or from a save cut short over a proven one.                *)
THEOREM DoubtOnlyAsNamed ==
    Spec => [][doubt' => \/ doubt
                         \/ \E c \in Cred, b \in BOOLEAN :
                               SaveCred(c, b) /\ sta \notin {None, c}
                         \/ ok /\ PowerCut]_uplinkVars
<1>1. ASSUME [Next]_uplinkVars, doubt', ~ doubt
      PROVE  \/ \E c \in Cred, b \in BOOLEAN : SaveCred(c, b) /\ sta \notin {None, c}
             \/ ok /\ PowerCut
  <2> USE <1>1 DEF outside, wifi, flash, bridge, netVars
  <2>1. CASE \/ Drivers \/ Checks \/ Attempts \/ Posts \/ Ages \/ Misses \/ Outside
             \/ SetupSubmit \/ UNCHANGED uplinkVars
    BY <2>1 DEF Drivers, EthEvent, Associates, Drops, Checks, Check, Attempts, Posts, Ages,
                Misses, Outside, Plugged, Router, SetupSubmit, uplinkVars
  <2>2. ASSUME NEW late \in BOOLEAN, NEW over \in BOOLEAN, Selects(late, over) PROVE FALSE
    BY <2>2 DEF Selects, Tick, Preempt, WaitEth, WaitWifi, Provision, Up, Rests, GoesUp,
                Ensure
  <2>3. CASE Console \/ PortalSubmit
    BY <2>3 DEF Console, PortalSubmit, SaveCred, ClearCred
  <2>4. CASE FactoryReset
    BY <2>4 DEF FactoryReset, LosesCred
  <2>5. CASE PowerCut
    BY <2>5 DEF PowerCut, KeepsCred, HalfSaved
  <2> QED BY <2>1, <2>2, <2>3, <2>4, <2>5 DEF Next
<1>2. [Next]_uplinkVars
        => [doubt' => \/ doubt
                      \/ \E c \in Cred, b \in BOOLEAN :
                            SaveCred(c, b) /\ sta \notin {None, c}
                      \/ ok /\ PowerCut]_uplinkVars
  BY <1>1
<1> QED BY <1>2, PTL DEF Spec
=============================================================================
