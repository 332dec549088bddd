------------------------------- MODULE Uplink ------------------------------
(***************************************************************************)
(* The gateway's way out, whole: the network selector and the claim client *)
(* beside it (claim_client.inc:7), the setup form each of them shows, the  *)
(* console, the factory reset, and power cuts inside their writes.  The    *)
(* question is the owner's: does a sealed unit always either work or leave *)
(* a door open through which it can be set up?                             *)
(***************************************************************************)
EXTENDS NetSelect, ClaimClient

CONSTANT MaxEvents  \* bound: events from outside

ASSUME UplinkAssumption ==
    /\ None \notin Cred /\ Nothing \notin {"right", "wrong", "good", "dead"}
    /\ RescueFails \in Nat \ {0} /\ MaxEvents \in Nat
    /\ \A b \in Bakes : b \in Seq(Cred)

VARIABLE events     \* events so far

uplinkVars == <<netVars, claimVars, events>>

Init == NetInit /\ ClaimInit /\ events = 0

Event == events < MaxEvents /\ events' = events + 1

Quiet == UNCHANGED events

Codes == {"right", "wrong"}

---------------------------------------------------------------------------
(* A network driver, an Ethernet task, a pass of the loop.                 *)

Drivers == (EthEvent \/ Associates \/ Drops) /\ UNCHANGED claimVars /\ Quiet

Selects(late, over) == Tick(late, over) /\ UNCHANGED claimVars /\ Quiet

Checks == Check /\ UNCHANGED claimVars /\ Quiet

(* claim_tick and the beats, gated on net_up().                            *)
Online == at = "tick" /\ NetUp

Attempts == Online /\ (Claimed \/ Unbound \/ Refused) /\ UNCHANGED netVars /\ Quiet

Posts == Online /\ Ingest(FALSE) /\ UNCHANGED netVars /\ Quiet

Ages == StrikeAges /\ UNCHANGED netVars /\ Quiet

(* Faults of the way to the servers, of the servers, and of the signing.   *)
Misses ==
    /\ Online /\ UNCHANGED netVars /\ Event
    /\ Retried \/ RefusedAnyway \/ SignFails \/ Ingest(TRUE)

(* The owner, the account and the site.                                    *)
Outside ==
    /\ Event
    /\ \/ (Plugged \/ \E c \in Cred : Router(c)) /\ UNCHANGED claimVars
       \/ (Attaches \/ Revokes \/ Releases) /\ UNCHANGED netVars

---------------------------------------------------------------------------
(* What is typed in.                                                       *)

(* The console.                                                            *)
Console ==
    /\ Event
    /\ \/ (ClearCred \/ \E c \in Cred : SaveCred(c, FALSE)) /\ UNCHANGED claimVars
       \/ at = "tick" /\ (Forget \/ \E c \in Codes : ClaimStart(c)) /\ UNCHANGED netVars

(* portal_submit: a code, a network, or both on one form.                  *)
PortalSubmit ==
    /\ portal /\ Event
    /\ \/ \E c \in Cred : SaveCred(c, TRUE) /\ UNCHANGED claimVars
       \/ at = "tick" /\ (\E c \in Codes : ClaimStart(c)) /\ UNCHANGED netVars
       \/ (\E c \in Cred : SaveCred(c, TRUE)) /\ (\E c \in Codes : ClaimStart(c))

(* claim_setup_submit: the form on the uplink's address.                   *)
SetupSubmit ==
    /\ Online /\ ~ portal /\ SetupLive /\ Event
    /\ \E c \in Codes : ClaimStart(c)
    /\ UNCHANGED netVars

(* factory_reset_fire, cut short or not: it ends in a reboot either way.   *)
FactoryReset ==
    /\ at = "tick" /\ Event
    /\ LosesCred /\ NetBoot
    /\ \/ code' = Nothing /\ tok' = Nothing
       \/ HalfCleared \/ UNCHANGED <<code, tok>>
    /\ ClaimBoot

---------------------------------------------------------------------------
(* Power is cut: between passes, inside net_creds_save, inside claim_clear.*)
PowerCut ==
    /\ Event /\ NetBoot
    /\ \/ KeepsCred /\ UNCHANGED <<code, tok>>
       \/ at = "tick" /\ (\E c \in Cred : HalfSaved(c)) /\ UNCHANGED <<code, tok>>
       \/ at = "tick" /\ KeepsCred /\ HalfCleared
    /\ ClaimBoot

Next ==
    \/ Drivers \/ Checks \/ \E late, over \in BOOLEAN : Selects(late, over)
    \/ Attempts \/ Posts \/ Ages \/ Misses
    \/ Outside \/ Console \/ PortalSubmit \/ SetupSubmit \/ FactoryReset \/ PowerCut

Spec == Init /\ [][Next]_uplinkVars

(* The loop goes round and its timers run out; the tasks report; a network *)
(* within reach is joined within one of its windows; the gateway beats     *)
(* every five minutes and attempts are answered in the end.                *)
FairSpec ==
    /\ Spec
    /\ WF_uplinkVars(Checks) /\ WF_uplinkVars(\E over \in BOOLEAN : Selects(TRUE, over))
    /\ SF_uplinkVars(Selects(TRUE, TRUE))
    /\ WF_uplinkVars(EthEvent /\ UNCHANGED claimVars /\ Quiet)
    /\ WF_uplinkVars(Drops /\ UNCHANGED claimVars /\ Quiet)
    /\ SF_uplinkVars(Associates /\ UNCHANGED claimVars /\ Quiet)
    /\ SF_uplinkVars(Attempts) /\ SF_uplinkVars(Posts) /\ WF_uplinkVars(Ages)

---------------------------------------------------------------------------
(* Properties.                                                             *)

(* Selector and claim client keep their shapes.                            *)
TypeOK == NetTypeOK /\ ClaimTypeOK /\ events \in 0 .. MaxEvents

Serving == NetUp /\ tok = "good"

Door == portal \/ (NetUp /\ SetupLive)

(* By design no door is opened: a network that worked before, or a bench   *)
(* build's, is out of reach and there is no wire.                          *)
RouterGone == ~ cable /\ (ok \/ baked # <<>>) /\ (\A i \in DOMAIN List : List[i] \notin air)

(* Left by a power cut inside claim_clear: a dead token without the code   *)
(* that would replace it.                                                  *)
Orphaned == cst = "CLAIMED" /\ code = Nothing

(* A unit left alone works, or can be set up through its portal or its     *)
(* form: a token that died, a code that was rotated, a passphrase mistyped *)
(* or a cable pulled never close every door ("otherwise a brick", "no way  *)
(* back").                                                                 *)
DoorOrService == []<>(Serving \/ Door \/ RouterGone \/ Orphaned)
=============================================================================
