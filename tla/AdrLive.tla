------------------------------ MODULE AdrLive ------------------------------
(***************************************************************************)
(* What the radio profiles promise in the long run.  Every link may be     *)
(* split, by lost grants, lost confirms, power cuts and the operator, in   *)
(* any way that Adr allows; at some moment the disturbances end, and from  *)
(* then on the two ends' own timers must bring them together.              *)
(***************************************************************************)
EXTENDS Adr

CONSTANT Alive      \* leaves that go on checking in; others may fall silent

ASSUME AliveAssumption == Alive \subseteq Leaf

VARIABLE calm       \* from now on nobody interferes

liveVars == <<vars, calm>>

LiveInit == Init /\ calm = FALSE

(* Signals are steady too: no other rung is tried any more.                *)
Steady == gw'.pending \in {None, gw.pending}

CalmDown == ~ calm /\ calm' = TRUE /\ UNCHANGED vars

LiveNext ==
    \/ Course /\ (calm => Steady) /\ UNCHANGED calm
    \/ Disturbance /\ ~ calm /\ UNCHANGED calm
    \/ CalmDown

(* A retune to where the leaf, now asleep, will check in next.             *)
Meets(l) == ~ lf[l].awake /\ gw'.current = WakeBegin(lf[l], TRUE).tuned

(* Timers run out and windows close.  A leaf that is alive is not woken by *)
(* motion alone for ever; it checks in minutes or hours apart, by its own  *)
(* clock, and the gateway toggles every thirty seconds: they do not stay   *)
(* out of phase for ever, nor does the air lose every announce.            *)
Fairness ==
    /\ WF_liveVars(CalmDown)
    /\ WF_vars(ConfirmTimeout) /\ WF_vars(FallsQuiet)
    /\ WF_vars(ScanToggle) /\ WF_vars(ShepherdEnd) /\ WF_vars(ShepherdToggle)
    /\ \A l \in Leaf :
         WF_vars(WindowCloses(l)) /\ WF_vars(GrantExpires(l))
    /\ \A l \in Alive :
         /\ SF_vars(Wake(l, TRUE)) /\ SF_vars(WakeHeard(l, TRUE))
         /\ SF_vars((ScanToggle \/ ShepherdToggle) /\ Meets(l))

LiveSpec == LiveInit /\ [][LiveNext]_liveVars /\ Fairness

(* "A missed switch can never strand the link": every leaf of the site is  *)
(* heard again and again, whatever was lost on the way and wherever the    *)
(* two ends had been left.                                                 *)
NeverStranded ==
    \A l \in Alive :
        <>[](l \in gw.roster) => []<><<WakeHeard(l, TRUE)>>_vars

(* A leaf that no gateway ever answered seeks across the rungs until it is *)
(* heard, wherever the gateway camps for the sake of another leaf.         *)
OrphanAdopted ==
    \A l \in Alive : []<>(lf[l].ever \/ l \in gw.roster)

=============================================================================
