---------------------------- MODULE ClaimClient ----------------------------
(***************************************************************************)
(* How a unit becomes a customer's (claim_client.inc): the claim block in  *)
(* flash, the state machine that posts claims, and the two 401s that send  *)
(* it back.  The control plane and the ingest server are external: they    *)
(* know which code is the unit's, whether an account is attached, and      *)
(* whether the token is still good.                                        *)
(***************************************************************************)

CONSTANT Nothing

VARIABLES
    code,       \* claim_code: the unit's ("right"), another ("wrong"), or Nothing
    tok,        \* claim_tok, with site and URL: "good", "dead", or Nothing
    cst,        \* s_claim_state
    strike,     \* s_claim_401_first_ms: none, fresh, or more than ten minutes old
    bound       \* external: an account is attached to the unit

claimVars == <<code, tok, cst, strike, bound>>

(* claim_init_state                                                        *)
Resumed == CASE tok # Nothing -> "CLAIMED"
             [] tok = Nothing /\ code # Nothing -> "CLAIMING"
             [] OTHER -> "UNCLAIMED"

ClaimInit ==
    /\ bound \in BOOLEAN
    /\ \/ code = Nothing /\ tok = Nothing
       \/ code = "right" /\ tok = "good"
    /\ cst = Resumed /\ strike = "none"

(* claim_start: a code of the right form is kept at once.                  *)
ClaimStart(c) ==
    /\ code' = c /\ cst' = "CLAIMING"
    /\ UNCHANGED <<tok, strike, bound>>

Trying == cst \in {"CLAIMING", "AWAITING", "RECLAIMING"}

(* claim_attempt, answered: the code is this unit's and bound (200         *)
(* claimed), not yet bound (200 unbound), or not this unit's (4xx), which  *)
(* while re-claiming means that the stored claim is dead.                  *)
Claimed ==
    /\ Trying /\ code = "right" /\ bound
    /\ tok' = "good" /\ cst' = "CLAIMED" /\ strike' = "none"
    /\ UNCHANGED <<code, bound>>

Unbound ==
    /\ Trying /\ code = "right" /\ ~ bound
    /\ cst' = "AWAITING" /\ UNCHANGED <<code, tok, strike, bound>>

Rejected ==
    /\ Trying
    /\ IF cst = "RECLAIMING" THEN code' = Nothing /\ tok' = Nothing ELSE UNCHANGED <<code, tok>>
    /\ cst' = "REJECTED" /\ UNCHANGED <<strike, bound>>

Refused == code # "right" /\ Rejected

(* A terminal answer to the right code all the same: replayed, retired,    *)
(* not registered; or the signing failed, and nothing was posted.          *)
RefusedAnyway == code = "right" /\ Rejected

SignFails == Trying /\ cst' = "REJECTED" /\ UNCHANGED <<code, tok, strike, bound>>

(* No answer, or one to retry.  The claim may have been granted, and the   *)
(* old token replaced, all the same.                                       *)
Retried ==
    /\ Trying /\ code = "right" /\ bound /\ tok = "good" /\ tok' = "dead"
    /\ UNCHANGED <<code, cst, strike, bound>>

(* Mutant of Note401: every 401 is the first one.                          *)
Note401Anew ==
    /\ IF cst = "CLAIMED" /\ code # Nothing THEN strike' = "fresh" ELSE UNCHANGED strike
    /\ UNCHANGED cst

(* claim_note_ingest_401                                                   *)
Note401 ==
    IF cst # "CLAIMED" \/ code = Nothing THEN UNCHANGED <<strike, cst>>
    ELSE /\ strike' = CASE strike = "none" -> "fresh" [] strike = "fresh" -> "fresh"
                        [] strike = "old" -> "none"
         /\ cst' = IF strike = "old" THEN "RECLAIMING" ELSE cst

(* A beat or a frame is posted with the token; blip: a 401 for no reason.  *)
Ingest(blip) ==
    /\ tok # Nothing /\ (blip => tok = "good")
    /\ IF tok = "good" /\ ~ blip THEN strike' = "none" /\ UNCHANGED cst ELSE Note401
    /\ UNCHANGED <<code, tok, bound>>

(* Ten minutes pass.                                                       *)
StrikeAges == strike = "fresh" /\ strike' = "old" /\ UNCHANGED <<code, tok, cst, bound>>

(* claim_forget                                                            *)
Forget ==
    /\ code' = Nothing /\ tok' = Nothing
    /\ cst' = "UNCLAIMED" /\ strike' = "none" /\ UNCHANGED bound

ClaimBoot == cst' = Resumed' /\ strike' = "none" /\ UNCHANGED bound

(* Power lost inside claim_clear, which removes the code first.            *)
HalfCleared == code' = Nothing /\ tok' = tok

(* The owner's account and the operator's console: an account is attached  *)
(* or not, the token is revoked, the unit released (a new code, no token). *)
Attaches == bound' = ~ bound /\ UNCHANGED <<code, tok, cst, strike>>

Dies(t) == IF t = "good" THEN "dead" ELSE t

Revokes == tok' = Dies(tok) /\ UNCHANGED <<code, cst, strike, bound>>

Releases ==
    /\ tok' = Dies(tok) /\ bound' = FALSE
    /\ code' = IF code = "right" THEN "wrong" ELSE code
    /\ UNCHANGED <<cst, strike>>

(* claim_setup_live                                                        *)
SetupLive == cst \notin {"CLAIMED", "RECLAIMING"}

ClaimTypeOK ==
    /\ code \in {"right", "wrong", Nothing} /\ tok \in {"good", "dead", Nothing}
    /\ cst \in {"UNCLAIMED", "CLAIMING", "AWAITING", "CLAIMED", "RECLAIMING", "REJECTED"}
    /\ strike \in {"none", "fresh", "old"} /\ bound \in BOOLEAN
    /\ Trying => code # Nothing
    /\ cst \in {"CLAIMED", "RECLAIMING"} => tok # Nothing
=============================================================================
