-------------------------- MODULE WelcomeDelivery --------------------------
(* From a stay to a welcome in the group (resident_welcome/: state, artifact, *)
(* review, foundation, delivery, channels, workbench).  One case: one stay of *)
(* one resident.  Its welcome may be due in the group of either building, and *)
(* the stay may move between the buildings while a delivery is under way.     *)
(*                                                                            *)
(* An approval rests on the grants of this service or, for a shared target,   *)
(* on the rule and authority of the collaboration foundation; either way it   *)
(* is bound to the version in force when it was given.                        *)
(* The sixty-second freshness of a snapshot or of a roster is not a clock     *)
(* here: a check that needs it may fail at any time, so wherever the code     *)
(* reacts to the failure the model does too.                                  *)
EXTENDS Naturals, FiniteSets

CONSTANTS Targets,      \* building groups
          DWorkers,     \* delivery workers
          MaxVersion,   \* bound: versions of the case
          MaxRule,      \* bound: changes of rule or authority
          MaxFence      \* bound: claims of one action

VARIABLES stay,     \* the stored snapshot: state and building
          wcase,    \* welcome_cases (admitted by a live event): version, hold, bound
          appl,     \* welcome_applications: valid with consent
          rule,     \* version of the welcome rule, its authority and grants
          card,     \* the current artifact: the case version it was made for, or 0
          approved, \* [target -> the (card, rule) the approval was given for]
          act,      \* welcome_actions, one per target
          dw,       \* what each delivery worker holds
          effects   \* welcome_synthetic_effects: <<target, attempt>>

dvars == <<stay, wcase, appl, rule, card, approved, act, dw, effects>>

None == [card |-> 0, rule |-> 0]
NoClaim == [t |-> 0, fence |-> 0, at |-> "idle"]
Pending == {"prepared", "claimed", "retryable"}

DeliveryInit ==
    /\ stay = [state |-> "reserved", at |-> CHOOSE t \in Targets : TRUE]
    /\ wcase = [version |-> 1, hold |-> FALSE, bound |-> FALSE]
    /\ appl = TRUE
    /\ rule = 1
    /\ card = 0
    /\ approved = [t \in Targets |-> None]
    /\ act = [t \in Targets |-> [st |-> "none", fence |-> 0, basis |-> None]]
    /\ dw = [w \in DWorkers |-> NoClaim]
    /\ effects = {}

----------------------------------------------------------------------------
(* Readiness and its consequences.                                           *)

\* evaluate_tx: nothing is missing for the case c in snapshot s, application a.
card_ready(c, s, a) == /\ ~c.hold /\ c.bound /\ a
                       /\ s.state \in {"reserved", "inhouse"}

\* UPDATE welcome_actions SET status='cancelled' WHERE status IN (prepared, ...)
Cancelled(T) == [t \in Targets |->
    IF t \in T /\ act[t].st \in Pending THEN [act[t] EXCEPT !.st = "cancelled"] ELSE act[t]]

\* evaluate_tx as a step: a case that is not ready loses its pending actions.
evaluate_tx(c, s, a) == IF card_ready(c, s, a) THEN act ELSE Cancelled(Targets)

\* The building this case was already welcomed in, or may have been.
already_elsewhere(t) == \E o \in Targets \ {t} : act[o].st \in {"succeeded", "sending", "unknown"}

\* The decision both at claim and at the durable boundary: the case is ready, the
\* artifact was made for this very version, the resident has checked in to this
\* building (the formal phase), and the approval names this artifact under the rule and authority of now.
Eligible(t) ==
    /\ card_ready(wcase, stay, appl)
    /\ card = wcase.version
    /\ stay.state = "inhouse" /\ stay.at = t
    /\ approved[t] = [card |-> card, rule |-> rule]
    /\ ~already_elsewhere(t)

----------------------------------------------------------------------------
(* What the outside world changes.                                           *)

(* apply_snapshot, as far as the case goes: a move to another building makes  *)
(* a new version of the case, voids its artifacts and cancels what is         *)
(* pending; an ended stay puts it on hold; then it is evaluated.              *)
apply_snapshot_case(s) ==
    LET moved == s.at # stay.at
        held  == s.state = "terminated" /\ ~wcase.hold
        step  == (IF moved THEN 1 ELSE 0) + (IF held THEN 1 ELSE 0)
        c     == [wcase EXCEPT !.version = @ + step, !.hold = @ \/ held] IN
    /\ c.version <= MaxVersion
    /\ s # stay
    /\ stay' = s
    /\ wcase' = c
    /\ card' = IF moved THEN 0 ELSE card
    /\ act' = IF moved THEN Cancelled(Targets) ELSE evaluate_tx(c, s, appl)
    /\ UNCHANGED <<appl, rule, approved, dw, effects>>

(* consume_entity: a newer member or room revision invalidates the snapshot.  *)
InvalidateSnapshot ==
    /\ stay.state # "invalidated"
    /\ stay' = [stay EXCEPT !.state = "invalidated"]
    /\ act' = evaluate_tx(wcase, stay', appl)
    /\ UNCHANGED <<wcase, appl, rule, card, approved, dw, effects>>

(* application_from_readback: a newer revision of the application voids the   *)
(* artifacts made from the older one; consent may have been withdrawn.        *)
application_from_readback(ok) ==
    /\ appl # ok
    /\ appl' = ok
    /\ card' = 0
    /\ act' = evaluate_tx(wcase, stay, ok)
    /\ UNCHANGED <<stay, wcase, rule, approved, dw, effects>>

(* change_identity (workbench_identity): confirming or revoking a source      *)
(* identity puts the case on hold and voids everything prepared for it.       *)
change_identity ==
    /\ wcase.bound /\ wcase.version < MaxVersion
    /\ wcase' = [wcase EXCEPT !.version = @ + 1, !.hold = TRUE]
    /\ card' = 0
    /\ act' = Cancelled(Targets)
    /\ UNCHANGED <<stay, appl, rule, approved, dw, effects>>

(* bind_case (workbench_bind): an operator binds person, identity and         *)
(* application; this is the only way out of a hold.                           *)
bind_case ==
    /\ wcase.version < MaxVersion
    /\ appl
    /\ ~wcase.bound \/ wcase.hold
    /\ wcase' = [wcase EXCEPT !.version = @ + 1, !.hold = FALSE, !.bound = TRUE]
    /\ act' = evaluate_tx(wcase', stay, appl)
    /\ UNCHANGED <<stay, appl, rule, card, approved, dw, effects>>

(* foundation_configure: a changed rule or authority is only noticed by the   *)
(* next check.                                                                *)
foundation_configure ==
    /\ rule < MaxRule
    /\ rule' = rule + 1
    /\ UNCHANGED <<stay, wcase, appl, card, approved, act, dw, effects>>

(* revoke_grant: what rests on the grant is cancelled at once.                *)
revoke_grant ==
    /\ rule < MaxRule
    /\ rule' = rule + 1
    /\ act' = Cancelled(Targets)
    /\ UNCHANGED <<stay, wcase, appl, card, approved, dw, effects>>

----------------------------------------------------------------------------
(* Content and its approval.                                                 *)

(* foundation_render_bound, register_artifact, upload_intent and its          *)
(* readback: a card for the version the request was made for.                 *)
register_artifact ==
    /\ card_ready(wcase, stay, appl)
    /\ card # wcase.version
    /\ card' = wcase.version
    /\ UNCHANGED <<stay, wcase, appl, rule, approved, act, dw, effects>>

\* prepare_delivery and foundation_prepare: the pending or cancelled action takes
\* the new basis; one that was sent, or may have been, keeps its own.
Prepared(a, t, b) ==
    IF a[t].st \in {"none", "prepared", "cancelled", "retryable"}
    THEN [a EXCEPT ![t] = [@ EXCEPT !.st = "prepared", !.basis = b]] ELSE a

(* approve (workbench_approve) and foundation_approve_as: the reviewer        *)
(* approves this artifact for this target, and the delivery is prepared.      *)
approve(t) ==
    /\ card_ready(wcase, stay, appl) /\ card = wcase.version
    /\ approved[t] # [card |-> card, rule |-> rule]
    /\ approved' = [approved EXCEPT ![t] = [card |-> card, rule |-> rule]]
    /\ act' = IF stay.state = "inhouse" /\ stay.at = t /\ ~already_elsewhere(t)
              THEN Prepared(act, t, approved'[t]) ELSE act
    /\ UNCHANGED <<stay, wcase, appl, rule, card, dw, effects>>

(* revoke_approval and foundation_revoke_approval                             *)
revoke_approval(t) ==
    /\ approved[t] # None
    /\ approved' = [approved EXCEPT ![t] = None]
    /\ act' = IF act[t].basis = approved[t] THEN Cancelled({t}) ELSE act
    /\ UNCHANGED <<stay, wcase, appl, rule, card, dw, effects>>

(* reconcile_case: run by every wakeup.  A pending action that is no longer   *)
(* eligible is cancelled, an eligible target is prepared again.               *)
reconcile_case(t, fresh) ==
    /\ act' = IF Eligible(t) /\ fresh THEN Prepared(act, t, approved[t])
              ELSE Cancelled({t})
    /\ UNCHANGED <<stay, wcase, appl, rule, card, approved, dw, effects>>

----------------------------------------------------------------------------
(* Delivery.                                                                 *)

\* The basis recorded on the action still decides the same.
BasisHolds(t) == Eligible(t) /\ act[t].basis = approved[t]

(* claim_delivery: a prepared or retryable action, or a claimed one whose     *)
(* lease has run out, which may be at any time.                               *)
claim_delivery(w, t) ==
    /\ dw[w] = NoClaim
    /\ act[t].st \in Pending
    /\ act[t].fence < MaxFence
    /\ BasisHolds(t)
    /\ act' = [act EXCEPT ![t].st = "claimed", ![t].fence = @ + 1]
    /\ dw' = [dw EXCEPT ![w] = [t |-> t, fence |-> act[t].fence + 1, at |-> "claimed"]]
    /\ UNCHANGED <<stay, wcase, appl, rule, card, approved, effects>>

\* Mutant: the fence of the claim is not compared.
lock_claimMutant(w, st) == dw[w].t # 0 /\ act[dw[w].t].st = st

\* lock_claim: the action still carries this worker's fence and attempt.
lock_claim(w, st) == dw[w].t # 0 /\ LET a == act[dw[w].t] IN a.fence = dw[w].fence /\ a.st = st

(* foundation_execute when the agent runtime is unavailable or proposes       *)
(* something else: no provider boundary was crossed, the action is prepared   *)
(* again.                                                                     *)
RuntimeWaits(w) ==
    /\ dw[w].at = "claimed" /\ lock_claim(w, "claimed")
    /\ act' = [act EXCEPT ![dw[w].t].st = "prepared"]
    /\ dw' = [dw EXCEPT ![w] = NoClaim]
    /\ UNCHANGED <<stay, wcase, appl, rule, card, approved, effects>>

(* begin_synthetic_attempt: the durable boundary before the provider is       *)
(* called; everything is checked again.                                       *)
begin_synthetic_attempt(w) ==
    /\ dw[w].at = "claimed"
    /\ IF lock_claim(w, "claimed") /\ BasisHolds(dw[w].t)
       THEN /\ act' = [act EXCEPT ![dw[w].t].st = "sending"]
            /\ dw' = [dw EXCEPT ![w].at = "sending"]
       ELSE /\ dw' = [dw EXCEPT ![w] = NoClaim]
            /\ UNCHANGED act
    /\ UNCHANGED <<stay, wcase, appl, rule, card, approved, effects>>

(* foundation_execute: the provider is called only while the attempt is still *)
(* the one in sending.                                                        *)
SendEffect(w, sends) ==
    /\ dw[w].at = "sending"
    /\ IF lock_claim(w, "sending")
       THEN /\ effects' = IF sends THEN effects \cup {<<dw[w].t, dw[w].fence>>} ELSE effects
            /\ dw' = [dw EXCEPT ![w].at = IF sends THEN "sent" ELSE "refused"]
       ELSE dw' = [dw EXCEPT ![w] = NoClaim] /\ UNCHANGED effects
    /\ UNCHANGED <<stay, wcase, appl, rule, card, approved, act>>

(* record_outcome: accepted for the exact attempt, even after its lease.  A   *)
(* lost acknowledgement is recorded as unknown.                               *)
record_outcome(w, lost) ==
    /\ dw[w].at \in {"sent", "refused"}
    /\ dw' = [dw EXCEPT ![w] = NoClaim]
    /\ act' = IF lock_claim(w, "sending")
              THEN [act EXCEPT ![dw[w].t].st =
                       IF dw[w].at = "sent" THEN (IF lost THEN "unknown" ELSE "succeeded")
                       ELSE IF lost THEN "failed" ELSE "retryable"]
              ELSE act
    /\ UNCHANGED <<stay, wcase, appl, rule, card, approved, effects>>

(* A delivery worker dies.                                                    *)
DeliveryDies(w) ==
    /\ dw[w] # NoClaim
    /\ dw' = [dw EXCEPT ![w] = NoClaim]
    /\ UNCHANGED <<stay, wcase, appl, rule, card, approved, act, effects>>

(* recover_sending: an attempt in sending whose lease has run out is not      *)
(* known to have sent or not; its worker may still be alive.                  *)
recover_sending(t) ==
    /\ act[t].st = "sending"
    /\ act' = [act EXCEPT ![t].st = "unknown"]
    /\ UNCHANGED <<stay, wcase, appl, rule, card, approved, dw, effects>>

\* What the provider's records show for a target.
Sent(t) == \E e \in effects : e[1] = t

(* resolve_unknown and foundation_reconcile_unknown: a person, or the         *)
(* provider's receipt, says whether the message went out.                     *)
resolve_unknown(t) ==
    /\ act[t].st = "unknown"
    /\ act' = [act EXCEPT ![t].st = IF Sent(t) THEN "succeeded" ELSE "retryable"]
    /\ UNCHANGED <<stay, wcase, appl, rule, card, approved, dw, effects>>

DeliveryNext ==
    \/ \E s \in [state : {"reserved", "inhouse", "terminated"}, at : Targets] :
          apply_snapshot_case(s)
    \/ InvalidateSnapshot \/ change_identity \/ bind_case
    \/ foundation_configure \/ revoke_grant \/ register_artifact
    \/ \E ok \in BOOLEAN : application_from_readback(ok)
    \/ \E t \in Targets :
          \/ approve(t) \/ revoke_approval(t) \/ recover_sending(t) \/ resolve_unknown(t)
          \/ \E fresh \in BOOLEAN : reconcile_case(t, fresh)
    \/ \E w \in DWorkers :
          \/ \E t \in Targets : claim_delivery(w, t)
          \/ RuntimeWaits(w) \/ begin_synthetic_attempt(w) \/ DeliveryDies(w)
          \/ \E b \in BOOLEAN : SendEffect(w, b) \/ record_outcome(w, b)

----------------------------------------------------------------------------
(* A resident is welcomed at most once, in one building, whatever happens to  *)
(* leases, acknowledgements, moves and revocations; and the recorded status   *)
(* is honest: succeeded means the message went out, and every status from     *)
(* which the code may send again means that it did not (delivery.rs,          *)
(* foundation_execute).                                                       *)
WelcomedOnce ==
    /\ Cardinality(effects) <= 1
    /\ \A t \in Targets :
          /\ act[t].st = "succeeded" => Sent(t)
          /\ act[t].st \in {"none", "prepared", "claimed", "retryable", "cancelled", "failed"} => ~Sent(t)
=============================================================================
