------------------------------ MODULE GroupSends ------------------------------
(***************************************************************************)
(* Sending to a QiWe group: the readiness worker (group_message_send.rs)   *)
(* and the text sender (qiwe_text_send.rs).  Images are sent by the worker *)
(* of module QiweImageSend.                                                *)
(*                                                                         *)
(* texter  how far the text sender is ("none": nothing in flight; a claim  *)
(*         is never taken over, so there is at most one).                  *)
(* sends   text messages QiWe accepted.                                    *)
(***************************************************************************)
EXTENDS PosterReturn

VARIABLES texter, sends
sendVars == <<texter, sends>>

\* The artifact a group message carries.
Carried == IF origin = "text" THEN "text" ELSE "image"

\* lock_work_item: queued, attempts left, not announced as ready before.
ReadyCandidate == /\ item["send"].st = "queued"
                  /\ item["send"].n < MaxAttempts
                  /\ ~Has("send", "ready")

\* validate_work_item, validate_approved_artifact_in_tx
ReadyValid == /\ ReviewPolicy("send") = "human_final_confirmation"
              /\ art[Carried] = "approved"

\* One transaction: the send-ready event, the item stays queued...
RecordReady ==
  /\ ReadyCandidate
  /\ ReadyValid
  /\ log' = log \cup {<<"send", "ready">>}
  /\ UNCHANGED <<origin, facts, item, art, inbox, ran, acts, snap>>

\* ...or the request fails.
ReadyFails ==
  /\ ReadyCandidate
  /\ ~ReadyValid
  /\ item' = Move("send", "failed")
  /\ log' = log \cup {<<"send", "denied_by_policy">>}
  /\ UNCHANGED <<origin, facts, art, inbox, ran, acts, snap>>

\* run_once of the readiness worker: one request per run, in one transaction;
\* a request that does not validate is failed before the error is returned.
ReadinessWorker == RecordReady \/ ReadyFails

\* text_work_item_query: confirmed, announced, approved, never tried.
TextCandidate ==
  /\ item["send"].st = "queued"
  /\ ReviewPolicy("send") = "human_final_confirmation"
  /\ art["text"] = "approved"
  /\ Has("send", "confirmed")
  /\ Has("send", "ready")
  /\ ~Has("send", "sent")
  /\ ~Has("send", "send_ambiguous")

\* The claim and its validation commit before anything is sent.
ClaimText ==
  /\ TextCandidate
  /\ item["send"].n < MaxAttempts
  /\ item' = [item EXCEPT !["send"].st = "processing", !["send"].n = @ + 1]
  /\ texter' = "calling"
  /\ UNCHANGED <<origin, facts, art, log, inbox, ran, acts, snap, sends>>

\* Or the plan does not validate: failed in the same transaction.
ClaimTextInvalid ==
  /\ TextCandidate
  /\ item' = Move("send", "failed")
  /\ log' = log \cup {<<"send", "failed">>}
  /\ UNCHANGED <<origin, facts, art, inbox, ran, acts, snap, texter, sends>>

\* request_send_text: accepted; provably not sent; or unknown.
SendText ==
  /\ texter = "calling"
  /\ \/ texter' = "sent" /\ sends' = sends + 1
     \/ texter' = "failed" /\ UNCHANGED sends
     \/ texter' = "send_ambiguous" /\ sends' \in {sends, sends + 1}
  /\ UNCHANGED itemVars

\* update_terminal_work_item: only while the item is still processing under
\* this claim; a cancellation in between leaves the outcome unrecorded.
RecordText ==
  /\ texter \in {"sent", "failed", "send_ambiguous"}
  /\ texter' = "none"
  /\ IF item["send"].st = "processing"
     THEN /\ item' = Move("send", IF texter = "sent" THEN "completed" ELSE "failed")
          /\ log' = log \cup {<<"send", texter>>}
     ELSE UNCHANGED <<item, log>>
  /\ UNCHANGED <<origin, facts, art, inbox, ran, acts, snap, sends>>

CrashText ==
  /\ texter # "none"
  /\ texter' = "none"
  /\ UNCHANGED <<itemVars, sends>>

SendsInit == texter = "none" /\ sends = 0

SendsNext ==
  \/ ReadinessWorker /\ UNCHANGED sendVars
  \/ ClaimText \/ ClaimTextInvalid \/ SendText \/ RecordText \/ CrashText

(***************************************************************************)
(* The whole pipeline                                                      *)
(***************************************************************************)

vars == <<itemVars, imageVars, returnVars, sendVars>>

Init == ItemsInit /\ ImagesInit /\ ReturnInit /\ SendsInit

Next == \/ ItemsNext /\ UNCHANGED <<imageVars, returnVars, sendVars>>
        \/ ImagesNext /\ UNCHANGED <<returnVars, sendVars>>
        \/ ReturnNext /\ UNCHANGED sendVars
        \/ SendsNext /\ UNCHANGED <<imageVars, returnVars>>

\* The timers start every worker again and again, a claim's time passes, and
\* a worker that runs comes to the end of its call or stops.
Fairness ==
  /\ \A s \in ImageSlots :
       /\ WF_vars(Lapse(s) /\ UNCHANGED <<imageVars, returnVars, sendVars>>)
       /\ WF_vars(TerminalizeStale(s) /\ UNCHANGED <<returnVars, sendVars>>)
       /\ WF_vars(LapseNotice(s) /\ UNCHANGED sendVars)
       /\ WF_vars(ReconcileNotice(s) /\ UNCHANGED sendVars)

Spec == Init /\ [][Next]_vars /\ Fairness

(***************************************************************************)
(* Properties                                                              *)
(***************************************************************************)

\* Nothing is drawn from a brief nobody approved or authorized, no request
\* for an image is completed without its approval, and a group message is
\* announced or sent only when its content was approved and a person gave
\* the final confirmation - whatever the reviews, workbench events, retries
\* and workers do in between.  (An automatic card has its own policy.)
HumanGate ==
  ~Automatic =>
    /\ call # {} => Has("visual", "approved") \/ GenerationAuthorized
    /\ \A s \in ImageSlots : item[s].st = "completed" => Has(s, "approved")
    /\ Has("send", "ready") \/ sends > 0 => Has("send", "confirmed") /\ Has(Carried, "approved")

\* No image is ordered, no card shown and no text sent twice, although
\* workers crash and lapse between a call and its record; what is recorded
\* is what happened (a delivery that may have arrived is never failed, one
\* that did not is never delivered); the action row and the status shown to the
\* requester stand for a decision that was really recorded.
HonestOutcomes ==
  /\ sends <= 1
  /\ Has("send", "sent") => sends = 1
  /\ Has("send", "failed") => sends = 0
  /\ \A s \in ImageSlots :
       /\ made[s] <= 1 /\ cards[s] <= 1
       /\ art[s] # "none" /\ ~Automatic => made[s] = 1
       /\ notice[s] = "delivered" => cards[s] = 1
       /\ notice[s] = "failed" => cards[s] = 0
       /\ action[s] # "none" => Has(s, action[s])
  /\ UserStatus = "awaiting_you" => \E s \in ImageSlots : cards[s] = 1
  /\ UserStatus = "approved" => \E s \in ImageSlots : Has(s, "approved")

\* A worker that dies holding a generation or a delivery does not leave it
\* claimed for ever: the sweep of the next run settles it.
ClaimsSettle ==
  \A s \in ImageSlots : /\ item[s].st = "processing" ~> item[s].st # "processing"
                        /\ notice[s] = "claimed" ~> notice[s] # "claimed"
=============================================================================
