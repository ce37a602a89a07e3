----------------------------- MODULE PosterReturn -----------------------------
(***************************************************************************)
(* Returning a poster to the Feishu conversation it was asked for in: the  *)
(* notification starter and the review callback (poster_notification.rs),  *)
(* the delivery worker (poster_delivery.rs) and the revision request of    *)
(* the intake (operations_intake.rs).                                      *)
(*                                                                         *)
(* nitem   status of the notification's work item, notice that of the      *)
(*         poster_notifications row, attempt that of its delivery attempt; *)
(*         nlate: the five minute claim has lapsed.                        *)
(* kind    what is announced.  wire is how far the (only) delivering       *)
(*         worker of the notice is; cards counts messages Feishu took.     *)
(* action  the poster_review_actions row; clicks are callbacks between the *)
(*         review they record and the row they insert.                     *)
(* revised  how far the revision of the image is: its work item, its row. *)
(***************************************************************************)
EXTENDS HuabaosiImages

VARIABLES nitem, notice, attempt, nlate, kind, wire, cards, action, clicks, revised
noticeVars == <<nitem, notice, attempt, nlate, kind, wire, cards>>
reviewVars == <<action, clicks, revised>>
returnVars == <<noticeVars, reviewVars>>

(***************************************************************************)
(* The notification starter                                                *)
(***************************************************************************)

\* load_candidates: a pending image of a request that awaits review, or a
\* failed request without an image.
Announces(s) ==
  IF item[s].st = "awaiting_review" /\ art[s] = "pending" /\ Has(s, "generated_image_created")
  THEN "image_ready"
  ELSE IF item[s].st = "failed" /\ art[s] = "none"
  THEN IF Has(s, "image_generation_outcome_ambiguous") THEN "generation_ambiguous" ELSE "generation_failed"
  ELSE "none"

\* The work item is created first...
StartNotice(s) ==
  /\ origin = "direct"
  /\ notice[s] = "none"
  /\ nitem[s] = "none"
  /\ Announces(s) # "none"
  /\ kind' = [kind EXCEPT ![s] = Announces(s)]
  /\ nitem' = [nitem EXCEPT ![s] = "queued"]
  /\ UNCHANGED <<itemVars, imageVars, notice, attempt, nlate, wire, cards, reviewVars>>

\* ...and the notification row in a later transaction, or by a later starter
\* if the process stopped in between and the image is still a candidate.
UpsertNotice(s) ==
  /\ notice[s] = "none"
  /\ nitem[s] = "queued"
  /\ Announces(s) = kind[s]
  /\ notice' = [notice EXCEPT ![s] = "pending"]
  /\ UNCHANGED <<itemVars, imageVars, nitem, attempt, nlate, kind, wire, cards, reviewVars>>

(***************************************************************************)
(* The delivery worker                                                     *)
(***************************************************************************)

StaleNotice(s) == notice[s] = "claimed" /\ nlate[s]

LapseNotice(s) ==
  /\ notice[s] = "claimed"
  /\ ~nlate[s]
  /\ nlate' = [nlate EXCEPT ![s] = TRUE]
  /\ UNCHANGED <<itemVars, imageVars, nitem, notice, attempt, kind, wire, cards, reviewVars>>

\* reconcile_one_stale_claim: nobody knows whether the card arrived.
ReconcileNotice(s) ==
  /\ StaleNotice(s)
  /\ notice' = [notice EXCEPT ![s] = "ambiguous"]
  /\ attempt' = [attempt EXCEPT ![s] = "ambiguous"]
  /\ nitem' = [nitem EXCEPT ![s] = "failed"]
  /\ nlate' = [nlate EXCEPT ![s] = FALSE]
  /\ UNCHANGED <<itemVars, imageVars, kind, wire, cards, reviewVars>>

\* candidate_select: an announced image must still be pending.
Deliverable(s) == /\ notice[s] = "pending"
                  /\ nitem[s] = "queued"
                  /\ kind[s] = "image_ready" => art[s] = "pending"

ClaimNotice(s) ==
  /\ ~\E t \in ImageSlots : StaleNotice(t)
  /\ Deliverable(s)
  /\ notice' = [notice EXCEPT ![s] = "claimed"]
  /\ attempt' = [attempt EXCEPT ![s] = "uploading"]
  /\ nitem' = [nitem EXCEPT ![s] = "processing"]
  /\ wire' = [wire EXCEPT ![s] = "uploading"]
  /\ UNCHANGED <<itemVars, imageVars, nlate, kind, cards, reviewVars>>

\* A target outside the reviewed boundary ends the notice instead.
RejectNotice(s) ==
  /\ ~\E t \in ImageSlots : StaleNotice(t)
  /\ Deliverable(s)
  /\ notice' = [notice EXCEPT ![s] = "failed"]
  /\ nitem' = [nitem EXCEPT ![s] = "failed"]
  /\ UNCHANGED <<itemVars, imageVars, attempt, nlate, kind, wire, cards, reviewVars>>

\* load_exact_image, tenant_token, upload_image: nothing is in the chat yet.
Upload(s) ==
  /\ wire[s] = "uploading"
  /\ \E ph \in {"uploaded", "refused"} : wire' = [wire EXCEPT ![s] = ph]
  /\ UNCHANGED <<itemVars, imageVars, nitem, notice, attempt, nlate, kind, cards, reviewVars>>

\* mark_sending compares the attempt and the claim token, not the expiry: a
\* worker that was reconciled meanwhile stops here.
MaySend(s) == attempt[s] = "uploading" /\ notice[s] = "claimed"

MarkSending(s) ==
  /\ wire[s] = "uploaded"
  /\ IF MaySend(s)
     THEN /\ attempt' = [attempt EXCEPT ![s] = "sending"]
          /\ wire' = [wire EXCEPT ![s] = "sending"]
     ELSE /\ wire' = [wire EXCEPT ![s] = "none"]
          /\ UNCHANGED attempt
  /\ UNCHANGED <<itemVars, imageVars, nitem, notice, nlate, kind, cards, reviewVars>>

\* send_conversation_message: taken, refused, or no readable answer.
SendCard(s) ==
  /\ wire[s] = "sending"
  /\ \/ wire' = [wire EXCEPT ![s] = "sent"] /\ cards' = [cards EXCEPT ![s] = @ + 1]
     \/ wire' = [wire EXCEPT ![s] = "refused"] /\ UNCHANGED cards
     \/ /\ wire' = [wire EXCEPT ![s] = "unknown"]
        /\ \E n \in {0, 1} : cards' = [cards EXCEPT ![s] = @ + n]
  /\ UNCHANGED <<itemVars, imageVars, nitem, notice, attempt, nlate, kind, reviewVars>>

\* The outcome is recorded while the notice is still claimed by this worker.
Claimed(s) == notice[s] = "claimed" /\ attempt[s] \in {"uploading", "sending"}

CompleteDelivery(s) ==
  /\ wire[s] = "sent"
  /\ wire' = [wire EXCEPT ![s] = "none"]
  /\ IF Claimed(s) /\ attempt[s] = "sending"
     THEN /\ notice' = [notice EXCEPT ![s] = "delivered"]
          /\ attempt' = [attempt EXCEPT ![s] = "sent"]
          /\ nitem' = [nitem EXCEPT ![s] = "completed"]
     ELSE UNCHANGED <<notice, attempt, nitem>>
  /\ nlate' = [nlate EXCEPT ![s] = FALSE]
  /\ UNCHANGED <<itemVars, imageVars, kind, cards, reviewVars>>

\* Mutant: an unreadable answer counts as not delivered.
FailureStatusMutant(ph) == "failed"

\* fail_delivery: a definite refusal is failed, anything else ambiguous.
FailureStatus(ph) == IF ph = "refused" THEN "failed" ELSE "ambiguous"

FailDelivery(s) ==
  /\ wire[s] \in {"refused", "unknown"}
  /\ wire' = [wire EXCEPT ![s] = "none"]
  /\ IF Claimed(s)
     THEN /\ notice' = [notice EXCEPT ![s] = FailureStatus(wire[s])]
          /\ attempt' = [attempt EXCEPT ![s] = FailureStatus(wire[s])]
          /\ nitem' = [nitem EXCEPT ![s] = "failed"]
     ELSE UNCHANGED <<notice, attempt, nitem>>
  /\ nlate' = [nlate EXCEPT ![s] = FALSE]
  /\ UNCHANGED <<itemVars, imageVars, kind, cards, reviewVars>>

\* run_apply: the claim settles a lapsed one first; a rejected target ends the
\* run, and a claimed notice is delivered and recorded by its outcome.
DeliveryWorker(s) ==
  \/ ReconcileNotice(s) \/ ClaimNotice(s) \/ RejectNotice(s)
  \/ Upload(s) \/ MarkSending(s) \/ SendCard(s)
  \/ CompleteDelivery(s) \/ FailDelivery(s)

CrashDelivery(s) ==
  /\ wire[s] # "none"
  /\ wire' = [wire EXCEPT ![s] = "none"]
  /\ UNCHANGED <<itemVars, imageVars, nitem, notice, attempt, nlate, kind, cards, reviewVars>>

(***************************************************************************)
(* The requester's review                                                  *)
(***************************************************************************)

\* snapshot_workflow_participants: who took part when the workflow started.
Participants == {"requester", "reviewer"}
Actors == Participants \cup {"stranger"}

\* authorize_poster_review_actor: in the conversation, with a role in it.
MayReview(a) == a \in Participants

\* authorize_workflow_mutation, for a session resolved from a receipt of the
\* conversation it claims to speak for.
MayMutate(a) == a \in Participants

\* process_review_callback: the click must belong to a delivered image card;
\* an earlier action wins over another click.
ClickAccepted(s, d) ==
  /\ notice[s] = "delivered"
  /\ kind[s] = "image_ready"
  /\ action[s] = "none"
  /\ art[s] = d \/ Reviewable(s, d, "pending")

Click(s, d) ==
  /\ acts < Budget
  /\ \E a \in Actors : MayReview(a)
  /\ ClickAccepted(s, d)
  /\ IF art[s] = d
     THEN UNCHANGED <<art, item, log>>
     ELSE RecordReview(s, d)
  /\ clicks' = clicks \cup {<<s, d>>}
  /\ acts' = acts + 1
  /\ UNCHANGED <<origin, facts, inbox, ran, snap, imageVars, noticeVars, action, revised>>

\* The action row is inserted by a later statement; the first one stays.
InsertAction(k) ==
  /\ action' = [action EXCEPT ![k[1]] = IF @ = "none" THEN k[2] ELSE @]
  /\ clicks' = clicks \ {k}
  /\ UNCHANGED <<itemVars, imageVars, noticeVars, revised>>

CrashClick(k) ==
  /\ clicks' = clicks \ {k}
  /\ UNCHANGED <<itemVars, imageVars, noticeVars, action, revised>>

(***************************************************************************)
(* The revision                                                            *)
(***************************************************************************)

\* create_revision_request: the delivered image was sent back for changes
\* and its brief is approved.
Revisable == /\ art["image"] = "changes_requested"
             /\ notice["image"] = "delivered"
             /\ art["visual"] = "approved"

\* revision_contenders_share_first_writer_scope: a competing instruction for
\* the same image finds the key taken and changes nothing.
FirstRevision == revised = "none"

\* The work item has one key per revised image, so of several messages the
\* first wins...
ReviseCreate ==
  /\ origin = "direct"
  /\ \E a \in Actors : MayMutate(a)
  /\ Revisable
  /\ FirstRevision
  /\ item' = Created("revision")
  /\ revised' = "item"
  /\ UNCHANGED <<origin, facts, art, log, inbox, ran, acts, snap, imageVars, noticeVars, action, clicks>>

\* ...and the revision row, written later from what that work item carries,
\* answers all of them.
ReviseRecord ==
  /\ revised = "item"
  /\ Revisable
  /\ revised' = "row"
  /\ UNCHANGED <<itemVars, imageVars, noticeVars, action, clicks>>

\* poster_user_status: what the requester is told, in this order.
UserStatus ==
  CASE \E s \in ImageSlots : action[s] = "rejected" -> "abandoned"
    [] \E s \in ImageSlots : action[s] = "approved" -> "approved"
    [] facts = "needs_clarification" -> "needs_input"
    [] art["image"] = "changes_requested" /\ revised # "row" -> "needs_input"
    [] art["revision"] = "changes_requested" -> "needs_input"
    [] \E s \in ImageSlots : kind[s] = "image_ready" /\ notice[s] = "delivered" /\ art[s] = "pending" -> "awaiting_you"
    [] \E s \in Slots : item[s].st = "failed" -> "failed"
    [] \E s \in ImageSlots : item[s].st \in {"queued", "processing"} -> "generating"
    [] OTHER -> "accepted"

ReturnInit ==
  /\ nitem = [s \in ImageSlots |-> "none"]
  /\ notice = [s \in ImageSlots |-> "none"]
  /\ attempt = [s \in ImageSlots |-> "none"]
  /\ nlate = [s \in ImageSlots |-> FALSE]
  /\ kind = [s \in ImageSlots |-> "none"]
  /\ wire = [s \in ImageSlots |-> "none"]
  /\ cards = [s \in ImageSlots |-> 0]
  /\ action = [s \in ImageSlots |-> "none"]
  /\ clicks = {}
  /\ revised = "none"

ReturnNext ==
  \/ \E s \in ImageSlots :
       \/ StartNotice(s) \/ UpsertNotice(s) \/ LapseNotice(s) \/ DeliveryWorker(s) \/ CrashDelivery(s)
       \/ \E d \in Decisions : Click(s, d)
  \/ \E k \in clicks : InsertAction(k) \/ CrashClick(k)
  \/ ReviseCreate \/ ReviseRecord
=============================================================================
