--------------------------- MODULE OperationsItems ---------------------------
(***************************************************************************)
(* The operations control plane of runtime/sidecar/src/operations.rs: work *)
(* items, their artifacts, the human decisions on them and the events that *)
(* record both.  One workflow is modelled; a slot is the role of a work    *)
(* item in it and the artifact of a slot is the one its worker makes.      *)
(*                                                                         *)
(* origin  who asked: "signal" (an activity signal: poster for the group), *)
(*         "direct" (a Feishu conversation: poster back to its requester), *)
(*         "text" (a text announcement), or one of the two automatic       *)
(*         cards, "daily" (case report) and "brief" (morning brief).       *)
(* facts   the poster fact gate of the request.                            *)
(* item    the work_items rows: status, attempts, whether the claim lapsed *)
(* art     review_status of the slot's artifact ("none" before it exists). *)
(* log     the (slot, event) pairs of work_item_events that a later step   *)
(*         reads, or a property speaks of.                                 *)
(* inbox   human workbench events recorded and not yet marked processed;   *)
(* ran     whether the command of the oldest one has been executed.        *)
(* acts    how many human decisions were taken so far (a bound).           *)
(* snap    a workflow sync between its read and its write.                 *)
(***************************************************************************)
EXTENDS Naturals, Sequences, FiniteSets

CONSTANTS Origins,      \* the kinds of request to start from
          MaxActs,      \* bound on human decisions and workbench events
          MaxDirectActs,\* the same, for a direct conversation
          MaxAttempts   \* MAX_ATTEMPTS of the image and send workers

VARIABLES origin, facts, item, art, log, inbox, ran, acts, snap
itemVars == <<origin, facts, item, art, log, inbox, ran, acts, snap>>

Slots == {"root", "evidence", "visual", "image", "revision", "text", "send"}
ImageSlots == {"image", "revision"}
Reviewed == {"visual", "image", "revision", "text"}   \* artifacts people are asked about
Open == {"queued", "processing", "awaiting_review", "awaiting_publish"}
Decisions == {"approved", "rejected", "changes_requested"}

Absent == [st |-> "none", n |-> 0, late |-> FALSE]

Budget == IF origin = "direct" THEN MaxDirectActs ELSE MaxActs

Automatic == origin \in {"daily", "brief"}

Exists(s) == item[s].st # "none"
Has(s, e) == <<s, e>> \in log

\* The work item of s enters status x; a claim, if it had one, is gone.
Move(s, x) == [item EXCEPT ![s].st = x, ![s].late = FALSE]

(***************************************************************************)
(* Capabilities and request policy                                         *)
(***************************************************************************)

\* The registered capability decides who must look at the result before it
\* leaves: only group sends need a final confirmation.
ReviewPolicy(s) ==
  IF s # "send" THEN "before_external_use"
  ELSE IF Automatic THEN "automatic_publish" ELSE "human_final_confirmation"

\* The parent a request of this type hangs below.
Parent(s) == CASE s \in {"evidence", "visual"} -> "root"
               [] s \in ImageSlots -> "visual"
               [] s = "send" -> IF origin = "signal" THEN "root" ELSE "text"
               [] OTHER -> s

\* Mutant: the confirmation is forgotten.
InitialStatusMutant(s) == "queued"

\* initial_status_for: a Feishu request whose facts are incomplete waits for
\* its clarification, a group message for its confirmation.
InitialStatus(s) ==
  IF origin = "direct" /\ facts = "needs_clarification" /\ s \in {"root", "evidence", "visual"}
  THEN "awaiting_review"
  ELSE IF s = "send" THEN "awaiting_publish" ELSE "queued"

\* An image request names the approved brief it is drawn from.
ImageRequestBound(s) == s \in ImageSlots => art["visual"] # "none"

\* validate_high_risk_send: a group message names an approved artifact and
\* an allowlisted group; a direct conversation is never a group send.
HighRiskSendAllowed(s) == s = "send" => origin # "direct"

\* validate_request: type, caller and provider fit the capability.
RequestAllowed(s) ==
  /\ s \in CASE origin = "text" -> {"text", "send"}
             [] Automatic -> {}
             [] OTHER -> {"root", "evidence", "visual", "image", "revision", "send"}
  /\ ImageRequestBound(s)
  /\ HighRiskSendAllowed(s)

\* validate_apply_policy: read outside the transaction that inserts.
ApplyPolicy(s) ==
  CASE s \in ImageSlots -> art["visual"] = "approved"
    [] s = "send" -> art[IF origin = "text" THEN "text" ELSE "image"] = "approved"
    [] OTHER -> TRUE

(***************************************************************************)
(* Creating work items                                                     *)
(***************************************************************************)

\* load_idempotent_work_item_binding: a key in use must be bound to the same
\* request and then yields the row that is there.
KeyFree(s) == ~Exists(s)

\* create_work_item inserts under the request's idempotency key; the loser
\* of a race, and every retry, gets the row that is there.
Created(s) == IF KeyFree(s) THEN [item EXCEPT ![s] = [Absent EXCEPT !.st = InitialStatus(s)]] ELSE item

\* A refused request leaves one denied_by_policy event and no work item.
Denied(s) == /\ log' = log \cup {<<s, "denied_by_policy">>}
             /\ UNCHANGED item

CreateWorkItem(s) ==
  /\ RequestAllowed(s)
  /\ Parent(s) # s => Exists(Parent(s))
  /\ KeyFree(s)
  /\ \/ /\ ApplyPolicy(s)
        /\ item' = Created(s)
        /\ UNCHANGED log
     \/ /\ ~ApplyPolicy(s)
        /\ Denied(s)
  /\ UNCHANGED <<origin, facts, art, inbox, ran, acts, snap>>

\* workflow_work_item_requests: what a new workflow consists of.
WorkflowChildren == {"evidence", "visual"}

\* start_workflow and the intake: the parent first, in its own transaction...
StartParent == /\ origin \in {"signal", "direct"}
               /\ CreateWorkItem("root")

\* ...then each child in another.  What a crash leaves out is supplied by the
\* promotion starter, which looks for parents that miss a child.
MissesChild(s) == s \in WorkflowChildren /\ Exists("root") /\ ~Exists(s)

StartChild(s) == MissesChild(s) /\ CreateWorkItem(s)

\* The image starter: visual completed, its brief approved, no image request.
ImageStartable == /\ item["visual"].st = "completed"
                  /\ art["visual"] = "approved"
                  /\ ~Exists("image")

StartImage == ImageStartable /\ CreateWorkItem("image")

\* The send-request starter: the image request completed, its image approved
\* and the workflow not a direct conversation.
SendStartable == /\ origin = "signal"
                 /\ item["visual"].st = "completed"
                 /\ item["image"].st = "completed"
                 /\ art["image"] = "approved"

StartSend == SendStartable /\ CreateWorkItem("send")

\* A text announcement is submitted for sending by a request of its own.
SubmitTextSend == /\ origin = "text"
                  /\ art["text"] # "none"
                  /\ CreateWorkItem("send")

\* create_text_announcement_artifact: one transaction; a second call keeps
\* the row and the review status of the artifact.
CreateText ==
  /\ origin = "text"
  /\ item' = IF Exists("text") THEN item ELSE Move("text", "awaiting_review")
  /\ art' = [art EXCEPT !["text"] = IF @ = "none" THEN "pending" ELSE @]
  /\ UNCHANGED <<origin, facts, log, inbox, ran, acts, snap>>

(***************************************************************************)
(* Automatic cards                                                         *)
(***************************************************************************)

\* The image file is a JPEG within the reviewed bounds, uploaded within the
\* report's window; ids are found under the idempotency key or derived from
\* it, so a repeated upload names the same artifact.
UploadDaily ==
  /\ origin = "daily"
  /\ log' = log \cup {<<"image", "uploaded">>}
  /\ UNCHANGED <<origin, facts, item, art, inbox, ran, acts, snap>>

UploadBrief ==
  /\ origin = "brief"
  /\ log' = log \cup {<<"image", "uploaded">>}
  /\ UNCHANGED <<origin, facts, item, art, inbox, ran, acts, snap>>

\* The publish request carries the evidence of the upload and is checked
\* against the ids that are persisted.
DailyEvidence == origin = "daily" /\ Has("image", "uploaded")
BriefEvidence == origin = "brief" /\ Has("image", "uploaded")

\* The upsert of the approved artifact leaves an existing row's review alone.
CardImage == [art EXCEPT !["image"] = IF @ = "none" THEN "approved" ELSE @]

\* One transaction: the source item is completed, the image approved, the
\* send request inserted queued (a repeated call does not touch its status)
\* and its send-ready event written once.
PublishCard ==
  /\ item' = [item EXCEPT !["image"].st = IF @ = "none" THEN "completed" ELSE @,
                          !["send"].st = IF @ = "none" THEN "queued" ELSE @]
  /\ art' = CardImage
  /\ log' = log \cup {<<"image", "generated_image_created">>, <<"send", "ready">>}
  /\ UNCHANGED <<origin, facts, inbox, ran, acts, snap>>

\* The daily card's stored file is read again inside the transaction.
PublishDaily == DailyEvidence /\ PublishCard
PublishBrief == BriefEvidence /\ PublishCard

(***************************************************************************)
(* Human decisions                                                         *)
(***************************************************************************)

\* The evidence an approval needs: the creation event and, for an image kept
\* in Feishu, a fresh read of it that matches the locked row.
ApprovalEvidence(s) == Has(s, "generated_image_created")

\* validate_generated_image_approval: only a pending image of a request that
\* awaits review, with its creation event, can be approved.
ImageApprovable(s) ==
  /\ art[s] = "pending"
  /\ item[s].st = "awaiting_review"
  /\ ApprovalEvidence(s)

\* The decision on an artifact, under a lock on it and on its work item.
\* "expected" is the status the caller saw, or "any".
Reviewable(s, d, expected) ==
  /\ art[s] # "none"
  /\ expected # "any" => art[s] = expected
  /\ s \in ImageSlots /\ d = "approved" => ImageApprovable(s)

\* update_work_item_after_review does not look at the item's status.
StatusAfterReview(d) == CASE d = "approved" -> "completed"
                          [] d = "rejected" -> "cancelled"
                          [] OTHER -> "awaiting_review"

\* The review_decision_recorded event names the decision.
RecordReview(s, d) ==
  /\ art' = [art EXCEPT ![s] = d]
  /\ item' = Move(s, StatusAfterReview(d))
  /\ log' = log \cup {<<s, d>>}

Review(s, d) ==
  /\ acts < Budget
  /\ acts' = acts + 1
  /\ Reviewable(s, d, "any")
  /\ RecordReview(s, d)
  /\ UNCHANGED <<origin, facts, inbox, ran, snap>>

\* record_group_message_confirmation: from awaiting_publish only.
Confirmable == item["send"].st = "awaiting_publish"

RecordConfirmation(yes) ==
  /\ item' = Move("send", IF yes THEN "queued" ELSE "cancelled")
  /\ log' = log \cup {<<"send", IF yes THEN "confirmed" ELSE "declined">>}
  /\ UNCHANGED art

Confirm(yes) ==
  /\ acts < Budget
  /\ acts' = acts + 1
  /\ Confirmable
  /\ RecordConfirmation(yes)
  /\ UNCHANGED <<origin, facts, inbox, ran, snap>>

(***************************************************************************)
(* Human workbench events                                                  *)
(***************************************************************************)

WorkbenchEvents ==
  [op : {"review"}, s : Reviewed, d : {"approved", "rejected"}]
    \cup [op : {"confirm", "cancel"}, s : {"send"}, d : {"-"}]
    \cup [op : {"cancel"}, s : ImageSlots, d : {"-"}]
    \cup [op : {"owner", "attachment"}, s : {"send"}, d : {"-"}]

\* record_workbench_event: for a work item that exists; the provider's event
\* id makes a second delivery of the same event a no-op.
RecordEvent(e) ==
  /\ acts < Budget
  /\ Exists(e.s)
  /\ e.op = "review" => art[e.s] # "none"
  /\ inbox = << >>
  /\ inbox' = << e >>
  /\ acts' = acts + 1
  /\ UNCHANGED <<origin, facts, item, art, log, ran, snap>>

\* validate_workbench_status_transition: the only change is a cancellation.
Cancellable(s) == item[s].st \in Open \cup {"failed"}

\* Whether the command of the event passes its policy.
Executable(e) == CASE e.op = "review" -> Reviewable(e.s, e.d, "any")
                   [] e.op = "confirm" -> Confirmable
                   [] e.op = "cancel" -> Cancellable(e.s)
                   [] OTHER -> TRUE

\* A cancellation clears the claim of a worker that may be running.
CancelItem(s) == /\ item' = Move(s, "cancelled")
                 /\ UNCHANGED <<art, log>>

\* A new owner and an attached file (its own pending artifact) touch neither
\* the status nor the artifact of the slot.
ChangeOwner == UNCHANGED <<item, art, log>>
AddAttachment == UNCHANGED <<item, art, log>>

\* The oldest event without a processed marker.
Unprocessed == inbox # << >> /\ ~ran

\* process_workbench_event executes the command in a transaction of its own.
ExecuteEvent ==
  /\ Unprocessed
  /\ LET e == Head(inbox)
     IN /\ Executable(e)
        /\ CASE e.op = "review" -> RecordReview(e.s, e.d)
             [] e.op = "confirm" -> RecordConfirmation(TRUE)
             [] e.op = "cancel" -> CancelItem(e.s)
             [] e.op = "owner" -> ChangeOwner
             [] OTHER -> AddAttachment
  /\ ran' = TRUE
  /\ UNCHANGED <<origin, facts, inbox, acts, snap>>

\* ...and marks the event processed in a later one.
MarkProcessed ==
  /\ inbox # << >>
  /\ ran
  /\ inbox' = Tail(inbox)
  /\ ran' = FALSE
  /\ UNCHANGED <<origin, facts, item, art, log, acts, snap>>

\* A crash in between: the command will be executed again.
CrashBeforeMark ==
  /\ ran
  /\ ran' = FALSE
  /\ UNCHANGED <<origin, facts, item, art, log, inbox, acts, snap>>

\* A refused status change carries its source event id and leaves the queue;
\* a refused review or confirmation does not, and is tried again.
DenyEvent ==
  /\ Unprocessed
  /\ ~Executable(Head(inbox))
  /\ Head(inbox).op = "cancel"
  /\ inbox' = Tail(inbox)
  /\ UNCHANGED <<origin, facts, item, art, log, ran, acts, snap>>

(***************************************************************************)
(* Workflow status                                                         *)
(***************************************************************************)

Descendants == {s \in {"evidence", "visual", "image", "revision", "send"} : Exists(s)}

\* blocking_reason_for
Blocked(s) == \/ item[s].st \in {"failed", "queued", "processing", "awaiting_review", "awaiting_publish"}
              \/ art[s] = "pending"

\* workflow_aggregate_status over the tree that was read, the root included.
Aggregate ==
  IF \E s \in Descendants : item[s].st = "failed" THEN "failed"
  ELSE IF \E s \in Descendants : item[s].st = "cancelled" THEN "cancelled"
  ELSE IF \E s \in Descendants \cup {"root"} : Blocked(s) THEN "processing"
  ELSE "completed"

\* sync_workflow_status reads the tree outside its transaction...
SyncRead ==
  /\ origin = "signal"
  /\ Descendants # {}
  /\ snap = "none"
  /\ snap' = Aggregate
  /\ UNCHANGED <<origin, facts, item, art, log, inbox, ran, acts>>

\* ...and overwrites the root's status with what it read.
SyncWrite ==
  /\ snap # "none"
  /\ snap' = "none"
  /\ item' = Move("root", snap)
  /\ UNCHANGED <<origin, facts, art, log, inbox, ran, acts>>

\* assess_activity_facts: what the message and the activity record it names
\* leave open; other origins have no fact gate.
FactAssessments(o) == {"complete"} \cup (IF o = "direct" THEN {"needs_clarification"} ELSE {})

ItemsInit ==
  /\ origin \in Origins
  /\ facts \in FactAssessments(origin)
  /\ item = [s \in Slots |-> Absent]
  /\ art = [s \in Slots |-> "none"]
  /\ log = {}
  /\ inbox = << >>
  /\ ran = FALSE
  /\ acts = 0
  /\ snap = "none"

ItemsNext ==
  \/ StartParent \/ StartImage \/ StartSend \/ SubmitTextSend \/ CreateText
  \/ UploadDaily \/ UploadBrief \/ PublishDaily \/ PublishBrief
  \/ \E s \in Slots : StartChild(s)
  \/ \E s \in Reviewed, d \in Decisions : Review(s, d)
  \/ \E yes \in BOOLEAN : Confirm(yes)
  \/ \E e \in WorkbenchEvents : RecordEvent(e)
  \/ ExecuteEvent \/ MarkProcessed \/ CrashBeforeMark \/ DenyEvent
  \/ SyncRead \/ SyncWrite
=============================================================================
