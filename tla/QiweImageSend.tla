--------------------------- MODULE QiweImageSend ---------------------------
(***************************************************************************)
(* The durable state machine between a reviewed group_message_request and  *)
(* the QiWe asynchronous image upload callback                             *)
(* (runtime/sidecar/src/qiwe_image_send_state.rs, driven by the upload     *)
(* worker and the callback processor of qiwe_image_send.rs).               *)
(*                                                                         *)
(* Postgres holds the work items (wi), the upload attempts (att is their   *)
(* status, rid and payload their correlation columns), the review decision *)
(* (approved) and the intro marker event (introMarked).  Upload workers    *)
(* and callback handlers are separate one-shot processes; they may die     *)
(* between any two transactions.  accepted, img, delivered and intro are   *)
(* what has happened outside: uploads the provider holds, sendImage        *)
(* requests that may have left, images that reached the group, and intro   *)
(* texts that may have left.                                               *)
(***************************************************************************)
EXTENDS Integers, FiniteSets

CONSTANTS
    WorkItems,      \* group_message_request rows
    MaxAttempts,    \* bound: upload attempts made for one work item
    Workers,        \* run-qiwe-image-send-worker processes
    Handlers,       \* process-qiwe-image-send-callback processes
    Payloads,       \* callback payloads the provider may deliver
    Matching,       \* the payloads whose file identity matches the artifact
    IntroItems,     \* items with an intro text, intro flag on
    Allowed,        \* items inside the worker's group and host allowlists
    NoItem,         \* value of an idle process' work item
    NoPayload       \* SQL NULL for callback_payload_sha256

ASSUME QiweConstants ==
    /\ MaxAttempts \in Nat \ {0}
    /\ Matching \subseteq Payloads
    /\ IntroItems \subseteq WorkItems
    /\ Allowed \subseteq WorkItems
    /\ NoItem \notin WorkItems
    /\ NoPayload \notin Payloads

VARIABLES wi, att, rid, payload, approved, introMarked,
          worker, handler,
          accepted, img, delivered, intro

rows == <<wi, att, rid, payload>>
review == <<approved, introMarked>>
outside == <<accepted, img, delivered, intro>>

vars == <<rows, review, worker, handler, outside>>

AttemptNo == 1..MaxAttempts

(* A claim token is a fresh UUID written with exactly one attempt row, so  *)
(* the attempt's number stands for it.  LegacyClaim is a token of an older *)
(* release that wrote no attempt row.                                      *)
NoClaim == 0
LegacyClaim == -1

ActiveStatus == {"uploading", "awaiting_callback", "sending"}
ClosedStatus == {"sent", "failed", "ambiguous", "expired"}

WorkItem == [status : {"queued", "processing", "completed", "failed"},
             claimedBy : {NoClaim, LegacyClaim} \cup AttemptNo,
             claim : {"none", "live", "expired"}]

AttemptStatus == {"none"} \cup ActiveStatus \cup ClosedStatus

WorkerPc == {"idle", "prepare", "upload", "accepted", "rejected", "unknown"}
HandlerPc == {"idle", "probe", "intro", "mark", "image",
              "sent", "reject", "ambiguous"}

Process(pcs) == [pc : pcs, item : WorkItems \cup {NoItem}, no : 0..MaxAttempts]

Idle == [pc |-> "idle", item |-> NoItem, no |-> 0]

Queued == [status |-> "queued", claimedBy |-> NoClaim, claim |-> "none"]
Failed == [status |-> "failed", claimedBy |-> NoClaim, claim |-> "none"]
Completed == [status |-> "completed", claimedBy |-> NoClaim, claim |-> "none"]
Claimed(n) == [status |-> "processing", claimedBy |-> n, claim |-> "live"]

\* A work item is queued and send-ready, or left over from a claim that an
\* older release made without an attempt row.
Init ==
    /\ wi \in [WorkItems -> {Queued, Claimed(LegacyClaim)}]
    /\ att = [w \in WorkItems |-> [n \in AttemptNo |-> "none"]]
    /\ rid = [w \in WorkItems |-> [n \in AttemptNo |-> FALSE]]
    /\ payload = [w \in WorkItems |-> [n \in AttemptNo |-> NoPayload]]
    /\ approved = [w \in WorkItems |-> TRUE]
    /\ introMarked = [w \in WorkItems |-> FALSE]
    /\ worker = [u \in Workers |-> Idle]
    /\ handler = [h \in Handlers |-> Idle]
    /\ accepted = [w \in WorkItems |-> {}]
    /\ img = [w \in WorkItems |-> 0]
    /\ delivered = [w \in WorkItems |-> 0]
    /\ intro = [w \in WorkItems |-> 0]

-----------------------------------------------------------------------------
(* The row locks.                                                          *)

\* The claimable source fragments: the artifact of w is still approved, its
\* source request completed, under the review policy of its workflow.
Reviewed(w) == approved[w]

\* lock_current_claim: the upload claim and its reviewed facts still hold.
LockCurrentClaim(w, n) ==
    /\ wi[w] = Claimed(n)
    /\ Reviewed(w)

\* lock_callback_policy: as above, but whether the claim has expired is
\* returned to the caller instead of being required.
LockCallbackPolicy(w, n) ==
    /\ wi[w].status = "processing"
    /\ wi[w].claimedBy = n
    /\ Reviewed(w)

\* Mutant: the final write only compares the claim, not the attempt's status.
LockSendingClaimMutant(w, n) ==
    att[w][n] \in {"sending", "ambiguous"}

\* lock_sending_claim: the token that opened the gate still owns it.  There
\* is no expiry check and no review check.
LockSendingClaim(w, n) ==
    /\ att[w][n] = "sending"
    /\ wi[w].status = "processing"
    /\ wi[w].claimedBy = n

-----------------------------------------------------------------------------
(* claim_ready_work_item: one transaction that settles at most one stale   *)
(* row of each kind and then claims at most one queued item.               *)

\* The claim of w has expired in `processing`.
Stale(w) == wi[w].status = "processing" /\ wi[w].claim = "expired"

\* Which of the four reconciliation queries sees the stale item.
StaleKind(w) ==
    IF wi[w].claimedBy = LegacyClaim
    THEN "unrecorded"
    ELSE att[w][wi[w].claimedBy]

\* Mutants: a stale `sending`, or a stale `uploading`, is requeued as well.
SettledItemMutantSending(w) ==
    IF StaleKind(w) \in {"awaiting_callback", "sending"} THEN Queued ELSE Failed

SettledItemMutantUploading(w) ==
    IF StaleKind(w) \in {"awaiting_callback", "uploading"} THEN Queued ELSE Failed

\* Only an attempt that still awaits its callback is requeued.
SettledItem(w) == IF StaleKind(w) = "awaiting_callback" THEN Queued ELSE Failed

\* Mutants: a status the schema does not know; a definite denial for a send
\* of unknown outcome.
SettledStatusMutantType(w) ==
    IF StaleKind(w) = "awaiting_callback" THEN "timeout" ELSE "ambiguous"

SettledStatusMutantDenied(w) ==
    IF StaleKind(w) = "awaiting_callback" THEN "expired" ELSE "failed"

SettledStatus(w) ==
    IF StaleKind(w) = "awaiting_callback" THEN "expired" ELSE "ambiguous"

\* The work items and attempts after the stale items R have been settled.
ItemAfter(R, w) == IF w \in R THEN SettledItem(w) ELSE wi[w]

\* Mutant: the reconciliation of a stale `sending` fails the work item only.
AttemptAfterMutant(R, w, n) ==
    IF w \in R /\ wi[w].claimedBy = n /\ StaleKind(w) # "sending"
    THEN SettledStatus(w)
    ELSE att[w][n]

AttemptAfter(R, w, n) ==
    IF w \in R /\ wi[w].claimedBy = n
    THEN SettledStatus(w)
    ELSE att[w][n]

\* Mutant: stale `uploading` attempts are never looked for.
ReconcileSetMutant(R, S) ==
    /\ R \subseteq {w \in S : Stale(w) /\ StaleKind(w) # "uploading"}
    /\ \A v, w \in R : StaleKind(v) = StaleKind(w) => v = w
    /\ \A v \in S : Stale(v) /\ StaleKind(v) # "uploading" =>
          \E w \in R : StaleKind(v) = StaleKind(w)

\* The four queries act on rows in different states, so their order does not
\* matter; each takes one unlocked row when there is one.
ReconcileSet(R, S) ==
    /\ R \subseteq {w \in S : Stale(w)}
    /\ \A v, w \in R : StaleKind(v) = StaleKind(w) => v = w
    /\ \A v \in S : Stale(v) => \E w \in R : StaleKind(v) = StaleKind(w)

\* The claimable request query, evaluated after the reconciliations.
Claimable(R, w) ==
    /\ ItemAfter(R, w).status = "queued"
    /\ Reviewed(w)
    /\ \A n \in AttemptNo :
          AttemptAfter(R, w, n) \notin ActiveStatus \cup {"sent"}
    /\ \E n \in AttemptNo : att[w][n] = "none"

\* max(attempt_number) + 1
NextAttempt(w, n) ==
    \A k \in AttemptNo : att[w][k] # "none" <=> k < n

\* No request is claimable: the reconciliations alone commit.
CommitReconciliation(S, R) ==
    /\ R # {}
    /\ \A w \in S : ~Claimable(R, w)
    /\ wi' = [w \in WorkItems |-> ItemAfter(R, w)]
    /\ att' = [w \in WorkItems |->
                  [n \in AttemptNo |-> AttemptAfter(R, w, n)]]
    /\ UNCHANGED worker

\* Request c is claimed and its `uploading` attempt recorded before any I/O.
\* A request outside the allowlists fails validate_claim_boundary, which
\* rolls the whole transaction back, the reconciliations included.
CommitClaim(u, S, R) ==
    \E c \in S, n \in AttemptNo :
       /\ Claimable(R, c)
       /\ c \in Allowed
       /\ NextAttempt(c, n)
       /\ wi' = [w \in WorkItems |->
                    IF w = c THEN Claimed(n) ELSE ItemAfter(R, w)]
       /\ att' = [w \in WorkItems |-> [k \in AttemptNo |->
                     IF w = c /\ k = n
                     THEN "uploading"
                     ELSE AttemptAfter(R, w, k)]]
       /\ worker' = [worker EXCEPT ![u] =
                        [pc |-> "prepare", item |-> c, no |-> n]]

\* The scan of worker u over the items S: all items or the one it was asked
\* for, without the rows that concurrent transactions hold locked.
ClaimReadyWorkItem(u, S) ==
    /\ worker[u].pc = "idle"
    /\ \E R \in SUBSET S :
          /\ ReconcileSet(R, S)
          /\ CommitReconciliation(S, R) \/ CommitClaim(u, S, R)
    /\ UNCHANGED <<rid, payload, review, handler, outside>>

-----------------------------------------------------------------------------
(* The rest of the upload worker.                                          *)

\* prepare_feishu_delivery_bytes succeeds, is not needed, or fails.
PrepareBytes(u) ==
    /\ worker[u].pc = "prepare"
    /\ \E r \in {"upload", "unknown"} : worker' = [worker EXCEPT ![u].pc = r]
    /\ UNCHANGED <<rows, review, handler, outside>>

\* The upload request: accepted with a request id; rejected before anything
\* left; or unknown, in which case the provider may hold the upload.
RequestUpload(u) ==
    LET w == worker[u].item
        n == worker[u].no
    IN  /\ worker[u].pc = "upload"
        /\ \E r \in {"accepted", "rejected", "unknown"},
              held \in BOOLEAN :
              /\ r = "accepted" => held
              /\ r = "rejected" => ~held
              /\ worker' = [worker EXCEPT ![u].pc = r]
              /\ accepted' = IF held
                             THEN [accepted EXCEPT ![w] = @ \cup {n}]
                             ELSE accepted
        /\ UNCHANGED <<rows, review, handler, img, delivered, intro>>

\* record_upload_acceptance.  On an error, a commit of unknown outcome
\* included, the worker goes on to record an unknown outcome.
RecordUploadAcceptance(u) ==
    LET w == worker[u].item
        n == worker[u].no
    IN  /\ worker[u].pc = "accepted"
        /\ \/ /\ LockCurrentClaim(w, n)
              /\ att[w][n] = "uploading"
              /\ att' = [att EXCEPT ![w][n] = "awaiting_callback"]
              /\ rid' = [rid EXCEPT ![w][n] = TRUE]
              /\ \E p \in {Idle, [worker[u] EXCEPT !.pc = "unknown"]} :
                    worker' = [worker EXCEPT ![u] = p]
           \/ /\ worker' = [worker EXCEPT ![u].pc = "unknown"]
              /\ UNCHANGED <<att, rid>>
        /\ UNCHANGED <<wi, payload, review, handler, outside>>

\* Mutant: the failure is written to the work item only.
RecordUploadFailureMutant(u) ==
    LET w == worker[u].item
        n == worker[u].no
    IN  /\ worker[u].pc \in {"rejected", "unknown"}
        /\ worker' = [worker EXCEPT ![u] = Idle]
        /\ wi' = IF LockCurrentClaim(w, n) /\ att[w][n] = "uploading"
                 THEN [wi EXCEPT ![w] = Failed]
                 ELSE wi
        /\ UNCHANGED <<att, rid, payload, review, handler, outside>>

\* record_upload_failure
RecordUploadFailure(u) ==
    LET w == worker[u].item
        n == worker[u].no
    IN  /\ worker[u].pc \in {"rejected", "unknown"}
        /\ worker' = [worker EXCEPT ![u] = Idle]
        /\ IF LockCurrentClaim(w, n) /\ att[w][n] = "uploading"
           THEN /\ att' = [att EXCEPT ![w][n] =
                              IF worker[u].pc = "rejected"
                              THEN "failed" ELSE "ambiguous"]
                /\ wi' = [wi EXCEPT ![w] = Failed]
           ELSE UNCHANGED <<wi, att>>
        /\ UNCHANGED <<rid, payload, review, handler, outside>>

\* The process dies, or a database error makes it exit.
WorkerExit(u) ==
    /\ worker[u].pc # "idle"
    /\ worker' = [worker EXCEPT ![u] = Idle]
    /\ UNCHANGED <<rows, review, handler, outside>>

-----------------------------------------------------------------------------
(* The callback handler.  The provider may deliver a callback for an       *)
(* upload it holds at any time and any number of times; the outcomes that  *)
(* change nothing (unknown correlation, duplicate, mismatch) are stutters. *)

\* Mutant: a duplicate callback is let through while the attempt is sending.
CallbackMutant(h, w, n, p) ==
    /\ handler[h].pc = "idle"
    /\ n \in accepted[w]
    /\ rid[w][n]
    /\ att[w][n] \in {"awaiting_callback", "sending"}
    /\ LockCallbackPolicy(w, n)
    /\ p \in Matching

Callback(h, w, n, p) ==
    /\ handler[h].pc = "idle"
    /\ n \in accepted[w]
    /\ rid[w][n]
    /\ att[w][n] = "awaiting_callback"
    /\ LockCallbackPolicy(w, n)
    /\ p \in Matching

\* claim_callback_for_send, claim current: the send gate opens.
OpenSendGate(h, w, n, p) ==
    /\ Callback(h, w, n, p)
    /\ wi[w].claim = "live"
    /\ att' = [att EXCEPT ![w][n] = "sending"]
    /\ payload' = [payload EXCEPT ![w][n] = p]
    /\ wi' = [wi EXCEPT ![w] = Claimed(n)]
    /\ handler' = [handler EXCEPT ![h] =
                      [pc |-> IF w \in IntroItems THEN "probe" ELSE "image",
                       item |-> w, no |-> n]]
    /\ UNCHANGED <<rid, review, worker, outside>>

\* claim_callback_for_send, claim expired: the attempt closes, the item is
\* requeued and the handler is done.
ExpireLateCallback(h, w, n, p) ==
    /\ Callback(h, w, n, p)
    /\ wi[w].claim = "expired"
    /\ att' = [att EXCEPT ![w][n] = "expired"]
    /\ payload' = [payload EXCEPT ![w][n] = p]
    /\ wi' = [wi EXCEPT ![w] = Queued]
    /\ UNCHANGED <<rid, review, worker, handler, outside>>

\* intro_already_sent
ProbeIntro(h) ==
    /\ handler[h].pc = "probe"
    /\ handler' = [handler EXCEPT ![h].pc =
                      IF introMarked[handler[h].item] THEN "image" ELSE "intro"]
    /\ UNCHANGED <<rows, review, worker, outside>>

\* The intro text.  Anything but a confirmation counts as a rejection.
SendIntro(h) ==
    LET w == handler[h].item
    IN  /\ handler[h].pc = "intro"
        /\ \E r \in {"mark", "reject"}, k \in 0..1 :
              /\ r = "mark" => k = 1
              /\ handler' = [handler EXCEPT ![h].pc = r]
              /\ intro' = [intro EXCEPT ![w] = @ + k]
        /\ UNCHANGED <<rows, review, worker, accepted, img, delivered>>

\* Mutant: a lost gate is ignored and the image follows anyway.
MarkIntroSentMutant(h) ==
    LET w == handler[h].item
        n == handler[h].no
    IN  /\ handler[h].pc = "mark"
        /\ introMarked' = [introMarked EXCEPT ![w] = LockSendingClaim(w, n)]
        /\ handler' = [handler EXCEPT ![h].pc = "image"]
        /\ UNCHANGED <<rows, approved, worker, outside>>

\* mark_intro_sent; when the gate is no longer owned the process exits.
MarkIntroSent(h) ==
    LET w == handler[h].item
        n == handler[h].no
    IN  /\ handler[h].pc = "mark"
        /\ IF LockSendingClaim(w, n)
           THEN /\ introMarked' = [introMarked EXCEPT ![w] = TRUE]
                /\ handler' = [handler EXCEPT ![h].pc = "image"]
           ELSE /\ handler' = [handler EXCEPT ![h] = Idle]
                /\ UNCHANGED introMarked
        /\ UNCHANGED <<rows, approved, worker, outside>>

\* sendImage: confirmed; not sent (request not built, or it never left); or
\* ambiguous, in which case it may have left and may have been delivered.
SendImage(h) ==
    LET w == handler[h].item
    IN  /\ handler[h].pc = "image"
        /\ \E r \in {"sent", "reject", "ambiguous"}, k, d \in 0..1 :
              /\ d <= k
              /\ r = "sent" => d = 1
              /\ r = "reject" => k = 0
              /\ handler' = [handler EXCEPT ![h].pc = r]
              /\ img' = [img EXCEPT ![w] = @ + k]
              /\ delivered' = [delivered EXCEPT ![w] = @ + d]
        /\ UNCHANGED <<rows, review, worker, accepted, intro>>

\* record_send_success and record_send_failure: the attempt gets status s
\* and the work item v, if the gate is still owned by this claim.
RecordSend(h, s, v) ==
    LET w == handler[h].item
        n == handler[h].no
    IN  /\ handler' = [handler EXCEPT ![h] = Idle]
        /\ IF LockSendingClaim(w, n)
           THEN /\ att' = [att EXCEPT ![w][n] = s]
                /\ wi' = [wi EXCEPT ![w] = v]
           ELSE UNCHANGED <<wi, att>>
        /\ UNCHANGED <<rid, payload, review, worker, outside>>

RecordSendSuccess(h) == handler[h].pc = "sent" /\ RecordSend(h, "sent", Completed)

\* Mutants: an ambiguous send is recorded as a denial; a rejected send is
\* handed back to the queue.
RecordSendFailureMutantDenied(h) ==
    handler[h].pc \in {"reject", "ambiguous"} /\ RecordSend(h, "failed", Failed)

RecordSendFailureMutantRequeue(h) ==
    \/ handler[h].pc = "reject" /\ RecordSend(h, "failed", Queued)
    \/ handler[h].pc = "ambiguous" /\ RecordSend(h, "ambiguous", Failed)

RecordSendFailure(h) ==
    \/ handler[h].pc = "reject" /\ RecordSend(h, "failed", Failed)
    \/ handler[h].pc = "ambiguous" /\ RecordSend(h, "ambiguous", Failed)

\* The process dies, is killed by the callback bridge's timeout, or exits on
\* a database error.
HandlerExit(h) ==
    /\ handler[h].pc # "idle"
    /\ handler' = [handler EXCEPT ![h] = Idle]
    /\ UNCHANGED <<rows, review, worker, outside>>

-----------------------------------------------------------------------------
(* The environment.                                                        *)

\* claim_expires_at passes.
ClaimExpires(w) ==
    /\ wi[w].claim = "live"
    /\ wi' = [wi EXCEPT ![w].claim = "expired"]
    /\ UNCHANGED <<att, rid, payload, review, worker, handler, outside>>

\* A human changes the artifact's review decision.
ReviewArtifact(w) ==
    /\ approved' = [approved EXCEPT ![w] = ~@]
    /\ UNCHANGED <<rows, introMarked, worker, handler, outside>>

\* run_upload_worker, and run_callback_processor below: a disabled worker and
\* a dry run only preview, an enabled one does one claim and what follows.
Scan(u) ==
    \E S \in SUBSET WorkItems : ClaimReadyWorkItem(u, S)

WorkerStep(u) ==
    \/ PrepareBytes(u)
    \/ RequestUpload(u)
    \/ RecordUploadAcceptance(u)
    \/ RecordUploadFailure(u)

HandlerStep(h) ==
    \/ ProbeIntro(h)
    \/ SendIntro(h)
    \/ MarkIntroSent(h)
    \/ SendImage(h)
    \/ RecordSendSuccess(h)
    \/ RecordSendFailure(h)

HandlerClaim(h) ==
    \E w \in WorkItems, n \in AttemptNo, p \in Payloads :
       OpenSendGate(h, w, n, p) \/ ExpireLateCallback(h, w, n, p)

Next ==
    \/ \E u \in Workers : Scan(u) \/ WorkerStep(u) \/ WorkerExit(u)
    \/ \E h \in Handlers : HandlerClaim(h) \/ HandlerStep(h) \/ HandlerExit(h)
    \/ \E w \in WorkItems : ClaimExpires(w) \/ ReviewArtifact(w)

Spec == Init /\ [][Next]_vars

(* Time passes, the timer keeps starting an unrestricted scan that finds   *)
(* no row locked, and a process that runs goes on or exits.  Callbacks are *)
(* never promised, and neither is a review decision.                       *)
Fairness ==
    /\ \A w \in WorkItems : WF_vars(ClaimExpires(w))
    /\ \A u \in Workers :
          /\ WF_vars(ClaimReadyWorkItem(u, WorkItems))
          /\ WF_vars(WorkerStep(u) \/ WorkerExit(u))
    /\ \A h \in Handlers : WF_vars(HandlerStep(h) \/ HandlerExit(h))

FairSpec == Spec /\ Fairness

-----------------------------------------------------------------------------
(* Properties.                                                             *)

TypeOK ==
    /\ wi \in [WorkItems -> WorkItem]
    /\ att \in [WorkItems -> [AttemptNo -> AttemptStatus]]
    /\ rid \in [WorkItems -> [AttemptNo -> BOOLEAN]]
    /\ payload \in [WorkItems -> [AttemptNo -> Payloads \cup {NoPayload}]]
    /\ approved \in [WorkItems -> BOOLEAN]
    /\ introMarked \in [WorkItems -> BOOLEAN]
    /\ worker \in [Workers -> Process(WorkerPc)]
    /\ handler \in [Handlers -> Process(HandlerPc)]
    /\ accepted \in [WorkItems -> SUBSET AttemptNo]
    /\ img \in [WorkItems -> Nat]
    /\ delivered \in [WorkItems -> Nat]
    /\ intro \in [WorkItems -> Nat]

\* `sending` is an at-most-once gate: over all attempts, crashes, requeues,
\* duplicate and late callbacks of a work item, at most one sendImage request
\* and at most one intro text ever leave for its group.
AtMostOnceImage ==
    \A w \in WorkItems : img[w] <= 1 /\ intro[w] <= 1

\* What the attempts record about the image is true of the group: `sent` means
\* the image arrived, and an image that arrived is never recorded as failed,
\* expired or not yet sent.
OutcomeHonest ==
    \A w \in WorkItems :
       /\ \A n \in AttemptNo :
             att[w][n] = "sent" => delivered[w] = 1
       /\ delivered[w] > 0 =>
             \E n \in AttemptNo :
                att[w][n] \in {"sending", "sent", "ambiguous"}

\* A queued item may be sent by a new attempt, so nothing of it may have left
\* before and no surviving handler may still be about to send it.
QueuedIsClean ==
    \A w \in WorkItems : wi[w].status = "queued" =>
       /\ img[w] = 0 /\ intro[w] = 0
       /\ \A h \in Handlers : handler[h].item # w

\* No attempt is stranded: an active attempt and the processing claim of its
\* work item always point at each other, so the scan can find both.
ActiveOwned ==
    \A w \in WorkItems, n \in AttemptNo :
       att[w][n] \in ActiveStatus <=>
          wi[w].status = "processing" /\ wi[w].claimedBy = n

\* AgentOS uploads again only when the earlier upload is accounted for: every
\* earlier attempt was accepted, has its request id on record and expired.
RetryOnlyKnownUpload ==
    \A w \in WorkItems, m, n \in AttemptNo :
       m < n /\ att[w][n] # "none" =>
          att[w][m] = "expired" /\ rid[w][m]

\* An intro item never gets a bare image: the image leaves only after the
\* intro left and its marker was committed.
IntroBeforeImage ==
    \A w \in IntroItems :
       img[w] > 0 => introMarked[w] /\ intro[w] = 1

\* A closed attempt and a finished work item are final: no late handler, stale
\* worker or scan rewrites an outcome once it is recorded.
OutcomesAreFinal ==
    [][\A w \in WorkItems :
          /\ wi[w].status \in {"completed", "failed"} => wi'[w] = wi[w]
          /\ \A n \in AttemptNo :
                att[w][n] \in ClosedStatus => att'[w][n] = att[w][n]]_vars

\* Every claim is let go: a processing item does not stay in processing, also
\* when its worker or handler died and no callback ever arrives.
ProcessingResolves ==
    \A w \in WorkItems :
       wi[w].status = "processing" ~> wi[w].status # "processing"

\* A sending attempt whose claim expired does not stay that way: the guarded
\* claim scan reconciles it, unless its handler settles it first.
StaleSendingReconciled ==
    \A w \in WorkItems :
       (Stale(w) /\ StaleKind(w) = "sending") ~>
          ~(Stale(w) /\ StaleKind(w) = "sending")

(* The promise the component makes to the rest of the system.              *)
GateOf(w) ==
    LET has(S) == \E n \in AttemptNo : att[w][n] \in S
    IN  [phase |-> IF has({"sending"}) THEN "open"
                   ELSE IF has({"sent"}) THEN "sent"
                   ELSE IF has({"failed"}) THEN "denied"
                   ELSE IF wi[w].status = "failed" THEN "unknown"
                   ELSE "closed",
         gate |-> \E n \in AttemptNo :
                     /\ payload[w][n] # NoPayload
                     /\ att[w][n] # "expired",
         calls |-> img[w],
         effect |-> delivered[w]]

Gate == INSTANCE OnceGate
            WITH Jobs <- WorkItems, job <- [w \in WorkItems |-> GateOf(w)]

\* The image send implements the abstract once-only gate.
ImplementsOnceGate == Gate!Spec

=============================================================================
