---------------------------- MODULE HuabaosiImages ----------------------------
(***************************************************************************)
(* The workers that turn a workflow's requests into artifacts: Wenyuange's *)
(* evidence worker (evidence.rs), the collaboration worker that drafts the *)
(* poster brief (collaboration.rs), and Huabaosi's image generation worker     *)
(* (image_generation.rs).                                                  *)
(*                                                                         *)
(* call    generation calls in flight: slot, claim token (the attempt that *)
(*         claimed) and how far the call is.  A crashed worker's call just *)
(*         disappears.                                                     *)
(* made    image requests that were answered with an image or by silence.  *)
(***************************************************************************)
EXTENDS OperationsItems

VARIABLES call, made
imageVars == <<call, made>>

(***************************************************************************)
(* Evidence and the poster brief                                           *)
(***************************************************************************)

\* claim_work_item of the evidence worker, inside its one transaction.
EvidenceClaimable == item["evidence"].st = "queued"

\* load_source_messages: the signal's own messages, else a keyword window.
Sources == {"signal_messages", "keyword_window", "none"}

\* A summary that needs no review, and the request is completed.
EvidenceFound ==
  /\ art' = [art EXCEPT !["evidence"] = "not_required"]
  /\ item' = Move("evidence", "completed")

\* The request does not validate or no source message is in reach.
EvidenceFails ==
  /\ item' = Move("evidence", "failed")
  /\ UNCHANGED art

RunEvidence ==
  /\ EvidenceClaimable
  /\ \E source \in Sources, valid \in BOOLEAN :
       IF valid /\ source # "none" THEN EvidenceFound ELSE EvidenceFails
  /\ UNCHANGED <<origin, facts, log, inbox, ran, acts, snap>>

\* load_evidence_context: the summary of the completed evidence request.
EvidenceReady == item["evidence"].st = "completed" /\ art["evidence"] = "not_required"

\* The fact gate: a trusted Feishu request with complete facts authorizes
\* its own generation; nothing else does.
GenerationAuthorized == origin = "direct" /\ facts = "complete"

\* claim_work_item of the collaboration worker
BriefClaimable == item["visual"].st = "queued"

\* upsert_artifact keeps a review that exists; authorization only lifts
\* pending to approved.
BriefReview == IF GenerationAuthorized THEN "approved"
               ELSE IF art["visual"] = "none" THEN "pending" ELSE art["visual"]

\* One transaction: claim, evidence read again, brief, status.  Without the
\* evidence the claim is released and the item stays queued.
DraftBrief ==
  /\ BriefClaimable
  /\ EvidenceReady
  /\ art' = [art EXCEPT !["visual"] = BriefReview]
  /\ item' = Move("visual", IF GenerationAuthorized THEN "completed" ELSE "awaiting_review")
  /\ UNCHANGED <<origin, facts, log, inbox, ran, acts, snap>>

\* A request that does not validate fails.
BriefFails ==
  /\ BriefClaimable
  /\ EvidenceReady
  /\ item' = Move("visual", "failed")
  /\ UNCHANGED <<origin, facts, art, log, inbox, ran, acts, snap>>

(***************************************************************************)
(* Image generation                                                        *)
(***************************************************************************)

\* Mutant: the sweep skips requests without attempts left.
StaleMutant(s) == item[s].st = "processing" /\ item[s].late /\ item[s].n < MaxAttempts

Stale(s) == item[s].st = "processing" /\ item[s].late

\* Ten minutes pass: the claim is no longer current.
Lapse(s) ==
  /\ item[s].st = "processing"
  /\ ~item[s].late
  /\ item' = [item EXCEPT ![s].late = TRUE]
  /\ UNCHANGED <<origin, facts, art, log, inbox, ran, acts, snap>>

\* Before it claims anything a worker terminalizes one lapsed claim, whose
\* outcome nobody knows.
TerminalizeStale(s) ==
  /\ Stale(s)
  /\ item' = Move(s, "failed")
  /\ log' = log \cup {<<s, "image_generation_outcome_ambiguous">>}
  /\ UNCHANGED <<origin, facts, art, inbox, ran, acts, snap, call, made>>

\* claim_work_item: queued, attempts left, its brief still approved.
ClaimImage(s) ==
  /\ ~\E t \in ImageSlots : Stale(t)
  /\ item[s].st = "queued"
  /\ item[s].n < MaxAttempts
  /\ art["visual"] = "approved"
  /\ item' = [item EXCEPT ![s].st = "processing", ![s].n = @ + 1, ![s].late = FALSE]
  /\ call' = call \cup {[s |-> s, tok |-> item[s].n + 1, ph |-> "calling"]}
  /\ UNCHANGED <<origin, facts, art, log, inbox, ran, acts, snap, made>>

\* The claim token is the row's and has not expired.
Current(c) == item[c.s].st = "processing" /\ ~item[c.s].late /\ item[c.s].n = c.tok

Step(c, ph) == call' = (call \ {c}) \cup {[c EXCEPT !.ph = ph]}

\* generate_and_store: a request that was not sent, or was answered by 408,
\* 429 or 5xx, may be retried; one left without an answer may not, and an
\* answer that is no usable image ends the request.
Provider(c) ==
  /\ c.ph = "calling"
  /\ \/ Step(c, "retryable") /\ UNCHANGED made
     \/ Step(c, "terminal") /\ UNCHANGED made
     \/ \E ph \in {"generated", "terminal", "ambiguous"} :
          Step(c, ph) /\ made' = [made EXCEPT ![c.s] = @ + 1]
  /\ UNCHANGED <<itemVars>>

\* Storing the image (see FeishuImageStore): a failure leaves the outcome
\* ambiguous in Feishu and ends the request with the HTTP media store.
StoreImage(c) ==
  /\ c.ph = "generated"
  /\ \E ph \in {"stored", "terminal", "ambiguous"} : Step(c, ph)
  /\ UNCHANGED <<itemVars, made>>

\* persist_generated_image: claim current, brief still approved, and either
\* no image yet or the same one still pending.
Persistable(c) == /\ Current(c)
                  /\ art["visual"] = "approved"
                  /\ art[c.s] \in {"none", "pending"}

PersistImage(c) ==
  /\ c.ph = "stored"
  /\ Persistable(c)
  /\ art' = [art EXCEPT ![c.s] = "pending"]
  /\ item' = Move(c.s, "awaiting_review")
  /\ log' = log \cup {<<c.s, "generated_image_created">>}
  /\ call' = call \ {c}
  /\ UNCHANGED <<origin, facts, inbox, ran, acts, snap, made>>

\* record_generation_failure: retried while attempts are left, else failed;
\* a worker that lost its claim records nothing.
ShouldRetry(c) == c.ph = "retryable" /\ c.tok < MaxAttempts

RecordFailure(c) ==
  /\ \/ c.ph \in {"retryable", "ambiguous", "terminal"}
     \/ c.ph = "stored" /\ ~Persistable(c)
  /\ call' = call \ {c}
  /\ IF Current(c)
     THEN /\ item' = Move(c.s, IF ShouldRetry(c) THEN "queued" ELSE "failed")
          /\ log' = log \cup (IF c.ph = "ambiguous" THEN {<<c.s, "image_generation_outcome_ambiguous">>} ELSE {})
     ELSE UNCHANGED <<item, log>>
  /\ UNCHANGED <<origin, facts, art, inbox, ran, acts, snap, made>>

\* run_once: a run settles one lapsed claim and ends, or claims a request,
\* generates and stores the image on a blocking thread and records how that
\* ended; every error on the way is a recorded failure.
GenerationWorker ==
  \/ \E s \in ImageSlots : TerminalizeStale(s) \/ ClaimImage(s)
  \/ \E c \in call : Provider(c) \/ StoreImage(c) \/ PersistImage(c) \/ RecordFailure(c)

CrashWorker(c) == /\ call' = call \ {c}
                  /\ UNCHANGED <<itemVars, made>>

ImagesInit == /\ call = {}
              /\ made = [s \in ImageSlots |-> 0]

ImagesNext ==
  \/ (RunEvidence \/ DraftBrief \/ BriefFails) /\ UNCHANGED imageVars
  \/ \E s \in ImageSlots : Lapse(s) /\ UNCHANGED imageVars
  \/ GenerationWorker
  \/ \E c \in call : CrashWorker(c)
=============================================================================
