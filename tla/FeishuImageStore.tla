-------------------------- MODULE FeishuImageStore --------------------------
(* One generated image and its rows in the Feishu table.  A mirrored image   *)
(* lives behind an HTTPS address and the mirror shows it in the table; the   *)
(* others live in the table itself, put there by the image worker (a poster, *)
(* reviewed later) or by the automatic publishers (a report, a brief).  The  *)
(* mirror works inside one transaction that locks the artifact row; nothing  *)
(* locks for a store.  Calls of Feishu take effect or not before they fail,  *)
(* never later.  A time is the start of the transaction that writes it, as   *)
(* now() of the database is.                                                 *)
EXTENDS Naturals, Sequences, FiniteSets

CONSTANTS Workers,          \* processes that mirror or store
          Nobody,           \* nobody holds the artifact row
          MaxTick, MaxRows  \* bounds: transactions, rows

ASSUME NobodyNoWorker == Nobody \notin Workers

VARIABLES conf,   \* settings that are absent or wrong
          pict,   \* the artifact: [kind, flaw, review, stamp]
          rows,   \* rows of the table: [shown, file]
          wref,   \* the workbench reference: [st, synced]
          job,    \* worker |-> [pc, stamp, row, file]
          desk,   \* the reviewer's transaction: [decision, stamp]
          held,   \* who holds the lock of the artifact row
          tick,   \* transactions begun
          had,    \* history: reviews the artifact has had
          raced   \* history: a review began before the sync it came after

ivars == <<conf, pict, rows, wref, job, desk, held, tick, had, raced>>

Kinds == {"mirrored", "poster", "report", "brief"}
NoJob == [pc |-> "idle", stamp |-> 0, row |-> 0, file |-> "none"]
NoDesk == [decision |-> "none", stamp |-> 0]
Settings == {"enable", "approval", "release", "database", "base", "table", "profile",
             "schema", "hosts", "bytes"}
Flaws == {"none", "address", "metadata", "brief", "event", "size"}

ImageInit ==
    /\ \E kind \in Kinds, flaw \in Flaws, wrong \in {{}} \cup {{s} : s \in Settings} :
          /\ flaw = "none" \/ wrong = {}
          /\ conf = wrong
          /\ pict = [kind |-> kind, flaw |-> flaw, stamp |-> 0,
                     review |-> IF kind = "mirrored" THEN "pending" ELSE "none"]
    /\ rows = <<>> /\ wref = [st |-> "none", synced |-> 0]
    /\ job = [p \in Workers |-> NoJob] /\ desk = NoDesk /\ held = Nobody
    /\ tick = 0 /\ had = {pict.review} /\ raced = FALSE

-----------------------------------------------------------------------------
(* Configuration: each entry is checked once more by the preflight.          *)

MirrorPolicy == conf \cap {"hosts", "bytes"} = {}
MirrorConfig == conf \cap {"enable", "approval", "release", "database", "base", "table",
                           "profile", "schema"} = {}
FeishuPrimaryStorageConfig == MirrorConfig /\ "bytes" \notin conf

missing_configuration == conf \ {"enable", "bytes"}
validate_local_configuration == conf \subseteq {"enable"} /\ MirrorPolicy
run_preflight ==
    "enable" \notin conf /\ missing_configuration = {} /\ validate_local_configuration

-----------------------------------------------------------------------------
(* What is checked about the artifact before anything leaves.                *)

validate_source_ids == pict.flaw # "brief"
validate_creation_event == pict.flaw # "event"
validate_artifact ==
    /\ pict.flaw \notin {"address", "metadata", "size"}
    /\ validate_source_ids /\ validate_creation_event
validate_primary_storage_artifact ==
    pict.flaw \notin {"metadata", "size"} /\ validate_source_ids /\ validate_creation_event
validate_automatic_artifact == pict.flaw \notin {"metadata", "size"} /\ validate_creation_event
validate_feishu_storage_image == pict.flaw # "size"

\* The review as the fields show it; a store shows what its profile says.
build_feishu_fields(file) == [shown |-> pict.review, file |-> file]
build_feishu_image_storage_fields(file) ==
    [shown |-> IF pict.kind = "poster" THEN "pending" ELSE "approved", file |-> file]

mirror_is_current == wref.st = "active" /\ wref.synced >= pict.stamp

At(p, pc) == job' = [job EXCEPT ![p].pc = pc]
Begin == tick < MaxTick /\ tick' = tick + 1

-----------------------------------------------------------------------------
(* The mirror.                                                               *)

run_apply(p) ==
    /\ pict.kind = "mirrored" /\ MirrorPolicy /\ MirrorConfig /\ job[p].pc = "idle" /\ Begin
    /\ job' = [job EXCEPT ![p] = [NoJob EXCEPT !.pc = "begun", !.stamp = tick']]
    /\ UNCHANGED <<conf, pict, rows, wref, desk, held, had, raced>>

\* Mutant: the row is read without its lock.
lock_candidateMutant(p) ==
    /\ job[p].pc = "begun"
    /\ IF ~validate_artifact \/ mirror_is_current
       THEN job' = [job EXCEPT ![p] = NoJob] /\ UNCHANGED held
       ELSE At(p, "search") /\ UNCHANGED held
    /\ UNCHANGED <<conf, pict, rows, wref, desk, tick, had, raced>>

\* The candidate asked for, or the oldest one behind.  An artifact that does
\* not validate leaves a failure event, a current one nothing.
lock_candidate(p) ==
    /\ job[p].pc = "begun" /\ held = Nobody
    /\ IF ~validate_artifact \/ mirror_is_current
       THEN job' = [job EXCEPT ![p] = NoJob] /\ UNCHANGED held
       ELSE At(p, "search") /\ held' = p
    /\ UNCHANGED <<conf, pict, rows, wref, desk, tick, had, raced>>

Release(p) == /\ job' = [job EXCEPT ![p] = NoJob]
              /\ held' = IF held = p THEN Nobody ELSE held

\* Two rows for one image are refused, by whoever looks.
search_record == IF Len(rows) > 1 THEN {} ELSE {Len(rows)}

MirrorSearch(p) ==
    /\ job[p].pc = "search"
    /\ \E r \in search_record : job' = [job EXCEPT ![p].pc = "fetched", ![p].row = r]
    /\ UNCHANGED <<conf, pict, rows, wref, desk, held, tick, had, raced>>

create_record(p, fields) ==
    Len(rows) < MaxRows /\ rows' = Append(rows, fields)
update_record(r, fields) == rows' = [rows EXCEPT ![r] = fields]

\* The image is fetched and compared with its hashes before this.
MirrorCreate(p) ==
    /\ job[p].pc = "fetched"
    /\ IF job[p].row = 0
       THEN /\ create_record(p, build_feishu_fields("none"))
            /\ \/ job' = [job EXCEPT ![p].pc = "upload", ![p].row = Len(rows')] /\ UNCHANGED held
               \/ Release(p)          \* made, and the answer was lost
       ELSE At(p, "upload") /\ UNCHANGED <<rows, held>>
    /\ UNCHANGED <<conf, pict, wref, desk, tick, had, raced>>

\* The mirror does not read the upload back: it may be damaged.
MirrorUpdate(p) ==
    /\ job[p].pc = "upload"
    /\ \E file \in {"ours", "damaged"} : update_record(job[p].row, build_feishu_fields(file))
    /\ \/ At(p, "commit") /\ UNCHANGED held
       \/ Release(p)                  \* updated, and the answer was lost
    /\ UNCHANGED <<conf, pict, wref, desk, tick, had, raced>>

upsert_workbench_ref(stamp) == wref' = [st |-> "active", synced |-> stamp]

MirrorCommit(p) ==
    /\ job[p].pc = "commit" /\ upsert_workbench_ref(job[p].stamp) /\ Release(p)
    /\ raced' = FALSE
    /\ UNCHANGED <<conf, pict, rows, desk, tick, had>>

\* A call that failed leaves a failure event; a process that died, nothing.
append_failure_event(p) ==
    /\ job[p].pc \notin {"idle", "begun"} /\ Release(p)
    /\ UNCHANGED <<conf, pict, rows, wref, desk, tick, had, raced>>

-----------------------------------------------------------------------------
(* Storing in the table.                                                     *)

StoreSearch(p) ==
    /\ pict.kind # "mirrored" /\ FeishuPrimaryStorageConfig /\ job[p].pc = "idle" /\ Begin
    /\ validate_feishu_storage_image
    /\ \E r \in search_record :
          job' = [job EXCEPT ![p] = [pc |-> "store", stamp |-> tick', row |-> r, file |-> "none"]]
    /\ UNCHANGED <<conf, pict, rows, wref, desk, held, had, raced>>

upload_media(p) ==
    /\ job[p].pc = "store" /\ job[p].file = "none"
    /\ \E file \in {"ours", "damaged"} : job' = [job EXCEPT ![p].file = file]
    /\ UNCHANGED <<conf, pict, rows, wref, desk, held, tick, had, raced>>

\* The upload is read back and compared before a row refers to it.
store_feishu_image(p) ==
    /\ job[p].pc = "store" /\ job[p].file = "ours"
    /\ LET fields == build_feishu_image_storage_fields(job[p].file) IN
       IF job[p].row = 0 THEN create_record(p, fields) ELSE update_record(job[p].row, fields)
    /\ \/ At(p, "persist") \/ job' = [job EXCEPT ![p] = NoJob]
    /\ UNCHANGED <<conf, pict, wref, desk, held, tick, had, raced>>

\* The artifact is created, or is there already and not yet reviewed.
persist_generated_image(p) ==
    /\ job[p].pc = "persist" /\ held = Nobody
    /\ pict.review \in {"none", build_feishu_image_storage_fields("ours").shown}
    /\ IF pict.review = "none"
       THEN /\ pict' = [pict EXCEPT !.stamp = job[p].stamp,
                            !.review = build_feishu_image_storage_fields("ours").shown]
            /\ had' = had \cup {pict'.review}
       ELSE UNCHANGED <<pict, had>>
    /\ upsert_workbench_ref(job[p].stamp) /\ Release(p)
    /\ UNCHANGED <<conf, rows, desk, tick, raced>>

-----------------------------------------------------------------------------
(* Reading it again: for an approval, a review card, a publication, a send.  *)

validate_record_fields(r) == rows[r].file # "none"
primary_storage_attachment_token(r) == rows[r].file
validate_primary_storage_readback(file) == file = "ours"

read_revalidated_bytes ==
    /\ FeishuPrimaryStorageConfig /\ pict.review # "none"
    /\ IF pict.kind = "poster" THEN validate_primary_storage_artifact ELSE validate_automatic_artifact
    /\ \E r \in search_record \ {0} :
          /\ validate_record_fields(r)
          /\ validate_primary_storage_readback(primary_storage_attachment_token(r))

validate_delivery_approval == pict.review = "approved"
revalidate_for_review_notification == pict.review = "pending" /\ read_revalidated_bytes
revalidate_for_delivery == validate_delivery_approval /\ read_revalidated_bytes

\* The evidence is gathered before the transaction of the decision begins.
revalidate_for_approval(decision) ==
    (decision = "approved" /\ pict.kind = "poster") => read_revalidated_bytes

BeginReview(decision) ==
    /\ desk = NoDesk /\ pict.review # "none" /\ revalidate_for_approval(decision) /\ Begin
    /\ desk' = [decision |-> decision, stamp |-> tick']
    /\ UNCHANGED <<conf, pict, rows, wref, job, held, had, raced>>

\* The decision waits for the row; only what is pending can be approved.
RecordReview ==
    /\ desk # NoDesk /\ held = Nobody /\ desk' = NoDesk
    /\ IF desk.decision = "approved" /\ pict.review # "pending"
       THEN UNCHANGED <<pict, had, raced>>
       ELSE /\ pict' = [pict EXCEPT !.review = desk.decision, !.stamp = desk.stamp]
            /\ had' = had \cup {desk.decision}
            /\ raced' = (raced \/ (wref.st = "active" /\ desk.stamp <= wref.synced))
    /\ UNCHANGED <<conf, rows, wref, job, held, tick>>

ImageNext ==
    \/ \E p \in Workers :
          \/ run_apply(p) \/ lock_candidate(p) \/ MirrorSearch(p) \/ MirrorCreate(p) \/ MirrorUpdate(p)
          \/ MirrorCommit(p) \/ append_failure_event(p) \/ StoreSearch(p) \/ upload_media(p)
          \/ store_feishu_image(p) \/ persist_generated_image(p)
    \/ \E d \in {"approved", "rejected"} : BeginReview(d)
    \/ RecordReview

-----------------------------------------------------------------------------
\* The table never shows an approval the artifact never had; a mirrored image
\* has one row at most, whatever crashed or went unanswered; a mirror that is
\* current shows the review and has a file, unless the review began before and
\* was written after that sync (the row then stays behind, see the README); a
\* stored image's rows refer only to what was read back; and the preflight
\* says ready exactly when the mirror would start.
WorkbenchTrue ==
    /\ pict.kind \in {"mirrored", "poster"} =>
          \A r \in 1..Len(rows) : rows[r].shown = "approved" => "approved" \in had
    /\ pict.kind = "mirrored" =>
          /\ Len(rows) <= 1
          /\ wref.st = "active" => Len(rows) = 1 /\ rows[1].file # "none"
          /\ (mirror_is_current /\ ~raced /\ held = Nobody) => rows[1].shown = pict.review
    /\ pict.kind # "mirrored" => \A r \in 1..Len(rows) : rows[r].file = "ours"
    /\ run_preflight = (MirrorPolicy /\ MirrorConfig)
    /\ pict.flaw # "none" /\ pict.kind = "mirrored" => rows = <<>>
    /\ (revalidate_for_delivery \/ revalidate_for_review_notification) => rows[1].file = "ours"
=============================================================================
