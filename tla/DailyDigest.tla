---------------------------- MODULE DailyDigest ----------------------------
(* The digest of one day of a chat.  A worker writes it from the signals     *)
(* recorded for the day once the day is over and its hour has come; a        *)
(* command may write it again at any time.  A publisher copies it to three   *)
(* Feishu tables in calls that fail with or without effect, over a row that  *)
(* may be written again meanwhile, and either process may be restarted.      *)
EXTENDS Naturals, Sequences, FiniteSets, FiniteSetsExt
Seqs == INSTANCE SequencesExt

CONSTANTS Notes,      \* signals, numbered in their order
          MaxItems,   \* signals a section of the digest lists (20)
          MaxTries,   \* attempts after which a failure is left (5)
          MaxWording, \* bound: wordings of a signal
          MaxCopies   \* bound: rows of the signal table

ASSUME NotesNumbered == Notes \subseteq Nat

VARIABLES note,     \* signal |-> [word, rec]: word 0 while it is not accepted
          digest,   \* the row: [st, body, count, tries, hash]
          hour,     \* the schedule time has come
          dated,     \* the date is in the worker's generated_dates
          opened,   \* the publisher's configuration is complete and allowed
          pub,      \* the publisher: [at, row, model, left]
          base,     \* the Feishu tables: [archive, daily, signals]
          copied    \* history: signals of the last completed publication

dvars == <<note, digest, hour, dated, opened, pub, base, copied>>

NoDigest == [st |-> "none", body |-> <<>>, count |-> 0, tries |-> 0, hash |-> <<>>]
NoPub == [at |-> "idle", row |-> NoDigest, model |-> <<>>, left |-> {}]

DigestInit ==
    /\ note = [s \in Notes |-> [word |-> 0, rec |-> 0]] /\ digest = NoDigest
    /\ hour = FALSE /\ dated = FALSE /\ opened \in BOOLEAN /\ pub = NoPub
    /\ base = [archive |-> <<>>, daily |-> <<>>, signals |-> <<>>] /\ copied = {}

Accepted == {s \in Notes : note[s].word > 0}

-----------------------------------------------------------------------------
(* Writing the digest.                                                       *)

\* The text names the first signals only, and is never empty.
render_markdown ==
    LET all == Seqs!SetToSortSeq(Accepted, <) IN
    [i \in 1 .. Min({MaxItems, Len(all)}) |-> <<all[i], note[all[i]].word>>]

\* A published digest goes out again only if its text or a count changed.
upsert_daily_digest(body, count) ==
    digest' = [digest EXCEPT !.body = body, !.count = count,
                 !.st = IF @ = "published" /\ digest.body = body /\ digest.count = count
                        THEN "published" ELSE "pending"]

run_digest_inner == upsert_daily_digest(render_markdown, Cardinality(Accepted))

\* The day before today is due from the schedule time on.
due_digest_date == hour

run_digest_worker ==
    /\ due_digest_date /\ ~dated /\ run_digest_inner /\ dated' = TRUE
    /\ UNCHANGED <<note, hour, opened, pub, base, copied>>

run_digest ==
    /\ digest.st # "none" /\ run_digest_inner /\ digest' # digest
    /\ UNCHANGED <<note, hour, dated, opened, pub, base, copied>>

-----------------------------------------------------------------------------
(* Publishing it.                                                            *)

load_publishable_digest_ids == digest.st = "pending" \/ (digest.st = "failed" /\ digest.tries < MaxTries)

\* One digest after the other, and none while one is under way.
publish_pending_batch == pub.at = "idle" /\ load_publishable_digest_ids

\* Publisher and owner are Xiaoman, the chat and the base are configured.
validate_publish_request == opened

record_publish_failure == digest' = [digest EXCEPT !.st = "failed", !.tries = Min({@ + 1, MaxTries})]

\* The row and the signals as they are now; all of them, not only those listed.
build_publish_model == [s \in Accepted |-> note[s]]

\* The batch takes the row, or refuses it; the tenant token may not be had.
Taken ==
    /\ publish_pending_batch
    /\ \/ /\ validate_publish_request /\ UNCHANGED digest
          /\ pub' = [at |-> "archive", row |-> digest, model |-> build_publish_model, left |-> Accepted]
       \/ record_publish_failure /\ UNCHANGED pub
    /\ UNCHANGED <<note, hour, dated, opened, base, copied>>

\* upsert_by_text_field: the rows are listed first, the one with the key is
\* updated, or else one is created.
upsert_by_text_field(rows, body) == IF rows = <<>> THEN <<body>> ELSE [rows EXCEPT ![1] = body]

\* Outcomes of a call: reached says whether Feishu did it, answered whether
\* the publisher got to know.
request_json(reached, answered) == answered => reached

PublishFails == record_publish_failure /\ pub' = NoPub

WriteArchive(reached, answered) ==
    /\ pub.at = "archive" /\ request_json(reached, answered)
    /\ base' = IF reached THEN [base EXCEPT !.archive = upsert_by_text_field(@, pub.row.body)] ELSE base
    /\ IF answered THEN pub' = [pub EXCEPT !.at = "daily"] /\ UNCHANGED digest ELSE PublishFails
    /\ UNCHANGED <<note, hour, dated, opened, copied>>

WriteDaily(reached, answered) ==
    /\ pub.at = "daily" /\ request_json(reached, answered)
    /\ base' = IF reached THEN [base EXCEPT !.daily = upsert_by_text_field(@, pub.row.body)] ELSE base
    /\ IF answered THEN pub' = [pub EXCEPT !.at = "signals"] /\ UNCHANGED digest ELSE PublishFails
    /\ UNCHANGED <<note, hour, dated, opened, copied>>

\* A signal with a record has it updated, another one gets a new record.
PutSignal(s) ==
    LET row == [of |-> s, word |-> pub.model[s].word] IN
    IF pub.model[s].rec > 0 THEN [base EXCEPT !.signals[pub.model[s].rec] = row]
                            ELSE [base EXCEPT !.signals = Append(@, row)]

WriteSignal(s, reached, answered) ==
    /\ pub.at = "signals" /\ s \in pub.left /\ s = Min(pub.left) /\ request_json(reached, answered)
    /\ pub.model[s].rec > 0 \/ Len(base.signals) < MaxCopies
    /\ base' = IF reached THEN PutSignal(s) ELSE base
    /\ IF answered
       THEN /\ pub' = [pub EXCEPT !.left = @ \ {s},
                         !.model[s].rec = IF @ > 0 THEN @ ELSE Len(base.signals) + 1]
            /\ UNCHANGED digest
       ELSE PublishFails
    /\ UNCHANGED <<note, hour, dated, opened, copied>>

\* Records are noted signal by signal, each in a transaction of its own.
update_event_signal_publish_state ==
    /\ pub.at \in {"signals", "noting"}
    /\ LET todo == IF pub.at = "signals" THEN DOMAIN pub.model ELSE pub.left IN
       /\ pub.at = "signals" => pub.left = {}
       /\ todo # {} /\ note' = [note EXCEPT ![Min(todo)].rec = pub.model[Min(todo)].rec]
       /\ pub' = [pub EXCEPT !.at = "noting", !.left = todo \ {Min(todo)}]
    /\ UNCHANGED <<digest, hour, dated, opened, base, copied>>

\* Whatever the row has become meanwhile; the hash is of what was copied.
Published ==
    /\ pub.at = IF pub.model = <<>> THEN "signals" ELSE "noting"
    /\ pub.left = {}
    /\ digest' = [digest EXCEPT !.st = "published", !.hash = pub.row.body, !.tries = Min({@ + 1, MaxTries})]
    /\ pub' = NoPub /\ copied' = DOMAIN pub.model
    /\ UNCHANGED <<note, hour, dated, opened, base>>

-----------------------------------------------------------------------------
(* Outside: the signals, the clock, restarts.                                *)

SignalChanges(s) ==
    /\ note[s].word < MaxWording /\ note' = [note EXCEPT ![s].word = @ + 1]
    /\ UNCHANGED <<digest, hour, dated, opened, pub, base, copied>>

HourComes ==
    /\ ~hour /\ hour' = TRUE /\ UNCHANGED <<note, digest, dated, opened, pub, base, copied>>

WorkerRestarts ==
    /\ dated /\ dated' = FALSE /\ UNCHANGED <<note, digest, hour, opened, pub, base, copied>>

PublisherRestarts ==
    /\ pub' = NoPub /\ opened' \in BOOLEAN /\ <<pub', opened'>> # <<pub, opened>>
    /\ UNCHANGED <<note, digest, hour, dated, base, copied>>

DigestNext ==
    \/ run_digest_worker \/ run_digest \/ Taken
    \/ \E r, a \in BOOLEAN : WriteArchive(r, a) \/ WriteDaily(r, a) \/ \E s \in Notes : WriteSignal(s, r, a)
    \/ update_event_signal_publish_state \/ Published
    \/ \E s \in Notes : SignalChanges(s)
    \/ HourComes \/ WorkerRestarts \/ PublisherRestarts

-----------------------------------------------------------------------------
\* However calls fail and rows are written again: the digest has one row in
\* each of its tables; once nothing is under way, a published digest shows
\* what its row says was copied, in both; a signal's record is a row of that
\* signal, and every signal of a finished publication has one.
DigestTrue ==
    /\ Len(base.archive) <= 1 /\ Len(base.daily) <= 1
    /\ digest.st = "published" /\ pub.at = "idle" =>
          base.archive = <<digest.hash>> /\ base.daily = <<digest.hash>>
    /\ \A s \in Notes : note[s].rec > 0 => note[s].rec <= Len(base.signals) /\ base.signals[note[s].rec].of = s
    /\ \A s \in copied : note[s].rec > 0
=============================================================================
