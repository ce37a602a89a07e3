------------------------------ MODULE DailyReport ------------------------------
(* The production pipeline of the daily case report: collect the messages of *)
(* a day, ask a model for a narrative, render an image, store it and create  *)
(* the send request.  It is started by a worker, whose images all have the   *)
(* same path, and by a tool of the agents, whose image is in a private       *)
(* directory.  A start, a copy, an upload and the publishing transaction of  *)
(* two invocations interleave, and messages of the day still arrive.         *)
EXTENDS Integers, FiniteSets

CONSTANTS Jobs_,        \* invocations that may run at the same time
          Days,         \* report windows
          Lines,        \* messages of a day
          Wordings,     \* what the model may write
          MaxEmpty,     \* MAX_EMPTY_CONTENT_RETRIES
          MaxStarts     \* bound: invocations in a behaviour

VARIABLES uttered,    \* the recorded messages, <<day, line>>
          jobs,     \* invocation -> where it is and what it holds
          shelf,    \* the file at the path of the worker: [kind, pic]
          vault,    \* the objects of the store: [key, pic]
          tickets,   \* the send requests: [key, by, text, status]
          onboard,   \* what the group received, in number per request key
          starts
nvars == <<uttered, jobs, shelf, vault, tickets, onboard, starts>>

NoPic == [day |-> 0, seen |-> {}, words |-> "none"]
AtRest == [at |-> "rest", by |-> "worker", apply |-> FALSE, day |-> 0, seen |-> {},
           words |-> "none", attempt |-> 0, merged |-> FALSE, got |-> NoPic]

PipelineInit ==
    /\ uttered = {}
    /\ jobs = [j \in Jobs_ |-> AtRest]
    /\ shelf = [kind |-> "none", pic |-> NoPic]
    /\ vault = {} /\ tickets = {} /\ onboard = {} /\ starts = 0

Go(j, step) == jobs' = [jobs EXCEPT ![j].at = step]
End(j) == jobs' = [jobs EXCEPT ![j] = AtRest]

\* A message of a day is recorded, possibly after the day was reported.
Record(d, l) ==
    /\ <<d, l>> \notin uttered
    /\ uttered' = uttered \cup {<<d, l>>}
    /\ UNCHANGED <<jobs, shelf, vault, tickets, onboard, starts>>

\* resolve_window and collect_for_report: the window is a calendar day, by
\* default the one before; a worker's date override carries its approval.
collect_for_report(d) == {l \in Lines : <<d, l>> \in uttered}

\* An invocation starts, of the worker or of the tool; a narrative is asked
\* for only where a model is configured.
StartReport(j, by, d, apply, modelled) ==
    /\ jobs[j].at = "rest" /\ starts < MaxStarts
    /\ starts' = starts + 1
    /\ jobs' = [jobs EXCEPT ![j] = [AtRest EXCEPT !.at = IF modelled THEN "asking" ELSE "told", !.by = by,
                                                   !.apply = apply, !.day = d, !.seen = collect_for_report(d)]]
    /\ UNCHANGED <<uttered, shelf, vault, tickets, onboard>>

(* The model's answer.  A 400 to the first request is asked again in one     *)
(* message; an answer without content is asked again with a larger budget;   *)
(* anything else that is not a text gives a report without a narrative.      *)
chat_completion(j, answer) ==
    /\ jobs[j].at = "asking"
    /\ jobs' = [jobs EXCEPT ![j] =
         IF answer = "bad_request" /\ ~@.merged /\ @.attempt = 0 THEN [@ EXCEPT !.merged = TRUE]
         ELSE IF answer = "empty" /\ @.attempt < MaxEmpty THEN [@ EXCEPT !.attempt = jobs[j].attempt + 1]
         ELSE [@ EXCEPT !.at = "told", !.attempt = 0, !.merged = FALSE,
                        !.words = IF answer \in Wordings THEN answer ELSE "none"]]
    /\ UNCHANGED <<uttered, shelf, vault, tickets, onboard, starts>>

\* The image of a report: its day, the messages it tells of and its narrative.
\* The hash of an image is taken to be as telling as its bytes.
Picture(j) == [day |-> jobs[j].day, seen |-> jobs[j].seen, words |-> jobs[j].words]

(* rasterize_html: the image is drawn in a private directory and hashed; the *)
(* worker's is then copied over the file at the common path, not atomically. *)
Copying(j) == \E i \in Jobs_ \ {j} : jobs[i].at = "copying"
Draw(j) ==
    /\ jobs[j].at = "told"
    /\ IF jobs[j].by = "worker"
       THEN Go(j, "copying") /\ shelf' = [kind |-> IF Copying(j) THEN "mixed" ELSE "torn", pic |-> Picture(j)]
       ELSE Go(j, "drawn") /\ UNCHANGED shelf
    /\ UNCHANGED <<uttered, vault, tickets, onboard, starts>>

\* Two copies that overlapped leave the bytes of either, or of both.
Copied(j) ==
    /\ jobs[j].at = "copying"
    /\ shelf' \in IF Copying(j) THEN {shelf}
                  ELSE {[kind |-> "whole", pic |-> Picture(j)]}
                         \cup IF shelf.kind = "mixed" THEN {shelf, [shelf EXCEPT !.kind = "whole"]} ELSE {}
    /\ Go(j, "drawn")
    /\ UNCHANGED <<uttered, vault, tickets, onboard, starts>>

\* What the upload reads from the path of the image; its hash must be the one
\* that was rendered.
Bytes(j) == IF jobs[j].by = "tool" THEN [kind |-> "whole", pic |-> Picture(j)] ELSE shelf
image_identity(j) == Bytes(j).kind = "whole" /\ Bytes(j).pic = Picture(j)

send_gate_allows(j) == jobs[j].by = "tool" \/ jobs[j].seen # {}

\* The ids of the source item and of the artifact follow from the window and
\* the hash of what was read, and are the persisted ones where those exist.
StorageIds(j, pic) == [day |-> jobs[j].day, hash |-> pic]
SendKey(j) == StorageIds(j, jobs[j].got)   \* with the one target group of the deployment

\* A preview ends here: the worker's with the summary, the tool's with the
\* identity of the image checked.
Preview(j) ==
    /\ jobs[j].at = "drawn" /\ ~jobs[j].apply
    /\ End(j)
    /\ UNCHANGED <<uttered, shelf, vault, tickets, onboard, starts>>

\* The upload stores what it read under the ids, and reads it back.
Upload(j) ==
    /\ jobs[j].at = "drawn" /\ jobs[j].apply
    /\ IF send_gate_allows(j) /\ image_identity(j)
       THEN /\ jobs' = [jobs EXCEPT ![j].at = "stored", ![j].got = Bytes(j).pic]
            /\ vault' = vault \cup {[key |-> StorageIds(j, Bytes(j).pic), pic |-> Bytes(j).pic]}
       ELSE End(j) /\ UNCHANGED vault
    /\ UNCHANGED <<uttered, shelf, tickets, onboard, starts>>

\* The stored object, read again before the send request is made ready.
Revalidated(j) == [key |-> SendKey(j), pic |-> jobs[j].got] \in vault

\* What the text of the request says, and the request: queued when it is new.
default_intro_text(j) == [day |-> jobs[j].day, count |-> Cardinality(jobs[j].seen)]
SendRequest(j) == [key |-> SendKey(j), by |-> jobs[j].by, text |-> default_intro_text(j),
               sent |-> \E o \in tickets : o.key = SendKey(j) /\ o.sent]

(* One transaction: source item, artifact, send request and its ready event. *)
(* A repeated request of the same key replaces the payload and leaves the    *)
(* status.                                                                   *)
Publish(j) ==
    /\ jobs[j].at = "stored"
    /\ tickets' = IF ~Revalidated(j) THEN tickets
                  ELSE {o \in tickets : o.key # SendKey(j)} \cup {SendRequest(j)}
    /\ End(j)
    /\ UNCHANGED <<uttered, shelf, vault, onboard, starts>>

\* A step fails or the process dies: the worker exits, the tool answers with
\* an error.  An upload may have reached the store.
Fail(j) ==
    /\ jobs[j].at # "rest"
    /\ End(j)
    /\ vault' \in {vault} \cup IF jobs[j].at = "drawn" /\ jobs[j].apply /\ send_gate_allows(j) /\ image_identity(j)
                               THEN {vault \cup {[key |-> StorageIds(j, Bytes(j).pic), pic |-> Bytes(j).pic]}} ELSE {}
    /\ UNCHANGED <<uttered, shelf, tickets, onboard, starts>>

\* The send service posts the stored image of a queued request.
Post(o) ==
    /\ o \in tickets /\ ~o.sent
    /\ \E v \in vault : /\ v.key = o.key
                        /\ onboard' = onboard \cup {[key |-> o.key, pic |-> v.pic, text |-> o.text]}
    /\ tickets' = (tickets \ {o}) \cup {[o EXCEPT !.sent = TRUE]}
    /\ UNCHANGED <<uttered, jobs, shelf, vault, starts>>

PipelineNext ==
    \/ \E d \in Days, l \in Lines : Record(d, l)
    \/ \E j \in Jobs_ :
         \/ \E by \in {"worker", "tool"}, d \in Days, apply, modelled \in BOOLEAN : StartReport(j, by, d, apply, modelled)
         \/ \E a \in Wordings \cup {"bad_request", "empty", "refused"} : chat_completion(j, a)
         \/ Draw(j) \/ Copied(j) \/ Preview(j) \/ Upload(j) \/ Publish(j) \/ Fail(j)
    \/ \E o \in tickets : Post(o)

(* What the group receives is the image the request was made for, of the day *)
(* its text names, about as many messages as its text says, all of them said *)
(* that day (daily_case_report_cutover.rs, run_pipeline).  Each image is     *)
(* onboard once, and the worker posts none for a day nobody spoke.  The file  *)
(* two workers share must not put one day's image under another's window.    *)
PostedTrue ==
    /\ \A p \in onboard : /\ p.pic = p.key.hash /\ p.pic.day = p.key.day
                         /\ p.text = [day |-> p.pic.day, count |-> Cardinality(p.pic.seen)]
                         /\ \A l \in p.pic.seen : <<p.pic.day, l>> \in uttered
    /\ \A p, q \in onboard : p.key = q.key => p = q
    /\ \A o \in tickets : o.by = "worker" => o.key.hash.seen # {}
=============================================================================
