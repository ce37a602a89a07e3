------------------------------ MODULE MessageLog ------------------------------
(* The way of a message from the stream into the tables: the consumer takes  *)
(* a publication, records it in one transaction with its processing job, and *)
(* acknowledges it; what is not acknowledged comes again, up to a limit.     *)
(* Workers then claim the jobs in batches, ask a service for an embedding    *)
(* and record it.  Consumer and workers may stop between any two steps, and  *)
(* a claim that is old enough is taken over by another worker.               *)
EXTENDS Integers, Sequences, FiniteSets

CONSTANTS Bulletins,    \* publications: [kind, msg, text]; the text "" is blank
          Embedders,    \* embedding workers
          MaxPub,       \* bound: publications
          MaxDeliver,   \* max_deliver of the consumer
          Batch,        \* jobs of a claim
          MaxAttempts   \* attempts of a job

\* A job is tried at least once, and "none" is no message.
ASSUME JobsTried == MaxAttempts \in Nat \ {0} /\ \A b \in Bulletins : b.msg # "none"

VARIABLES stream,   \* publications in order: [kind, msg, text, given, st]
          rows_,    \* message id |-> the text recorded
          dead,     \* positions of the publications in the dead letters
          queue_,   \* message id |-> its job: [st, tries, due, lock]
          vectors,  \* the embeddings: [msg, text]
          hand      \* worker |-> [todo, asking, text] of the batch it works on
lvars == <<stream, rows_, dead, queue_, vectors, hand>>

Blank == ""  \* a text without words
NoHand == [todo |-> {}, asking |-> "none", text |-> Blank]
NewJob == [st |-> "pending", tries |-> 0, due |-> TRUE, lock |-> "none"]

LogInit ==
    /\ stream = <<>> /\ rows_ = <<>> /\ dead = {} /\ queue_ = <<>> /\ vectors = {}
    /\ hand = [w \in Embedders |-> NoHand]

Set(f, k, v) == [i \in DOMAIN f \cup {k} |-> IF i = k THEN v ELSE f[i]]

\* A message is published, a second time with another text if it was edited,
\* or "junk" that is no message, or a "system" notice.
PublishMessage(b) ==
    /\ Len(stream) < MaxPub
    /\ stream' = Append(stream, [kind |-> b.kind, msg |-> b.msg, text |-> b.text, given |-> 0, st |-> "waits"])
    /\ UNCHANGED <<rows_, dead, queue_, vectors, hand>>

\* persist_message: the row takes the text of the last delivery; the job is
\* only made with the first, and not for a notice.
persist_message(e) ==
    /\ rows_' = Set(rows_, e.msg, e.text)
    /\ queue_' = IF e.kind = "system" \/ e.msg \in DOMAIN queue_ THEN queue_ ELSE Set(queue_, e.msg, NewJob)

(* One delivery: recorded, or a dead letter when it cannot be read, then     *)
(* acknowledged unless the consumer stops first; or an error of the database *)
(* and a request to try again.                                               *)
handle_nats_message(i, outcome) ==
    /\ stream[i].st = "waits" /\ stream[i].given < MaxDeliver
    /\ stream' = [stream EXCEPT ![i].given = @ + 1, ![i].st = IF outcome = "acked" THEN "acked" ELSE "waits"]
    /\ CASE outcome = "nak" -> UNCHANGED <<rows_, queue_, dead>>
         [] outcome # "nak" /\ stream[i].kind = "junk" -> dead' = dead \cup {i} /\ UNCHANGED <<rows_, queue_>>
         [] OTHER -> persist_message(stream[i]) /\ UNCHANGED dead
    /\ UNCHANGED <<vectors, hand>>

(***************************************************************************)
(* Embeddings                                                              *)
(***************************************************************************)

Claimable == {m \in DOMAIN queue_ : \/ queue_[m].st = "pending" /\ queue_[m].due
                                    \/ queue_[m].st = "processing" /\ queue_[m].lock = "old"}

\* The job as the claim saw it: the attempts are counted from there.
claim_jobs(w, S) ==
    /\ hand[w] = NoHand
    /\ S # {} /\ S \subseteq Claimable
    /\ Cardinality(S) = IF Cardinality(Claimable) < Batch THEN Cardinality(Claimable) ELSE Batch
    /\ hand' = [hand EXCEPT ![w].todo = {[msg |-> m, tries |-> queue_[m].tries] : m \in S}]
    /\ queue_' = [m \in DOMAIN queue_ |-> IF m \in S THEN [queue_[m] EXCEPT !.st = "processing", !.lock = "new"]
                                          ELSE queue_[m]]
    /\ UNCHANGED <<stream, rows_, dead, vectors>>

\* Time passes: a lock gets old, the wait before a retry ends.
LockAges(m) ==
    /\ queue_[m].st = "processing" /\ queue_[m].lock = "new"
    /\ queue_' = [queue_ EXCEPT ![m].lock = "old"]
    /\ UNCHANGED <<stream, rows_, dead, vectors, hand>>
BackoffEnds(m) ==
    /\ ~queue_[m].due
    /\ queue_' = [queue_ EXCEPT ![m].due = TRUE]
    /\ UNCHANGED <<stream, rows_, dead, vectors, hand>>

Dropped(w, j) == [hand EXCEPT ![w] = [todo |-> hand[w].todo \ {j}, asking |-> "none", text |-> Blank]]
Completed(m, st) == [queue_ EXCEPT ![m].st = st, ![m].lock = "none"]

\* The text is read before the service is asked; a blank one is done with.
process_job(w, j) ==
    /\ j \in hand[w].todo /\ hand[w].asking = "none"
    /\ IF rows_[j.msg] = Blank
       THEN queue_' = Completed(j.msg, "skipped") /\ hand' = Dropped(w, j)
       ELSE hand' = [hand EXCEPT ![w].asking = j.msg, ![w].text = rows_[j.msg]] /\ UNCHANGED queue_
    /\ UNCHANGED <<stream, rows_, dead, vectors>>

\* The answer: the embedding and the completed job are one transaction.
write_embedding(w, j) ==
    /\ j \in hand[w].todo /\ hand[w].asking = j.msg
    /\ vectors' = vectors \cup {[msg |-> j.msg, text |-> hand[w].text]}
    /\ queue_' = Completed(j.msg, "completed")
    /\ hand' = Dropped(w, j)
    /\ UNCHANGED <<stream, rows_, dead>>

\* Whatever state the job is in by now is overwritten.
mark_failed(w, j) ==
    /\ j \in hand[w].todo /\ hand[w].asking = j.msg
    /\ queue_' = [queue_ EXCEPT ![j.msg] =
                    IF j.tries + 1 >= MaxAttempts
                    THEN [st |-> "failed", tries |-> j.tries + 1, due |-> TRUE, lock |-> "none"]
                    ELSE [st |-> "pending", tries |-> j.tries + 1, due |-> FALSE, lock |-> "none"]]
    /\ hand' = Dropped(w, j)
    /\ UNCHANGED <<stream, rows_, dead, vectors>>

\* The worker stops, or the database fails while a failure is recorded: the
\* rest of the batch stays claimed until its locks are old.
EmbedderStops(w) ==
    /\ hand[w] # NoHand
    /\ hand' = [hand EXCEPT ![w] = NoHand]
    /\ UNCHANGED <<stream, rows_, dead, queue_, vectors>>

LogNext ==
    \/ \E b \in Bulletins : PublishMessage(b)
    \/ \E i \in DOMAIN stream, o \in {"acked", "lost", "nak"} : handle_nats_message(i, o)
    \/ \E w \in Embedders :
         \/ \E S \in SUBSET DOMAIN queue_ : claim_jobs(w, S)
         \/ \E j \in hand[w].todo : process_job(w, j) \/ write_embedding(w, j) \/ mark_failed(w, j)
         \/ EmbedderStops(w)
    \/ \E m \in DOMAIN queue_ : LockAges(m) \/ BackoffEnds(m)

Handled(i) == IF stream[i].kind = "junk" THEN i \in dead ELSE stream[i].msg \in DOMAIN rows_

(* A publication that was acknowledged was recorded or is a dead letter      *)
(* (consumer.rs, handle_nats_message).  What is recorded, and every          *)
(* embedding, is a text that was published for the message.  A message has   *)
(* one job however often it is delivered, a job done has its embedding even  *)
(* if a worker that was overtaken reports a failure, and a job is given up   *)
(* only after all its attempts (embedding_worker.rs, mark_failed).           *)
MessagesTrue ==
    /\ \A i \in DOMAIN stream : stream[i].st = "acked" => Handled(i)
    /\ \A m \in DOMAIN rows_ : \E i \in DOMAIN stream : stream[i].msg = m /\ stream[i].text = rows_[m] /\ stream[i].given > 0
    /\ \A v \in vectors : \E i \in DOMAIN stream : stream[i].msg = v.msg /\ stream[i].text = v.text /\ v.text # Blank
    /\ \A i \in DOMAIN stream : stream[i].kind = "text" /\ stream[i].st = "acked" => stream[i].msg \in DOMAIN queue_
    /\ \A m \in DOMAIN queue_ :
         /\ queue_[m].st = "completed" => \E v \in vectors : v.msg = m
         /\ queue_[m].st = "failed" => queue_[m].tries = MaxAttempts
         /\ queue_[m].tries <= MaxAttempts
=============================================================================
