-------------------------- MODULE ActivitySignals --------------------------
(* The signals of one chat and day.  Extractors read the messages of the     *)
(* day, write one signal per dedupe key and retire the signals no message    *)
(* supports any more, statement by statement; Xiaoman changes the signals it *)
(* owns, each change with an audit row in the same transaction; and its      *)
(* worker turns them into requests of the operations control plane, one per  *)
(* signal and phase, from candidates it read before.                         *)
EXTENDS Naturals, Sequences, FiniteSets

CONSTANTS Extractors,   \* processes that extract
          Mutations,    \* mutation ids callers use
          MaxSignal     \* bound: signal rows ever made

VARIABLES chat,      \* message |-> "absent", "said" or "bot"
          signals,   \* dedupe key |-> row or NoSignal
          made,      \* signal rows made, and so their ids
          scan,      \* extractor |-> [pc, keys, todo]
          audit,     \* rows of event_signal_mutations, in order; Erased: deleted
          requests,  \* work items: [signal, phase]
          picked,    \* candidates the signal worker has read
          past       \* history: [signal, phase] that were once true

svars == <<chat, signals, made, scan, audit, requests, picked, past>>

NoSignal == [id |-> 0]
NoScan == [pc |-> "idle", keys |-> {}, todo |-> {}]
Erased == [id |-> "none", signal |-> 0, op |-> "none", old |-> "none", new |-> "none"]

-----------------------------------------------------------------------------
(* Extraction.  One message of the day is about an activity and a facility,  *)
(* one about a facility only and one is idle.                                *)

Labels == [m1 |-> {"activity", "service"}, m2 |-> {"service", "content"}, m3 |-> {"casual"}]
classify_candidate(m) == IF chat[m] = "said" THEN Labels[m] ELSE {}

\* The first label in this order decides the type, and so the owner.
judge_candidate(labels) ==
    CASE "activity" \in labels -> "activity"
      [] "service" \in labels /\ "activity" \notin labels -> "service"
      [] OTHER -> "none"
owner_agent(type) == IF type = "activity" THEN "xiaoman" ELSE "xiaoguanjia"

\* An activity has one signal, anything else one signal per message.
dedupe_key(m) == IF judge_candidate(Labels[m]) = "activity" THEN "activity" ELSE m
TypeOf(k) == IF k = "activity" THEN "activity" ELSE "service"
SignalKeys == {"activity", "m2"}

initial_phase_for_signal(type) == IF type = "activity" THEN 1 ELSE 0

SignalsInit ==
    /\ chat = [m \in DOMAIN Labels |-> IF m = "m1" THEN "absent" ELSE "said"]
    /\ signals = [k \in SignalKeys |-> NoSignal] /\ made = 0
    /\ scan = [e \in Extractors |-> NoScan]
    /\ audit = <<>> /\ requests = {} /\ picked = {} /\ past = {}

\* A message of the day is stored late, or its sender turns out to be a bot.
MessageStored(m) ==
    /\ \/ chat[m] = "absent" /\ chat' = [chat EXCEPT ![m] = "said"]
       \/ chat[m] = "said" /\ m = "m1" /\ chat' = [chat EXCEPT ![m] = "bot"]
    /\ UNCHANGED <<signals, made, scan, audit, requests, picked, past>>

load_messages_between == {m \in DOMAIN chat : chat[m] # "absent"}
judge_candidates ==
    {dedupe_key(m) : m \in {n \in load_messages_between :
                               judge_candidate(classify_candidate(n)) # "none"}}

run_inner(e) ==
    /\ scan[e].pc = "idle"
    /\ scan' = [scan EXCEPT ![e] = [pc |-> "write", keys |-> judge_candidates,
                                    todo |-> judge_candidates]]
    /\ UNCHANGED <<chat, signals, made, audit, requests, picked, past>>

\* What the extraction writes over: the owner's name and the metadata, not the
\* status, the phase or the gap.
Rewritten(k) == [signals[k] EXCEPT !.promo = "none", !.wiped = (@ \/ signals[k].promo # "none")]
FreshSignal(k) ==
    [id |-> made + 1, type |-> TypeOf(k), status |-> "open", promo |-> "none", gap |-> "none",
     phase |-> initial_phase_for_signal(TypeOf(k)), published |-> FALSE, retired |-> FALSE,
     wiped |-> FALSE]

upsert_events(e) ==
    /\ scan[e].pc = "write"
    /\ IF scan[e].todo = {}
       THEN scan' = [scan EXCEPT ![e].pc = "delete"] /\ UNCHANGED <<signals, made, past>>
       ELSE \E k \in scan[e].todo :
          /\ scan' = [scan EXCEPT ![e].todo = @ \ {k}]
          /\ IF signals[k] = NoSignal
             THEN /\ made < MaxSignal /\ made' = made + 1
                  /\ signals' = [signals EXCEPT ![k] = FreshSignal(k)]
                  /\ past' = past \cup {<<made', initial_phase_for_signal(TypeOf(k))>>}
             ELSE signals' = [signals EXCEPT ![k] = Rewritten(k)] /\ UNCHANGED <<made, past>>
    /\ UNCHANGED <<chat, audit, requests, picked>>

Unsupported(e) == {k \in SignalKeys \ scan[e].keys : signals[k] # NoSignal}

\* An unpublished signal is deleted: its audit rows go with it, its requests
\* lose their reference.
delete_stale_events(e) ==
    /\ scan[e].pc = "delete" /\ scan' = [scan EXCEPT ![e].pc = "close"]
    /\ LET gone == {k \in Unsupported(e) : ~signals[k].published} IN
       /\ signals' = [k \in SignalKeys |-> IF k \in gone THEN NoSignal ELSE signals[k]]
       /\ audit' = [i \in DOMAIN audit |-> IF \E k \in gone : audit[i].signal = signals[k].id
                                          THEN Erased ELSE audit[i]]
    /\ UNCHANGED <<chat, made, requests, picked, past>>

close_stale_events(e) ==
    /\ scan[e].pc = "close" /\ scan' = [scan EXCEPT ![e] = NoScan]
    /\ signals' = [k \in SignalKeys |-> IF k \in Unsupported(e) /\ signals[k].published
                       THEN [signals[k] EXCEPT !.status = "closed", !.retired = TRUE] ELSE signals[k]]
    /\ UNCHANGED <<chat, made, audit, requests, picked, past>>

ExtractorDies(e) ==
    /\ scan[e].pc # "idle" /\ scan' = [scan EXCEPT ![e] = NoScan]
    /\ UNCHANGED <<chat, signals, made, audit, requests, picked, past>>

\* The digest publisher gives a signal that is not closed its Feishu record.
PublishDigest(k) ==
    /\ signals[k] # NoSignal /\ signals[k].status # "closed" /\ ~signals[k].published
    /\ signals' = [signals EXCEPT ![k].published = TRUE]
    /\ UNCHANGED <<chat, made, scan, audit, requests, picked, past>>

-----------------------------------------------------------------------------
(* Changes of a signal.                                                      *)

Values == [status |-> {"open", "doing", "closed"}, phase |-> {1, 3},
           gap |-> {"photo"}, promo |-> {"wanted"}]

validate_status_transition(old, new) == old = new \/ old \in {"open", "doing"}
can_transition_to(old, new) == old <= new
activity_only(op) == op \in {"phase", "promo"}

\* Mutant: the phase may move back.
transition_allowedMutant(row, op, new) ==
    /\ activity_only(op) => row.type = "activity"
    /\ op = "status" => validate_status_transition(row.status, new)

transition_allowed(row, op, new) ==
    /\ activity_only(op) => row.type = "activity"
    /\ op = "status" => validate_status_transition(row.status, new)
    /\ op = "phase" => can_transition_to(row.phase, new)

Current(row, op) == row[op]
Updated(row, op, new) ==
    CASE op = "status" -> [row EXCEPT !.status = new, !.retired = (@ /\ new = "closed")]
      [] op = "gap" -> [row EXCEPT !.gap = new]
      [] op = "phase" -> [row EXCEPT !.phase = new]
      [] OTHER -> [row EXCEPT !.promo = new, !.wiped = FALSE]

replayed(id) == \E i \in DOMAIN audit : audit[i] # Erased /\ audit[i].id = id

\* One transaction with the row locked.  A mutation id already used changes
\* nothing, whether it is a replay or was used for something else.
apply_event_signal_mutation(id, k, op, new) ==
    /\ signals[k] # NoSignal /\ owner_agent(signals[k].type) = "xiaoman" /\ ~replayed(id)
    /\ transition_allowed(signals[k], op, new)
    /\ signals' = [signals EXCEPT ![k] = Updated(signals[k], op, new)]
    /\ audit' = Append(audit, [id |-> id, signal |-> signals[k].id, op |-> op,
                               old |-> Current(signals[k], op), new |-> new])
    /\ past' = past \cup {<<signals'[k].id, signals'[k].phase>>}
    /\ UNCHANGED <<chat, made, scan, requests, picked>>

-----------------------------------------------------------------------------
(* Requests.                                                                 *)

signal_idempotency_key(id, phase) == <<id, phase>>

load_signal_ingest_candidates ==
    {<<s.id, s.phase>> : s \in {signals[k] : k \in {j \in SignalKeys :
        /\ signals[j] # NoSignal /\ signals[j].type = "activity"
        /\ signals[j].status \in {"open", "doing"}
        /\ signal_idempotency_key(signals[j].id, signals[j].phase) \notin requests}}}

run_signal_worker_batch ==
    /\ picked = {} /\ load_signal_ingest_candidates # {}
    /\ picked' = load_signal_ingest_candidates
    /\ UNCHANGED <<chat, signals, made, scan, audit, requests, past>>

\* The request is made for the phase that was read; a signal deleted since
\* fails the insert and with it the rest of the batch.
SubmitCandidate ==
    /\ \E c \in picked :
          IF \E k \in SignalKeys : signals[k].id = c[1]
          THEN /\ requests' = requests \cup {signal_idempotency_key(c[1], c[2])}
               /\ picked' = picked \ {c}
          ELSE picked' = {} /\ UNCHANGED requests
    /\ UNCHANGED <<chat, signals, made, scan, audit, past>>

\* The same for one signal by hand: the phase asked for, if any, must be the
\* stored one.
execute_signal_ingest(k, asked) ==
    /\ signals[k] # NoSignal /\ signals[k].type = "activity" /\ asked \in {0, signals[k].phase}
    /\ requests' = requests \cup {signal_idempotency_key(signals[k].id, signals[k].phase)}
    /\ UNCHANGED <<chat, signals, made, scan, audit, picked, past>>

SignalsNext ==
    \/ \E m \in DOMAIN chat : MessageStored(m)
    \/ \E e \in Extractors : run_inner(e) \/ upsert_events(e) \/ delete_stale_events(e)
                                \/ close_stale_events(e) \/ ExtractorDies(e)
    \/ \E k \in SignalKeys : PublishDigest(k) \/ \E asked \in {0, 1} : execute_signal_ingest(k, asked)
    \/ \E id \in Mutations, k \in SignalKeys, op \in DOMAIN Values :
          \E new \in Values[op] : apply_event_signal_mutation(id, k, op, new)
    \/ run_signal_worker_batch \/ SubmitCandidate

-----------------------------------------------------------------------------
\* The audit rows of a signal, per field, form a chain that ends in the
\* signal's value, however many extractions ran in between; the exceptions are
\* a status closed because the signal was retired and promotion details a
\* later extraction wrote over.  Phases only move forward along the chain and
\* a finished status stays.  Every request is for a phase its signal had.
Chain(id, op) == {i \in DOMAIN audit : audit[i].signal = id /\ audit[i].op = op}
SignalsTrue ==
    /\ \A k \in SignalKeys : signals[k] # NoSignal =>
          LET s == signals[k] IN
          \A op \in DOMAIN Values : LET c == Chain(s.id, op) IN
             /\ ~(op = "status" /\ s.retired) /\ ~(op = "promo" /\ s.wiped) =>
                   \A i \in c : (\A j \in c : j <= i) => s[op] = audit[i].new
             /\ \A i, j \in c : i < j =>
                   /\ op \in {"gap", "phase"} /\ (\A n \in c : n <= i \/ j <= n) => audit[j].old = audit[i].new
                   /\ op = "phase" => audit[i].new <= audit[j].new
                   /\ op = "status" /\ audit[i].new = "closed" => audit[j].new = "closed"
    /\ requests \subseteq past
    /\ \A i, j \in DOMAIN audit : audit[i] # Erased /\ audit[j] # Erased /\ audit[i].id = audit[j].id => i = j
=============================================================================
