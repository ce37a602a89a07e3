----------------------------- MODULE EventCapture -----------------------------
(* A raw channel event from the stream to what it starts.  The consumer      *)
(* stores it, without the credentials of an upload callback and, if it came  *)
(* through the protected subject, with the one group it is about; then it    *)
(* applies the event mappings: a mapping or an automation in shadow only     *)
(* observes the event, an active automation gets a run.  Mappings and        *)
(* automations are published and activated meanwhile, and an event that was  *)
(* not acknowledged comes again.                                             *)
EXTENDS EventExtraction
LOCAL INSTANCE FiniteSetsExt
LOCAL INSTANCE SequencesExt

CONSTANTS Envelopes,      \* what is published: [json, auth], auth on the protected subject
          EnvelopeLimits, \* RAW_EVENT_ENVELOPE_LIMITS
          Registries,     \* what may be embedded in the program: name |-> registry
          Stored,         \* the StoredForm of the envelopes that can be read
          Admitted,       \* [registry, def]: the definitions that replay its fixtures
          Interpreted,    \* [registry, def, payload, events]: their CanonicalEvents
          Definitions,    \* the definitions somebody proposes
          Secrets,        \* the credentials of a callback
          Rooms,          \* groups with an automation
          Consumers,
          MaxDeliveries, MaxMaps, MaxAutos  \* bounds

VARIABLES registry,   \* the name of the embedded registry
          groups_,     \* room |-> "active" or "closed"
          raw_events, \* event id |-> [auth, room, payload, created]
          maps_,      \* versions of the mapping: [def, st, created]
          autos_,     \* versions of automations: [room, map, st, created, activated, done]
          observed,   \* shadow observations: [map, auto, raw, ev]
          started,    \* runs: [room, auto, raw, ev]
          signing,    \* room |-> when the activation in progress began, 0 if none
          taker,      \* consumer |-> [at, id, todo, list]
          sent_,      \* deliveries so far
          clk
evars == <<registry, groups_, raw_events, maps_, autos_, observed, started, signing, taker, sent_, clk>>

NoTask == [at |-> "idle", id |-> <<>>, todo |-> <<>>, list |-> <<>>]

EventsInit ==
    /\ registry \in DOMAIN Registries
    /\ groups_ = <<>> /\ raw_events = <<>> /\ maps_ = <<>> /\ autos_ = <<>>
    /\ observed = {} /\ started = {}
    /\ signing = [r \in Rooms |-> 0]
    /\ taker = [c \in Consumers |-> NoTask]
    /\ sent_ = 0 /\ clk = 1

Later == clk' = clk + 1
With(f, k, v) == [i \in DOMAIN f \cup {k} |-> IF i = k THEN v ELSE f[i]]

(***************************************************************************)
(* Callbacks are stored without their credentials                          *)
(***************************************************************************)

normalize_json_key(k) == IF k \in DOMAIN Spellings THEN Spellings[k] ELSE k
ElementAt(v, i) == IF v.t = "object" /\ i # 0 THEN v.c[i] ELSE Fails
value_for_normalized_key(v, k) == ElementAt(v, SelectInSeq(v.s, LAMBDA x : normalize_json_key(x) = k))

value_to_string(v) ==
    CASE v.t = "string" -> trim(v.s) [] v.t \in {"integer", "fraction", "boolean"} -> v.s [] OTHER -> <<>>

is_async_callback_event(v) ==
    LET cmd == value_for_normalized_key(v, "cmd")
    IN  cmd.t \in {"integer", "string"} /\ trim(cmd.s) = <<"20000">>

FileFields == <<"fileaeskey", "fileid", "filemd5", "filesize", "filename", "cloudurl">>
Summary(present, isObject, fields, unknown) ==
    Object(<<"msgdatapresent", "msgdataobject", "fieldpresence", "required", "unknownfieldcount">>,
           <<present, isObject, Object(fields, [i \in DOMAIN fields |-> True]),
             IF ToSet(SubSeq(FileFields, 1, 4)) \subseteq ToSet(fields) THEN True ELSE False, unknown>>)

callback_msg_data_summary(v) ==
    LET keys == {normalize_json_key(k) : k \in ToSet(v.s)}
        unknown == SelectSeq(v.s, LAMBDA k : normalize_json_key(k) \notin ToSet(FileFields))
    IN  IF v.t # "object" THEN Summary(IF v = Fails THEN False ELSE True, False, <<>>, Number("0"))
        ELSE Summary(True, True, SelectSeq(FileFields, LAMBDA f : f \in keys), Number(Digits[Len(unknown) + 1]))

CallbackEvent(hash, summary) ==
    Object(<<"cmd", "requestidsha256", "msgdatasummary">>, <<Number("20000"), hash, summary>>)

sanitize_async_callback_event(v) ==
    LET id == value_to_string(value_for_normalized_key(v, "requestid"))
    IN  CallbackEvent(IF id = <<>> THEN Null ELSE Text(<<"sha256">> \o id),
                      callback_msg_data_summary(value_for_normalized_key(v, "msgdata")))

RECURSIVE collect_sanitized_callback_events(_)
collect_sanitized_callback_events(v) ==
    IF is_async_callback_event(v) THEN <<sanitize_async_callback_event(v)>>
    ELSE FlattenSeq([i \in DOMAIN Members(v) |-> collect_sanitized_callback_events(Members(v)[i])])

is_sanitized_callback_payload(v) ==
    /\ Get(v, "source") = Text(<<"qiwe_async_callback">>)
    /\ Get(v, "credentials_redacted") = True
    /\ Get(v, "callback_events").t = "array"

\* What is read back of a summary: presence only, and what is not told is absent.
canonicalize_callback_msg_data_summary(v) ==
    LET Flag(k) == IF value_for_normalized_key(v, k) = True THEN True ELSE False
        told == value_for_normalized_key(v, "fieldpresence")
        unknown == value_for_normalized_key(v, "unknownfieldcount")
    IN  IF v.t # "object" THEN callback_msg_data_summary(Fails)
        ELSE Summary(Flag("msgdatapresent"), Flag("msgdataobject"),
                     SelectSeq(FileFields, LAMBDA f : value_for_normalized_key(told, f) = True),
                     IF unknown.t = "integer" THEN unknown ELSE Number("0"))

canonicalize_sanitized_callback_event(v) ==
    LET hash == value_for_normalized_key(v, "requestidsha256")
        summary == value_for_normalized_key(v, "msgdatasummary")
    IN  CallbackEvent(IF hash.t = "string" /\ Len(hash.s) > 1 /\ hash.s[1] = "sha256" THEN hash ELSE Null,
                      IF summary = Fails THEN callback_msg_data_summary(Fails)
                      ELSE canonicalize_callback_msg_data_summary(summary))

Redacted(events) == Object(<<"callback_events", "credentials_redacted", "source">>,
                           <<List(events), True, Text(<<"qiwe_async_callback">>)>>)
canonicalize_sanitized_callback_payload(v) ==
    LET kept == SelectSeq(Get(v, "callback_events").c, is_async_callback_event)
    IN  Redacted([i \in DOMAIN kept |-> canonicalize_sanitized_callback_event(kept[i])])

sanitize_qiwe_raw_payload(v) ==
    IF is_sanitized_callback_payload(v) THEN canonicalize_sanitized_callback_payload(v)
    ELSE IF collect_sanitized_callback_events(v) = <<>> THEN v
    ELSE Redacted(collect_sanitized_callback_events(v))

callback_event_id(id) == IF id[1] = "qiwe-callback" THEN id ELSE <<"qiwe-callback">> \o id

\* A raw event is [id, payload].
sanitized_for_storage(e) ==
    LET p == sanitize_qiwe_raw_payload(e.payload)
    IN  [id |-> IF is_sanitized_callback_payload(p) THEN callback_event_id(e.id) ELSE e.id, payload |-> p]

from_value(v) ==
    LET named == value_to_string(Get(v, "event_id"))
        id == IF named # <<>> THEN named ELSE value_to_string(pointer(v, <<"payload", "msgUniqueIdentifier">>))
    IN  sanitized_for_storage([id |-> id, payload |-> Get(v, "payload")])

Readable(v) == /\ parse_strict_bounded_str(JsonText(v), EnvelopeLimits) # Fails
               /\ Get(v, "payload") # Fails
               /\ value_to_string(Get(v, "event_id")) # <<>>
                     \/ value_to_string(pointer(v, <<"payload", "msgUniqueIdentifier">>)) # <<>>

\* The rooms a payload names, also within the data of the data.
RECURSIVE collect_qiwe_room_ids(_, _)
collect_qiwe_room_ids(v, depth) ==
    CASE depth > 4 -> {}
      [] depth <= 4 /\ v.t = "object" ->
            ({value_to_string(Get(v, "fromRoomId"))} \ {<<>>, <<"0">>})
            \cup collect_qiwe_room_ids(Get(v, "data"), depth + 1)
      [] depth <= 4 /\ v.t = "array" ->
            UNION {collect_qiwe_room_ids(v.c[i], depth + 1) : i \in 1 .. Min({Len(v.c), MaxItems})}
      [] depth <= 4 /\ v.t = "string" ->
            collect_qiwe_room_ids(parse_strict_bounded_str(v, DataLimits), depth + 1)
      [] OTHER -> {}

unique_group_chat_id(payload) ==
    LET found == collect_qiwe_room_ids(payload, 0)
    IN  IF Cardinality(found) = 1 THEN CHOOSE r \in found : TRUE ELSE <<>>

(***************************************************************************)
(* The consumer                                                            *)
(***************************************************************************)

\* What is stored of an envelope that can be read, and the room it is about.  Only the protected subject vouches for an event.
StoredForm(v) ==
    LET e == sanitized_for_storage(from_value(v.json))
    IN  [auth |-> v.auth, id |-> e.id, payload |-> e.payload, room |-> IF v.auth THEN unique_group_chat_id(e.payload) ELSE <<>>]

\* The first vouched-for copy of an event replaces what was stored, and
\* nothing replaces that.
persist_raw_event(c, e) ==
    LET known == e.id \in DOMAIN raw_events
        takes == ~known \/ (e.auth /\ ~raw_events[e.id].auth)
    IN  /\ taker[c].at = "idle" /\ sent_ < MaxDeliveries
        /\ groups_' = IF e.room = <<>> \/ e.room \in DOMAIN groups_ THEN groups_
                      ELSE With(groups_, e.room, "active")
        /\ raw_events' = IF ~takes THEN raw_events
                         ELSE With(raw_events, e.id,
                                   [auth |-> e.auth, room |-> e.room, payload |-> e.payload,
                                    created |-> IF known THEN raw_events[e.id].created ELSE clk])
        /\ taker' = [taker EXCEPT ![c] = [NoTask EXCEPT !.at = "stored", !.id = e.id]]
        /\ sent_' = sent_ + 1 /\ clk' = IF known THEN clk ELSE clk + 1
        /\ UNCHANGED <<registry, maps_, autos_, observed, started, signing>>

Primitives == load_registered_restricted_primitives(Registries[registry].primitives)

\* The versions in use, the newest first.
load_mappings ==
    SelectSeq(Reverse([m \in DOMAIN maps_ |-> m]), LAMBDA m : maps_[m].st \in {"shadow", "active"})

\* What a definition makes of the items: one that does not parse is skipped,
\* and so is an item that cannot be extracted.
CanonicalEvents(g, d, payload) ==
    LET primitives == load_registered_restricted_primitives(Registries[g].primitives)
    IN  IF PrimitivesLoad(Registries[g].primitives) /\ parse_definition(d, primitives)
        THEN SelectSeq(replay_mapping(d, payload, primitives), LAMBDA e : e # NoEvent) ELSE <<>>

\* The events the mappings make of a stored one, mapping by mapping.
EventsOf(r, m) == (CHOOSE x \in Interpreted : x.registry = registry /\ x.def = maps_[m].def /\ x.payload = r.payload).events
Jobs(m, es) == FoldLeft(LAMBDA js, e : Append(js, [map |-> m, st |-> maps_[m].st, ev |-> e]), <<>>, es)
Work(r, ms) == FoldLeft(LAMBDA js, m : js \o Jobs(m, EventsOf(r, m)), <<>>, ms)
Begun(c, work) == IF work = <<>> THEN NoTask ELSE [taker[c] EXCEPT !.at = "next", !.todo = work]

process_persisted_raw_event(c) ==
    LET r == raw_events[taker[c].id]
    IN  /\ taker[c].at = "stored"
        /\ taker' = [taker EXCEPT ![c] = IF ~r.auth \/ r.room = <<>> THEN NoTask ELSE Begun(c, Work(r, load_mappings))]
        /\ UNCHANGED <<registry, groups_, raw_events, maps_, autos_, observed, started, signing, sent_, clk>>

Drop(c) == IF Len(taker[c].todo) = 1 THEN NoTask ELSE [taker[c] EXCEPT !.at = "next", !.todo = Tail(@)]

\* resolve_space, and the Space of the mapping's event against the stored one.
resolve_space(c) ==
    LET job == Head(taker[c].todo)
        fits == /\ job.ev.chat \in DOMAIN groups_ /\ groups_[job.ev.chat] = "active"
                /\ job.ev.chat = raw_events[taker[c].id].room
    IN  /\ taker[c].at = "next"
        /\ taker' = [taker EXCEPT ![c] = IF ~fits THEN Drop(c)
                                         ELSE [@ EXCEPT !.at = IF job.st = "shadow" THEN "observe" ELSE "dispatch"]]
        /\ UNCHANGED <<registry, groups_, raw_events, maps_, autos_, observed, started, signing, sent_, clk>>

\* The observation is recorded if mapping and automation are in shadow now,
\* are older than the event, and it is the first for this event and scope.
Observation(c, a) == [map |-> Head(taker[c].todo).map, auto |-> a, raw |-> taker[c].id, ev |-> Head(taker[c].todo).ev]
shadow_observation_idempotency_key(o) == <<o.map, o.auto, o.ev.id, o.ev.chat>>
create_shadow_observation(c, a) ==
    LET o == Observation(c, a)
        born == raw_events[o.raw].created
    IN  IF /\ born > maps_[o.map].created
           /\ IF a = 0 THEN maps_[o.map].st = "shadow"
              ELSE /\ maps_[o.map].st \in {"shadow", "active"}
                   /\ autos_[a].st = "shadow" /\ born > autos_[a].created
           /\ \A p \in observed : shadow_observation_idempotency_key(p) # shadow_observation_idempotency_key(o)
        THEN observed \cup {o} ELSE observed

ObserveInShadow(c) ==
    /\ taker[c].at = "observe"
    /\ observed' = create_shadow_observation(c, 0)
    /\ taker' = [taker EXCEPT ![c].at = "dispatch"]
    /\ UNCHANGED <<registry, groups_, raw_events, maps_, autos_, started, signing, sent_, clk>>

\* The automations of the Space bound to this version that may have the event;
\* business, policy and capability are those of SpaceAutomation.
dispatch_event_automations(c) ==
    LET job == Head(taker[c].todo)
        r == raw_events[taker[c].id]
        found == SelectSeq(Reverse([a \in DOMAIN autos_ |-> a]), LAMBDA a :
                    /\ autos_[a].room = r.room /\ autos_[a].map = job.map
                    /\ \/ autos_[a].st = "shadow" /\ r.created > autos_[a].created /\ r.created > maps_[job.map].created
                       \/ autos_[a].st = "active" /\ r.created > autos_[a].activated /\ maps_[job.map].st = "active")
        list == [i \in DOMAIN found |-> [auto |-> found[i], st |-> autos_[found[i]].st]]
    IN  /\ taker[c].at = "dispatch"
        /\ taker' = [taker EXCEPT ![c] = IF list = <<>> THEN Drop(c) ELSE [@ EXCEPT !.at = "insert", !.list = list]]
        /\ UNCHANGED <<registry, groups_, raw_events, maps_, autos_, observed, started, signing, sent_, clk>>

\* One automation of the list: an observation, or the run, which is made once
\* for the automation's key and the provider's event.
InsertDispatched(c) ==
    LET a == Head(taker[c].list)
        o == Observation(c, a.auto)
        old == {s \in started : s.room = o.ev.chat /\ s.ev.id = o.ev.id}
        rest == Tail(taker[c].list)
    IN  /\ taker[c].at = "insert"
        /\ observed' = IF a.st = "shadow" THEN create_shadow_observation(c, a.auto) ELSE observed
        /\ started' = IF a.st = "shadow" \/ old # {} THEN started
                      ELSE started \cup {[room |-> o.ev.chat, auto |-> a.auto, raw |-> o.raw, ev |-> o.ev]}
        /\ taker' = [taker EXCEPT ![c] = IF rest = <<>> THEN Drop(c) ELSE [@ EXCEPT !.list = rest]]
        /\ UNCHANGED <<registry, groups_, raw_events, maps_, autos_, signing, sent_, clk>>

\* An error or a crash: what was not acknowledged may be delivered again.
TakerStops(c) ==
    /\ taker[c].at # "idle"
    /\ taker' = [taker EXCEPT ![c] = NoTask]
    /\ UNCHANGED <<registry, groups_, raw_events, maps_, autos_, observed, started, signing, sent_, clk>>

(***************************************************************************)
(* Others: groups are closed, definitions are published and activated      *)
(* (SpaceConfiguration has the details)                                    *)
(***************************************************************************)

CloseGroup(r) ==
    /\ r \in DOMAIN groups_ /\ groups_[r] = "active"
    /\ groups_' = [groups_ EXCEPT ![r] = "closed"]
    /\ UNCHANGED <<registry, raw_events, maps_, autos_, observed, started, signing, taker, sent_, clk>>

PublishMapping(d) ==
    /\ Len(maps_) < MaxMaps /\ [registry |-> registry, def |-> d] \in Admitted
    /\ maps_' = Append(maps_, [def |-> d, st |-> "shadow", created |-> clk])
    /\ Later
    /\ UNCHANGED <<registry, groups_, raw_events, autos_, observed, started, signing, taker, sent_>>

RetireAutos(r, sts) == [a \in DOMAIN autos_ |-> IF autos_[a].room = r /\ autos_[a].st \in sts
                                                THEN [autos_[a] EXCEPT !.st = "retired"] ELSE autos_[a]]

BindAutomation(r) ==
    /\ Len(autos_) < MaxAutos /\ maps_ # <<>> /\ signing[r] = 0
    /\ maps_[Len(maps_)].st \in {"shadow", "active"}
    /\ autos_' = Append(RetireAutos(<<r>>, {"shadow"}),
                        [room |-> <<r>>, map |-> Len(maps_), st |-> "shadow", created |-> clk, activated |-> 0, done |-> 0])
    /\ Later
    /\ UNCHANGED <<registry, groups_, raw_events, maps_, observed, started, signing, taker, sent_>>

\* The automation of a room that is in shadow and was observed.
Rehearsed(r) == {a \in DOMAIN autos_ : autos_[a].room = <<r>> /\ autos_[a].st = "shadow" /\ \E o \in observed : o.auto = a}

\* The time of an activation is the time its transaction began.
BeginActivation(r) ==
    /\ signing[r] = 0 /\ Rehearsed(r) # {}
    /\ signing' = [signing EXCEPT ![r] = clk] /\ Later
    /\ UNCHANGED <<registry, groups_, raw_events, maps_, autos_, observed, started, taker, sent_>>

CommitActivation(r) ==
    \E a \in Rehearsed(r) :
       LET old == maps_[autos_[a].map]
           new == old.st = "shadow"
       IN  /\ signing[r] # 0 /\ Len(autos_) < MaxAutos
           /\ new => Len(maps_) < MaxMaps /\ \A m \in DOMAIN maps_ : maps_[m].st # "active"
           /\ maps_' = IF new THEN Append(maps_, [def |-> old.def, st |-> "active", created |-> signing[r]]) ELSE maps_
           /\ autos_' = Append(RetireAutos(<<r>>, {"shadow", "active"}),
                               [room |-> <<r>>, map |-> IF new THEN Len(maps_) + 1 ELSE autos_[a].map, st |-> "active",
                                created |-> signing[r], activated |-> signing[r], done |-> clk])
           /\ signing' = [signing EXCEPT ![r] = 0]
           /\ UNCHANGED <<registry, groups_, raw_events, observed, started, taker, sent_, clk>>

EventsNext ==
    \/ \E c \in Consumers : \/ \E e \in Stored : persist_raw_event(c, e)
                            \/ process_persisted_raw_event(c) \/ resolve_space(c) \/ ObserveInShadow(c)
                            \/ dispatch_event_automations(c) \/ InsertDispatched(c) \/ TakerStops(c)
    \/ \E r \in DOMAIN groups_ : CloseGroup(r)
    \/ \E d \in Definitions : PublishMapping(d)
    \/ \E r \in Rooms : BindAutomation(r) \/ BeginActivation(r) \/ CommitActivation(r)

(***************************************************************************)
(* Properties                                                              *)
(***************************************************************************)

\* What an event caused: it came through the protected subject, and what was
\* made of it is what the mapping's definition makes of an item of the
\* payload that was kept, in the room the event was stored for.
Grounded(m, o) ==
    /\ raw_events[o.raw].auth /\ o.ev.chat = raw_events[o.raw].room
    /\ \E item \in ToSet(expand_data_items(raw_events[o.raw].payload)) :
          /\ evaluate_predicate(maps_[m].def.selector, item)
          /\ extract_event(maps_[m].def.extractor, item, Primitives) = o.ev

\* Shadow observations and runs are true to the events (persist_raw_event,
\* process_persisted_raw_event, dispatch_event_automations), whatever is
\* published or repeated meanwhile.  An event that served to rehearse an
\* automation is not executed by a later version of it, unless it came while
\* the activation was being committed.  No mapping in use takes every record
\* of its fixtures.  No credential of a callback is stored, and an event that
\* is stored reads the same when it is delivered again.
EventsTrue ==
    /\ \A o \in observed : Grounded(o.map, o)
    /\ \A s \in started : /\ Grounded(autos_[s.auto].map, s)
                          /\ raw_events[s.raw].created > autos_[s.auto].activated
    /\ \A s, t \in started : s.room = t.room /\ s.ev.id = t.ev.id => s = t
    /\ \A s \in started, o \in observed :
          o.auto # 0 /\ o.auto < s.auto /\ o.raw = s.raw /\ o.ev = s.ev => raw_events[s.raw].created < autos_[s.auto].done
    /\ \A m \in DOMAIN maps_ : \E f \in ToSet(Registries[registry].fixtures) :
          \E item \in ToSet(expand_data_items(f.event)) : ~evaluate_predicate(maps_[m].def.selector, item)
    /\ \A i \in DOMAIN raw_events :
          /\ \A w \in ToSet(Trees(raw_events[i].payload)) : ToSet(w.s) \cap Secrets = {}
          /\ sanitized_for_storage([id |-> i, payload |-> raw_events[i].payload]) = [id |-> i, payload |-> raw_events[i].payload]
=============================================================================
