--------------------------- MODULE MemberProfile ---------------------------
(* What the service notes about members.  A worker reads the latest messages *)
(* of its chats, tells what each says about its sender by fixed rules, and   *)
(* then, in one transaction, revokes facts the rules no longer support, adds *)
(* new ones and replaces the profiles whose input changed.  Between the two  *)
(* messages arrive, senders are recognised, and another release may bring    *)
(* other rules.  A third worker copies facts into a graph, of persons and    *)
(* topics, where nothing is ever taken out again.                            *)
EXTENDS Naturals, FiniteSets, FiniteSetsExt

CONSTANTS Msgs,     \* messages, numbered as received
          Limit,    \* messages a run reads
          GraphLimit, \* facts a run copies into the graph
          Sayings,  \* what a message may say: sets of cues
          Members,  \* persons
          Nobody_   \* a sender not recognised

ASSUME MembersNamed == {Nobody_, "none"} \cap Members = {}

VARIABLES said,     \* message |-> [by, cues], by "none" while not received
          spoken,   \* cues this release knows
          shut,     \* persons whose identities are excluded
          room,     \* persons of the room
          gathered,    \* what the run has read: person |-> aggregate, or none
          inforce,    \* facts in force: [msg, person, type, key]
          profile,  \* person |-> the active snapshot, or none
          settled,  \* history: nothing changed since the last run was read
          graph     \* edges of the graph, by the fact that each rests on

mvars == <<said, spoken, shut, room, gathered, inforce, profile, settled, graph>>

NoBatch == [p \in {} |-> {}]
NoProfile == [hash |-> [msgs |-> {}, facts |-> {}], facts |-> {}, hints |-> "none"]

ProfileInit ==
    /\ said = [m \in Msgs |-> [by |-> "none", cues |-> {}]] /\ spoken = UNION Sayings
    /\ shut = {} /\ room = {} /\ gathered = NoBatch /\ inforce = {} /\ settled = FALSE
    /\ profile = [p \in Members |-> NoProfile] /\ graph = {}

-----------------------------------------------------------------------------
(* What a message says, from the cues c found in its text.                   *)

is_temporary_communication_state(c) == {"me", "silence"} \subseteq c
is_reply_style_preference(c) == "style" \in c /\ ("me" \in c \/ "you" \in c)
is_first_person_interest_or_skill(c) == "I like" \in c
is_solitaire_message(c) == "list" \in c
is_running_activity_signal(c) ==
    /\ "running" \in c
    /\ is_solitaire_message(c) \/ is_first_person_interest_or_skill(c) \/ "running event" \in c
is_activity_organizer_signal(c) == ~is_solitaire_message(c) /\ ("I organise" \in c \/ "running event" \in c)
is_activity_participation_signal(c) ==
    IF is_solitaire_message(c) THEN "long list" \notin c ELSE "I join" \in c
is_service_need_signal(c) == "repair" \in c
is_substantial_question(c) == "short" \notin c /\ "question" \in c
is_content_story_lead(c) == "story" \in c
is_system_or_placeholder_message(c) == "system" \in c

classify_profile_fact_message(c) ==
    LET steady == ~is_temporary_communication_state(c) IN
    IF is_system_or_placeholder_message(c) \/ "tiny" \in c THEN {}
    ELSE {l \in {"reply_style_preference", "temporary_communication_state", "interest", "running_activity",
                 "activity_organizer", "activity_participation", "service_need", "unresolved_question",
                 "content_story_lead", "operation_signal"} :
            CASE l = "reply_style_preference" -> is_reply_style_preference(c)
              [] l = "temporary_communication_state" -> ~steady
              [] l = "interest" -> steady /\ is_first_person_interest_or_skill(c)
              [] l = "running_activity" -> steady /\ is_running_activity_signal(c)
              [] l = "activity_organizer" -> is_activity_organizer_signal(c)
              [] l = "activity_participation" -> ~is_activity_organizer_signal(c) /\ is_activity_participation_signal(c)
              [] l = "service_need" -> is_service_need_signal(c)
              [] l = "unresolved_question" -> steady /\ is_substantial_question(c)
              [] l = "content_story_lead" -> is_content_story_lead(c)
              [] OTHER -> "rule" \in c}

\* A running signal is an interest in an activity; the other facts have the
\* type of their label, and the two activity labels share a key.
candidate_fact_for_label(m, p, l) ==
    [msg |-> m, person |-> p,
     type |-> IF l = "running_activity" THEN "activity_interest" ELSE l,
     key |-> IF l \in {"activity_organizer", "activity_participation"} THEN "activity" ELSE l]

-----------------------------------------------------------------------------
(* One run.                                                                  *)

Received == {m \in Msgs : said[m].by # "none"}

\* The latest messages first.
load_messages == {m \in Received : Cardinality({n \in Received : n > m}) < Limit}

is_profile_excluded_identity(p) == p \in shut
LabelsOf(m) == classify_profile_fact_message(said[m].cues \cap spoken)
Valuable(p) == {m \in load_messages : said[m].by = p /\ ~is_profile_excluded_identity(p) /\ LabelsOf(m) # {}}

\* Persons of the room that said nothing of value get a profile as well.
seed_current_room_profile_targets == {p \in room : ~is_profile_excluded_identity(p)}

run_profile_inner ==
    /\ gathered = NoBatch
    /\ LET spoke == {p \in Members : Valuable(p) # {}} IN
       /\ spoke \cup seed_current_room_profile_targets # {}
       /\ gathered' = [p \in spoke \cup seed_current_room_profile_targets |->
             [msgs |-> Valuable(p),
              facts |-> UNION {{candidate_fact_for_label(m, p, l) : l \in LabelsOf(m)} : m \in Valuable(p)}]]
    /\ settled' = TRUE
    /\ UNCHANGED <<said, spoken, shut, room, inforce, profile>>

\* Facts of these messages and this person the rules no longer give.
revoke_stale_profile_facts(p) == {f \in inforce : f.person = p /\ f.msg \in gathered[p].msgs /\ f \notin gathered[p].facts}

\* A message has a fact of a kind once, whoever it is about.
AlreadyNoted(F, f) == \E g \in F : g.msg = f.msg /\ g.type = f.type /\ g.key = f.key

Kept == inforce \ UNION {revoke_stale_profile_facts(p) : p \in DOMAIN gathered}
NewFacts == Kept \cup {f \in UNION {gathered[p].facts : p \in DOMAIN gathered} : ~AlreadyNoted(Kept, f)}

load_existing_fact_ids(p) == {f \in NewFacts : f.person = p /\ f.msg \in gathered[p].msgs}

\* The messages and what they give; not the facts in force.
input_hash(p) == gathered[p]

CountOf(p, types) == Cardinality({f \in gathered[p].facts : f.type \in types})
stable_profile_notes(p) ==
    CountOf(p, {"activity_interest"}) >= 1 \/ CountOf(p, {"activity_organizer"}) >= 2 \/ CountOf(p, {"interest"}) >= 1

\* Every label has a topic, so any message of value makes a profile usable.
safe_reply_hints(p) ==
    IF gathered[p].facts # {} \/ stable_profile_notes(p) THEN "profile_available" ELSE "no_stable_profile"

has_active_reply_context_snapshot(p) == profile[p] # NoProfile
find_active_snapshot_by_hash(p) == has_active_reply_context_snapshot(p) /\ profile[p].hash = input_hash(p)

\* Somebody silent keeps the profile there is; the same input makes no new one.
NewProfile(p) ==
    IF (gathered[p].msgs = {} /\ has_active_reply_context_snapshot(p)) \/ find_active_snapshot_by_hash(p)
    THEN profile[p]
    ELSE [hash |-> input_hash(p), facts |-> load_existing_fact_ids(p), hints |-> safe_reply_hints(p)]

apply_profile ==
    /\ gathered # NoBatch
    /\ inforce' = NewFacts
    /\ profile' = [p \in Members |-> IF p \in DOMAIN gathered THEN NewProfile(p) ELSE profile[p]]
    /\ gathered' = NoBatch
    /\ UNCHANGED <<said, spoken, shut, room, settled>>

\* A failed transaction leaves nothing; so does a crash.
RunLost ==
    /\ gathered # NoBatch /\ gathered' = NoBatch /\ settled' = FALSE
    /\ UNCHANGED <<said, spoken, shut, room, inforce, profile>>

-----------------------------------------------------------------------------
(* The graph.                                                                *)

\* Passing states, and activities one merely likes, make no edge.
candidate_edges ==
    {f \in inforce : f.type \in {"reply_style_preference", "interest", "activity_participation",
                                 "activity_organizer", "service_need", "unresolved_question",
                                 "content_story_lead", "operation_signal"}}

\* The newest facts, as many as a run takes; of one message, any.
newest_facts ==
    {F \in SUBSET candidate_edges :
        /\ Cardinality(F) = GraphLimit \/ (Cardinality(F) < GraphLimit /\ F = candidate_edges)
        /\ \A f \in F, g \in candidate_edges \ F : f.msg >= g.msg}

\* One statement reads the facts and adds persons, topics and edges.
project_member_facts ==
    /\ candidate_edges # {}
    /\ \E F \in newest_facts : graph' = graph \cup F
    /\ UNCHANGED <<said, spoken, shut, room, gathered, inforce, profile, settled>>

-----------------------------------------------------------------------------
(* Outside.                                                                  *)

MessageComes(m, p, c) ==
    /\ said[m].by = "none" /\ \A n \in Msgs : n < m => said[n].by # "none"
    /\ said' = [said EXCEPT ![m] = [by |-> p, cues |-> c]] /\ settled' = FALSE
    /\ UNCHANGED <<spoken, shut, room, gathered, inforce, profile>>

\* A sender not recognised at first is later, and for good.
SenderRecognised(m, p) ==
    /\ said[m].by = Nobody_ /\ said' = [said EXCEPT ![m].by = p] /\ settled' = FALSE
    /\ UNCHANGED <<spoken, shut, room, gathered, inforce, profile>>

\* A release with other rules or exclusions; the run under way is over.
NewRelease(k, x) ==
    /\ <<k, x>> # <<spoken, shut>> /\ spoken' = k /\ shut' = x /\ gathered' = NoBatch /\ settled' = FALSE
    /\ UNCHANGED <<said, room, inforce, profile>>

JoinsRoom(p) ==
    /\ p \notin room /\ room' = room \cup {p} /\ settled' = FALSE
    /\ UNCHANGED <<said, spoken, shut, gathered, inforce, profile>>

MembersNext ==
    \/ run_profile_inner \/ apply_profile \/ RunLost
    \/ \E m \in Msgs, p \in Members : SenderRecognised(m, p)
    \/ \E m \in Msgs, p \in Members \cup {Nobody_}, c \in Sayings : MessageComes(m, p, c)
    \/ \E k \in Sayings \cup {UNION Sayings} : \E x \in {{}, {CHOOSE p \in Members : TRUE}} : NewRelease(k, x)
    \/ \E p \in Members : JoinsRoom(p)

ProfileNext == (MembersNext /\ UNCHANGED graph) \/ project_member_facts

-----------------------------------------------------------------------------
\* Once a run has gone through and nothing changed since it was read, the
\* profile of whoever spoke rests on exactly the facts in force of the messages
\* it was made from, all of them what the rules give now, and everybody in the
\* room has one.  At any time a message counts once for each kind of fact, a
\* profile never rests on a fact about somebody else, and no edge of the graph,
\* however old, joins a person with a topic that somebody else spoke of.
ProfilesTrue ==
    /\ \A f, g \in inforce : f.msg = g.msg /\ f.type = g.type /\ f.key = g.key => f = g
    /\ \A p \in Members : \A f \in profile[p].facts : f.person = p
    /\ settled /\ gathered = NoBatch =>
          /\ \A p \in Members : Valuable(p) # {} =>
                /\ profile[p].facts = {f \in inforce : f.person = p /\ f.msg \in Valuable(p)}
                /\ \A f \in profile[p].facts : \E l \in LabelsOf(f.msg) : f = candidate_fact_for_label(f.msg, p, l)
                /\ profile[p].hints = "profile_available"
          /\ \A p \in room \ shut : profile[p] # NoProfile
    /\ \A e \in graph : said[e.msg].by = e.person
=============================================================================
