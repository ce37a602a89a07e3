---------------------------- MODULE MCFrontOffice ----------------------------
(* What reaches the sidecar and is handed on by it, in one model: the turns  *)
(* of agents, the messages of signed conversations, the log of the stream    *)
(* with its jobs, the archive of old messages, the mirror of work items and   *)
(* the raw events with the automations they start.                           *)
(* They share no table that two of them change; so a behaviour explores one  *)
(* part, chosen by focus, with the others at rest.                           *)
EXTENDS SpaceAgentTurnBroker, ConversationIngress, MessageLog, RawArchive,
        TaskMirror, EventCapture, TLC

VARIABLE focus  \* the part this behaviour explores

\* A direct chat and a group; a message, the same one with another text, one
\* of the group that mentions the bot; policies of each kind
\* and one whose reviewer is unknown.
Letter(id, at, type, bot, text) ==
    [id |-> id, chat |-> at, type |-> type, from |-> "u", bot |-> bot, text |-> text]
Posted == {Letter(1, "t", "direct", FALSE, "a"), Letter(1, "t", "direct", FALSE, "b"),
           Letter(2, "g", "group", TRUE, "a")}
Decree(at, aud, type, ret, may, on, reviewers) ==
    [chat |-> at, aud |-> aud, type |-> type, return |-> ret, may |-> may, on |-> on, reviewers |-> reviewers]
Rulings == {Decree("t", "private", "direct", "chat", {"produce", "status"}, on, {}) : on \in BOOLEAN}
            \cup {Decree("g", "internal", "group", "thread", {"produce", "status"}, TRUE, r) : r \in {{"u"}, {"z"}}}
            \cup {Decree("g", "community", "group", "none", {}, TRUE, {})}
\* A message, its edit, a blank one, a notice and something that is none.
Bulletin(k, m, t) == [kind |-> k, msg |-> m, text |-> t]
Published_ == {Bulletin("text", "m", "a"), Bulletin("text", "m", "b"), Bulletin("text", "n", ""),
               Bulletin("system", "n", "b"), Bulletin("junk", "m", "a")}

\* Old messages of two chats that are archived and one that is not.
Backlog == <<"c", "d", "c", "e">>

Standing(st, p, r) == [st |-> st, pending |-> p, ready |-> r]
Standings == {Standing(st, FALSE, FALSE) : st \in {"awaiting_review", "awaiting_publish", "failed", "completed"}}
              \cup {Standing("awaiting_review", TRUE, FALSE), Standing("queued", FALSE, TRUE)}

\* Raw events: a member joins (item by item, as text, with blanks), another
\* event of the same id, two rooms at once, a callback, and a text with a key
\* twice.
Item(type, id, room, who) ==
    Object(<<"newMsgType", "cmd", "msgUniqueIdentifier", "fromRoomId", "msgData", "timestamp">>,
           <<Text(<<type>>), Number("15000"), Text(<<id>>), Text(<<" ", room>>),
             Object(<<"changedMemberList">>, <<Base64Text(Text(who))>>), Number("7")>>)
Joins(id, room) == Item("ADD", id, room, <<"a", ";", " ", "b", ";", ";", "a">>)
Leaves(room) == Item("LEAVE", "y", room, <<"a">>)
Envelope(id, payload, auth) == [json |-> Object(<<"event_id", "payload">>, <<Text(id), payload>>), auth |-> auth]
Data(v) == Object(<<"data">>, <<v>>)
Upload == Object(<<"CMD", "requestId", "msgData">>,
                 <<Text(<<"20000">>), Text(<<"q1">>),
                   Object(<<"fileAesKey", "fileId", "size">>, <<Text(<<"secret">>), Text(<<"f">>), Number("7")>>)>>)
Twice == JsonText(Object(<<"fromRoomId", "fromRoomId">>, <<Text(<<"r">>), Text(<<"q">>)>>))
Sent == {Envelope(<<"e1">>, Data(JsonText(List(<<Joins("x1", "r"), Leaves("r")>>))), TRUE),
         Envelope(<<"e1">>, Data(List(<<Joins("x3", "q")>>)), FALSE),
         Envelope(<<>>, Joins("x2", "r"), TRUE),
         Envelope(<<"e4">>, Data(List(<<Joins("x1", "r"), Joins("x1", "q")>>)), TRUE),
         Envelope(<<"e5">>, Data(List(<<Upload>>)), FALSE),
         Envelope(<<"e6">>, Object(<<"fromRoomId", "data">>, <<Text(<<"r">>), Twice>>), TRUE),
         [json |-> Twice.c[1], auth |-> TRUE]}

\* The registered definition, the same with a primitive, and one that takes
\* every item; a registry of the first two, one of the third, and one that
\* lacks an expectation.
Rule(op, ptr, vals, rules) == [op |-> op, ptr |-> ptr, vals |-> vals, type |-> "string", rules |-> rules, more |-> FALSE]
Apply(op, ref) == [op |-> op, sep |-> ";", max |-> 3, ms |-> FALSE, ptr |-> <<>>, ref |-> ref]
Field(ptr, ops) == [ptr |-> ptr, ops |-> ops]
Definition(selector, ops) ==
    [key |-> "group_member_add", selector |-> selector,
     extractor |-> [type |-> "added", id |-> Field(<<"msgUniqueIdentifier">>, <<Apply("opaque_id", "")>>),
                    chat |-> Field(<<"fromRoomId">>, <<Apply("opaque_id", "")>>),
                    who |-> Field(<<"msgData", "changedMemberList">>, ops),
                    at |-> Field(<<"timestamp">>, <<Apply("unix_timestamp", "")>>), more |-> FALSE]]
Added == Rule("any", <<>>, <<>>,
              <<Rule("all", <<>>, <<>>, <<Rule("equals", <<"newMsgType">>, <<Text(<<"ADD">>)>>, <<>>),
                                          Rule("in", <<"cmd">>, <<Number("15000"), Number("15500")>>, <<>>)>>),
                Rule("all", <<>>, <<>>, <<Rule("exists", <<"newMsgType">>, <<False>>, <<>>),
                                          Rule("type_is", <<"msgType">>, <<>>, <<>>)>>)>>)
Plain == Definition(Added, <<Apply("base64_utf8", ""), Apply("split", ""), Apply("opaque_id", ""), Apply("dedupe", "")>>)
WithPrimitive == Definition(Added, <<Apply("restricted_primitive", "p"), Apply("dedupe", "")>>)
TakesAll == Definition(Rule("exists", <<"fromRoomId">>, <<True>>, <<>>), WithPrimitive.extractor.who.ops)
Steps_ == <<Apply("base64_utf8", ""), Apply("string_trim", ""), Apply("split", ""), Apply("array_flatten", "")>>
Document(path, d) == [path |-> path, schema |-> 1, provider |-> "qiwe", def |-> d, sources |-> <<"doc-1">>]
Registry(ds, fixture, expected) ==
    [primitives |-> <<[path |-> "p", schema |-> 1, provider |-> "qiwe", key |-> "k", steps |-> Steps_, sources |-> <<"doc-1">>]>>,
     mappings |-> [i \in DOMAIN ds |-> Document(i, ds[i])],
     fixtures |-> [i \in DOMAIN ds |-> [path |-> i, mapping |-> i, clean |-> TRUE, event |-> fixture]],
     expectations |-> [i \in DOMAIN expected |-> [mapping |-> i, fixture |-> i, clean |-> TRUE, events |-> expected[i]]]]
Found(id) == [type |-> "added", id |-> <<id>>, chat |-> <<"r">>, who |-> <<<<"a">>, <<"b">>>>, at |-> <<"time", "7", "seconds">>]
Embedded == <<Registry(<<Plain, WithPrimitive>>, Data(List(<<Joins("f", "r"), Leaves("r")>>)), <<<<Found("f")>>, <<Found("f")>>>>),
              Registry(<<TakesAll>>, Data(Joins("f", "r")), <<<<Found("f")>>>>),
              Registry(<<Plain, WithPrimitive>>, Data(List(<<Joins("f", "r"), Leaves("r")>>)), <<<<Found("f")>>>>)>>
Proposed == {WithPrimitive, TakesAll}
Forms == {StoredForm(v) : v \in {w \in Sent : Readable(w.json)}}
Admissions == {x \in {[registry |-> g, def |-> d] : g \in DOMAIN Embedded, d \in Proposed} :
                 replay_registered_fixtures(x.def, Embedded[x.registry])}
Readings == {[registry |-> g, def |-> d, payload |-> e.payload, events |-> CanonicalEvents(g, d, e.payload)] :
               g \in DOMAIN Embedded, d \in Proposed, e \in Forms}
\* TLC evaluates a definition once, but the body of one that is the value of a
\* constant wherever the constant is used.
StoredForms == Forms
AdmittedOnes == Admissions
MadeOf == Readings
Limits == [nodes |-> 40, depth |-> 6, text |-> 8]
SpelledKeys == [k \in {"CMD", "requestId", "msgData", "fileAesKey", "fileId"} |->
                  CASE k = "CMD" -> "cmd" [] k = "requestId" -> "requestid" [] k = "msgData" -> "msgdata"
                    [] k = "fileAesKey" -> "fileaeskey" [] k = "fileId" -> "fileid"]

AllInit ==
    /\ focus \in {"turns", "ingress", "log", "archive", "tasks", "events"}
    /\ Init /\ (focus # "turns" => member = CHOOSE o \in Outputs : TRUE)
    /\ IngressInit /\ LogInit /\ ArchiveInit
    /\ TasksInit /\ (focus # "tasks" => \A t \in Tasks : above[t] = 0)
    /\ EventsInit /\ (focus # "events" => registry = 1)

everything == <<focus, vars, gvars, lvars, avars, hvars, evars>>

AgentTurns == focus = "turns" /\ Next /\ UNCHANGED <<focus, gvars, lvars, avars, hvars, evars>>
\* Bound: requests are made at the first instant, of messages that were all
\* recorded, and after the first of them no message is signed and no time passes.
AllRecorded == wall = 0 /\ \A e \in letters : e.at = 0 /\ e.nonce \in DOMAIN admitted
Conversations == focus = "ingress" /\ IngressNext /\ (asks' # <<>> => AllRecorded /\ letters' = letters /\ wall' = wall)
                 /\ UNCHANGED <<focus, vars, lvars, avars, hvars, evars>>
Log == focus = "log" /\ LogNext /\ UNCHANGED <<focus, vars, gvars, avars, hvars, evars>>
Archive == focus = "archive" /\ ArchiveNext /\ UNCHANGED <<focus, vars, gvars, lvars, hvars, evars>>
TaskBoard == focus = "tasks" /\ TasksNext /\ UNCHANGED <<focus, vars, gvars, lvars, avars, evars>>
\* Bound: where there is an automation, only events that may start it come,
\* and before there is one, two of the deliveries.
Events == focus = "events" /\ EventsNext
          /\ (IF autos_' # <<>> THEN DOMAIN raw_events' \subseteq {<<"e1">>, <<"x2">>} ELSE sent_' <= 2)
          /\ UNCHANGED <<focus, vars, gvars, lvars, avars, hvars>>

AllNext == AgentTurns \/ Conversations \/ Log \/ Archive \/ TaskBoard \/ Events

AllSpec == AllInit /\ [][AllNext]_everything /\ Fairness

\* What comes in is answered or recorded once and as it was said, however
\* often it is repeated: CallsAnsweredOnce for the calls of a turn,
\* IngressTrue for signed messages, MessagesTrue for the stream and its jobs,
\* ArchiveTrue for archived messages, TasksTrue for the mirror of work items,
\* EventsTrue for raw events, their observations and runs.
TakenOnce ==
    /\ focus = "turns" => CallsAnsweredOnce
    /\ focus = "ingress" => IngressTrue
    /\ focus = "log" => MessagesTrue
    /\ focus = "archive" => ArchiveTrue
    /\ focus = "tasks" => TasksTrue
    /\ focus = "events" => EventsTrue
=============================================================================
