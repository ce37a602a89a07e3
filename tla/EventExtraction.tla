--------------------------- MODULE EventExtraction ---------------------------
(* How a captured channel event is read: the JSON of its payload, the rule   *)
(* that selects an item of it, the extractor that makes the canonical event, *)
(* and the registry of fixtures a definition must replay before it is used.  *)
(*                                                                           *)
(* A JSON value is [t, s, c]: its type; the words of a text, the digits of a *)
(* number or the keys of an object; the elements or the members.  A text     *)
(* that is a JSON document or a base64 encoding holds what it stands for.    *)
(* The length of a text is its number of words.                              *)
EXTENDS Integers, Sequences, FiniteSets
LOCAL INSTANCE FiniteSetsExt
LOCAL INSTANCE SequencesExt

CONSTANTS MaxItems,       \* MAX_DATA_ITEMS
          MaxRuleDepth,   \* MAX_PREDICATE_DEPTH
          MaxRules,       \* MAX_PREDICATES
          MaxTransforms,  \* MAX_TRANSFORMS
          MaxExpanded,    \* MAX_EXPANDED_TRANSFORMS
          MaxOperations,  \* MAX_RESTRICTED_PRIMITIVE_OPERATIONS
          MaxSubjects,    \* MAX_SUBJECTS
          MaxId,          \* MAX_OPAQUE_ID_BYTES
          MaxText,        \* MAX_RESTRICTED_JSON_STRING_BYTES
          MaxSources,     \* MAX_REGISTRY_SOURCE_COUNT
          DataLimits, RestrictedLimits, \* JsonLimits: [nodes, depth, text]
          Spellings,      \* key |-> the key in lower case, without punctuation
          Instants,       \* numbers that are a time
          Unsafe          \* words with a control character

Json(t, s, c) == [t |-> t, s |-> s, c |-> c]
Fails == Json("error", <<>>, <<>>)
Null == Json("null", <<>>, <<>>)
True == Json("boolean", <<"true">>, <<>>)
False == Json("boolean", <<"false">>, <<>>)
Number(n) == Json("integer", <<n>>, <<>>)
Text(s) == Json("string", s, <<>>)
List(c) == Json("array", <<>>, c)
Object(keys, c) == Json("object", keys, c)
JsonText(v) == Json("string", <<"{}">>, <<v>>)
Base64Text(v) == Json("string", <<"base64">>, <<v>>)

Get(v, k) == IF v.t = "object" /\ k \in ToSet(v.s) THEN v.c[SelectInSeq(v.s, LAMBDA x : x = k)] ELSE Fails

\* str::trim, where the word " " is a blank.
WordsAt(s) == {i \in DOMAIN s : s[i] # " "}
Between(s, at) == IF at = {} THEN <<>> ELSE SubSeq(s, Min(at), Max(at))
trim(s) == Between(s, WordsAt(s))

(***************************************************************************)
(* Strict JSON                                                             *)
(***************************************************************************)

Members(v) == IF v.t \in {"array", "object"} THEN v.c ELSE <<>>

RECURSIVE Trees(_), Height(_)
Trees(v) == <<v>> \o FlattenSeq([i \in DOMAIN Members(v) |-> Trees(Members(v)[i])])
Height(v) == IF Members(v) = <<>> THEN 0 ELSE 1 + Max({Height(w) : w \in ToSet(Members(v))})

validate_bounded_value(v, lim) ==
    /\ Len(Trees(v)) <= lim.nodes
    /\ Height(v) <= lim.depth
    /\ \A w \in ToSet(Trees(v)) : w.t = "string" => Len(w.s) <= lim.text

\* An object that has a key twice is refused at every depth.
parse_strict_bounded_str(v, lim) ==
    IF /\ v.t = "string" /\ v.s = <<"{}">>
       /\ \A w \in ToSet(Trees(v.c[1])) : w.t = "object" => IsInjective(w.s)
       /\ validate_bounded_value(v.c[1], lim)
    THEN v.c[1] ELSE Fails

(***************************************************************************)
(* Items and rules                                                         *)
(***************************************************************************)

\* The items of a payload; none when it cannot be interpreted.
DataOf(payload, data) == IF data = Fails THEN payload ELSE data
Parsed(data) == IF data.t = "string" THEN parse_strict_bounded_str(data, DataLimits) ELSE data
Listed(data) == CASE data.t = "array" -> data.c [] data.t = "object" -> <<data>> [] OTHER -> <<>>
Interpretable(items) ==
    IF Len(items) \in 1 .. MaxItems /\ \A v \in ToSet(items) : v.t = "object" THEN items ELSE <<>>
expand_data_items(payload) == Interpretable(Listed(Parsed(DataOf(payload, Get(payload, "data")))))

Digits == <<"0", "1", "2", "3", "4", "5", "6", "7", "8", "9">>
PointerStep(v, k) ==
    CASE v.t = "object" -> Get(v, k)
      [] v.t = "array" /\ \E i \in 1 .. 10 : i <= Len(v.c) /\ Digits[i] = k -> v.c[SelectInSeq(Digits, LAMBDA x : x = k)]
      [] OTHER -> Fails
pointer(v, p) == FoldLeft(PointerStep, v, p)

json_type_matches(v, type) == v.t = type \/ (type = "number" /\ v.t \in {"integer", "fraction"})

\* A rule is [op, ptr, vals, type, rules, more]; more tells of unknown fields.
\* The depth was checked when the rule was parsed.
RECURSIVE evaluate_predicate(_, _)
evaluate_predicate(p, item) ==
    LET v == pointer(item, p.ptr)
    IN  CASE p.op = "equals" -> v = p.vals[1]
          [] p.op = "in" -> v \in ToSet(p.vals)
          [] p.op = "exists" -> (v # Fails) = (p.vals[1] = True)
          [] p.op = "type_is" -> json_type_matches(v, p.type)
          [] p.op = "all" -> \A r \in ToSet(p.rules) : evaluate_predicate(r, item)
          [] p.op = "any" -> \E r \in ToSet(p.rules) : evaluate_predicate(r, item)

RECURSIVE validate_selector_shape(_, _), Rules(_)
validate_selector_shape(p, depth) ==
    /\ depth <= MaxRuleDepth
    /\ p.op \in {"equals", "in", "exists", "type_is", "all", "any"} /\ ~p.more
    /\ p.op \in {"all", "any"} => /\ Len(p.rules) \in 1 .. MaxRules
                                  /\ \A r \in ToSet(p.rules) : validate_selector_shape(r, depth + 1)
Rules(p) == <<p>> \o FlattenSeq([i \in DOMAIN p.rules |-> Rules(p.rules[i])])

validate_pointer(p) == p # <<>> /\ ToSet(p) \cap Unsafe = {}
validate_predicate_value(v) ==
    \/ v.t \in {"null", "boolean", "integer", "fraction"}
    \/ v.t = "string" /\ Len(v.s) <= MaxText /\ ToSet(v.s) \cap Unsafe = {}
validate_predicate(p) ==
    /\ Len(Rules(p)) <= MaxRules
    /\ \A r \in ToSet(Rules(p)) : r.op \notin {"all", "any"} =>
          /\ validate_pointer(r.ptr)
          /\ r.op = "in" => Len(r.vals) \in 1 .. MaxRules
          /\ r.op \in {"equals", "in"} => \A v \in ToSet(r.vals) : validate_predicate_value(v)

(***************************************************************************)
(* Transforms and extractors                                               *)
(***************************************************************************)

OpaqueText(v, s) == IF v.t \in {"string", "integer"} /\ Len(s) \in 1 .. MaxId /\ ToSet(s) \cap Unsafe = {}
                    THEN Json("string", s, v.c) ELSE Fails
opaque_id(v) == OpaqueText(v, IF v.t = "string" THEN trim(v.s) ELSE v.s)

AllOrFail(c) == IF Fails \in ToSet(c) THEN Fails ELSE List(c)
OpaqueIds(v) == AllOrFail([i \in DOMAIN v.c |-> opaque_id(v.c[i])])

validate_split(x) == x.sep # "" /\ x.sep \notin Unsafe /\ x.max \in 1 .. MaxSubjects
CutAt(s, sep) == FoldLeft(LAMBDA parts, w : IF w = sep THEN Append(parts, <<>>)
                                            ELSE [parts EXCEPT ![Len(parts)] = Append(@, w)], <<<<>>>>, s)
Trimmed(parts) == SelectSeq([i \in DOMAIN parts |-> trim(parts[i])], LAMBDA s : s # <<>>)
AtMost(parts, max) == IF Len(parts) <= max THEN List([i \in DOMAIN parts |-> Text(parts[i])]) ELSE Fails
split_value(v, x) == IF v.t = "string" /\ Len(v.s) <= MaxText /\ validate_split(x)
                     THEN AtMost(Trimmed(CutAt(v.s, x.sep)), x.max) ELSE Fails

decode_base64_utf8(v) == IF v.t = "string" /\ v.s = <<"base64">> THEN v.c[1] ELSE Fails

Short(c) == IF Len(c) <= MaxSubjects THEN List(c) ELSE Fails
flatten_array_once(v) ==
    IF v.t = "array" THEN Short(FlattenSeq([i \in DOMAIN v.c |-> IF v.c[i].t = "array" THEN v.c[i].c ELSE <<v.c[i]>>]))
    ELSE Fails

ShortText(v, s) == IF v.t = "string" /\ Len(s) <= MaxText THEN Json("string", s, v.c) ELSE Fails
string_trim(v) == ShortText(v, trim(v.s))

\* The steps of a restricted primitive; what failed stays failed.
PrimitiveStep(v, x) ==
    CASE v = Fails -> Fails
      [] x.op = "base64_utf8" -> decode_base64_utf8(v)
      [] x.op = "json_parse" -> parse_strict_bounded_str(v, RestrictedLimits)
      [] x.op = "json_pointer" -> pointer(v, x.ptr)
      [] x.op = "split" -> split_value(v, x)
      [] x.op = "string_trim" -> string_trim(v)
      [] x.op = "array_flatten" -> flatten_array_once(v)
apply_restricted_primitive(v, primitive) == FoldLeft(PrimitiveStep, v, primitive)

\* Each identifier once, where it came first.
OnceEach(ids) ==
    IF ids = Fails THEN Fails
    ELSE List(FoldLeft(LAMBDA seen, x : IF x \in ToSet(seen) THEN seen ELSE Append(seen, x), <<>>, ids.c))
dedupe(v) == IF v.t = "array" THEN OnceEach(OpaqueIds(v)) ELSE Fails

Instant(raw, x) ==
    IF raw # Fails /\ Len(raw.s) = 1 /\ raw.s[1] \in Instants
    THEN Text(<<"time", raw.s[1], IF x.ms THEN "milliseconds" ELSE "seconds">>) ELSE Fails
unix_timestamp(v, x) == Instant(opaque_id(v), x)

\* A transform is [op, sep, max, ms, ptr, ref].
apply_transform(v, x, primitives) ==
    CASE v = Fails -> Fails
      [] x.op = "base64_utf8" -> decode_base64_utf8(v)
      [] x.op = "split" -> split_value(v, x)
      [] x.op = "dedupe" -> dedupe(v)
      [] x.op = "opaque_id" -> IF v.t = "array" THEN OpaqueIds(v) ELSE opaque_id(v)
      [] x.op = "unix_timestamp" -> unix_timestamp(v, x)
      [] x.op = "restricted_primitive" -> apply_restricted_primitive(v, primitives[x.ref])

apply_extractor(f, item, primitives) ==
    FoldLeft(LAMBDA v, x : apply_transform(v, x, primitives), pointer(item, f.ptr), f.ops)

\* An extractor is [type, id, chat, who, at, more], its fields [ptr, ops].
NoEvent == [type |-> "none", id |-> <<>>, chat |-> <<>>, who |-> <<>>, at |-> <<>>]
CanonicalEvent(type, id, room, who, at) ==
    IF /\ id # Fails /\ room # Fails /\ room.s # <<"0">>
       /\ who # Fails /\ Len(who.c) \in 1 .. MaxSubjects
       /\ at # Fails /\ at.s[1] = "time"
    THEN [type |-> type, id |-> id.s, chat |-> room.s,
          who |-> FoldLeft(LAMBDA ids, v : Append(ids, v.s), <<>>, who.c), at |-> at.s]
    ELSE NoEvent
Subjects(who) == IF who.t = "array" THEN OpaqueIds(who) ELSE Fails
Extracted(type, id, chat, who, at) == CanonicalEvent(type, opaque_id(id), opaque_id(chat), Subjects(who), opaque_id(at))
extract_event(e, item, primitives) ==
    LET Of(f) == apply_extractor(f, item, primitives)
    IN  Extracted(e.type, Of(e.id), Of(e.chat), Of(e.who), Of(e.at))

Fields(e) == {e.id, e.chat, e.who, e.at}
validate_extractor_shape(e) ==
    /\ ~e.more
    /\ \A f \in Fields(e) :
          /\ Len(f.ops) <= MaxTransforms
          /\ \A x \in ToSet(f.ops) : x.op \in {"base64_utf8", "dedupe", "opaque_id", "split",
                                               "unix_timestamp", "restricted_primitive"}

safe_mapping_identifier(w) == w # "" /\ w \notin Unsafe

validate_extractor(e, primitives) ==
    /\ safe_mapping_identifier(e.type)
    /\ \A f \in Fields(e) :
          LET used == SelectSeq(f.ops, LAMBDA x : x.op = "restricted_primitive")
          IN  /\ validate_pointer(f.ptr)
              /\ \A x \in ToSet(f.ops) : x.op = "split" => validate_split(x)
              /\ \A x \in ToSet(used) : x.ref \in DOMAIN primitives
              /\ Len(used) <= 1
              /\ used # <<>> => Len(f.ops) + Len(primitives[used[1].ref]) - 1 <= MaxExpanded

\* A definition is [key, selector, extractor].
parse_definition(d, primitives) ==
    /\ validate_selector_shape(d.selector, 0) /\ validate_extractor_shape(d.extractor)
    /\ validate_predicate(d.selector) /\ validate_extractor(d.extractor, primitives)

\* The replay of a payload; an item that cannot be extracted spoils it.
Extractions(d, items, primitives) ==
    FoldLeft(LAMBDA events, v : Append(events, extract_event(d.extractor, v, primitives)), <<>>, items)
replay_mapping(d, payload, primitives) ==
    Extractions(d, SelectSeq(expand_data_items(payload), LAMBDA v : evaluate_predicate(d.selector, v)), primitives)

(***************************************************************************)
(* The registry: primitives, definitions, fixtures and what is expected of *)
(* them, embedded in the program when it is built                          *)
(***************************************************************************)

\* A source is official when it is a page of the provider's documentation.
OfficialSources(doc) == Len(doc.sources) \in 1 .. 8 /\ IsInjective(doc.sources) /\ ToSet(doc.sources) \subseteq {"doc-1", "doc-2"}

validate_embedded_source_set(docs) == Len(docs) <= MaxSources

validate_restricted_primitive_operation(x) ==
    /\ x.op = "json_pointer" => validate_pointer(x.ptr)
    /\ x.op = "split" => validate_split(x)

validate_registered_restricted_primitive_document(doc) ==
    /\ doc.schema = 1 /\ doc.provider = "qiwe" /\ safe_mapping_identifier(doc.key)
    /\ Len(doc.steps) \in 1 .. MaxOperations
    /\ \A x \in ToSet(doc.steps) : validate_restricted_primitive_operation(x)
    /\ OfficialSources(doc)

\* All of them or none: one document that is not valid refuses the registry.
PrimitivesLoad(docs) ==
    /\ validate_embedded_source_set(docs)
    /\ \A i \in DOMAIN docs : /\ docs[i].path \notin Unsafe
                              /\ validate_registered_restricted_primitive_document(docs[i])
    /\ \A i, j \in DOMAIN docs : i # j => docs[i].key # docs[j].key /\ docs[i].path # docs[j].path
load_registered_restricted_primitives(docs) ==
    [r \in {docs[i].path : i \in DOMAIN docs} |-> docs[CHOOSE i \in DOMAIN docs : docs[i].path = r].steps]

validate_registered_mapping_document(doc) ==
    doc.schema = 1 /\ doc.provider = "qiwe" /\ safe_mapping_identifier(doc.def.key) /\ OfficialSources(doc)

validate_registered_space_extractor(d) ==
    d.extractor.chat.ptr = <<"fromRoomId">> /\ [i \in DOMAIN d.extractor.chat.ops |-> d.extractor.chat.ops[i].op] = <<"opaque_id">>

canonicalize_registered_expectation(e) ==
    /\ safe_mapping_identifier(e.type)
    /\ \A s \in {e.id, e.chat} \cup ToSet(e.who) : Len(s) \in 1 .. MaxId /\ ToSet(s) \cap Unsafe = {}
    /\ e.chat # <<"0">>
    /\ Len(e.who) \in 1 .. MaxSubjects /\ IsInjective(e.who)
    /\ e.at # <<>> /\ e.at[1] = "time"

\* The expectations of a fixture, and the fixtures of a mapping.
Expected(reg, f) == SelectSeq(reg.expectations, LAMBDA x : x.fixture = f.path)
Suite(reg, doc) == SelectSeq(reg.fixtures, LAMBDA f : f.mapping = doc.path)
Total(counts) == FoldLeft(LAMBDA a, b : a + b, 0, counts)

Covers(reg, suite, given, made) ==
    /\ \A i \in DOMAIN suite : made[i] = Expected(reg, suite[i])[1].events
    /\ Total(given) > Total([i \in DOMAIN made |-> Len(made[i])])

\* The fixtures of a mapping give what is expected, and it leaves some of
\* their records alone.
validate_fixture_suite_negative_coverage(reg, doc, primitives) ==
    LET suite == Suite(reg, doc)
    IN  Covers(reg, suite, [i \in DOMAIN suite |-> Len(expand_data_items(suite[i].event))],
               [i \in DOMAIN suite |-> replay_mapping(doc.def, suite[i].event, primitives)])

\* Whether the registry loads: again all of it or nothing.
load_registered_fixture_suites(reg, primitives) ==
    LET paths == {doc.path : doc \in ToSet(reg.mappings)}
    IN  /\ \A docs \in {reg.mappings, reg.fixtures, reg.expectations} : validate_embedded_source_set(docs)
        /\ \A doc \in ToSet(reg.mappings) :
              /\ validate_registered_mapping_document(doc)
              /\ parse_definition(doc.def, primitives)
              /\ validate_registered_space_extractor(doc.def)
        /\ \A f \in ToSet(reg.fixtures) :
              /\ f.clean /\ f.mapping \in paths
              /\ f.event.t = "object" /\ expand_data_items(f.event) # <<>>
        /\ \A x \in ToSet(reg.expectations) :
              /\ x.clean /\ x.mapping \in paths
              /\ x.fixture \in {f.path : f \in ToSet(reg.fixtures)}
              /\ Len(x.events) \in 1 .. MaxItems
              /\ \A e \in ToSet(x.events) : canonicalize_registered_expectation(e)
        /\ \A f \in ToSet(reg.fixtures) :
              /\ Len(Expected(reg, f)) = 1
              /\ Expected(reg, f)[1].mapping = f.mapping
              /\ \A doc \in ToSet(reg.mappings), e \in ToSet(Expected(reg, f)[1].events) :
                    doc.path = f.mapping => e.type = doc.def.extractor.type
        /\ \A doc \in ToSet(reg.mappings) :
              Suite(reg, doc) # <<>> /\ validate_fixture_suite_negative_coverage(reg, doc, primitives)

\* A definition may be used when it is a registered one, and so replays.
replay_registered_fixtures(d, reg) ==
    /\ PrimitivesLoad(reg.primitives)
    /\ LET primitives == load_registered_restricted_primitives(reg.primitives)
       IN  /\ parse_definition(d, primitives)
           /\ load_registered_fixture_suites(reg, primitives)
           /\ \E doc \in ToSet(reg.mappings) :
                 /\ doc.def.selector = d.selector /\ doc.def.extractor = d.extractor
                 /\ validate_fixture_suite_negative_coverage(reg, doc, primitives)
=============================================================================
