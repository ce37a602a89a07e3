------------------------------ MODULE ChatReport ------------------------------
(* The analysis behind the daily case report: what was said in a chat on one *)
(* day becomes cases (clusters of messages), hot topics, the ranking of the  *)
(* speakers and the cards of the characters.  The code iterates hash maps in *)
(* several places without a final order; those choices are left open here,   *)
(* so the analysis of a day is a choice among several papers.                *)
(*                                                                           *)
(* A message is a record: who sent it under which name, the person it is     *)
(* linked to ("none"), its hour, how often each term occurs in it, its       *)
(* marker (a relay, a "topic: ..." opening, another colon) with the title it *)
(* gives, whether it is promotional noise, its length and its role hints.    *)
EXTENDS Integers, Sequences, FiniteSets
Lists == INSTANCE SequencesExt

CONSTANTS Chatter,      \* the messages that can be said
          Terms,        \* the terms they are made of, relay titles included
          Inside,       \* <<t, u>> : term t is a proper part of term u
          Dirty,        \* terms that are no topic
          Size(_),      \* the characters of a term; their order is that of Alpha
          Alpha(_),
          Recalled,     \* person -> the recent facts kept about them
          Reviewed_,    \* person -> the evidence of a reviewed profile
          MaxSaid,      \* bound: messages of a day
          MinCase,      \* DEFAULT_MIN_CASE_MESSAGES
          CaseLimits,   \* the numbers of cases a caller asks for
          TopicLimit, SuspectLimit, CharacterLimit,
          MaxKeywords   \* DEFAULT_TOP_KEYWORDS

\* Messages are made of the terms, each some times; no two terms have the same
\* place in the order of the terms, and the limits are numbers.
ASSUME ChatWords ==
    /\ \A m \in Chatter : /\ \A t \in Terms : m.terms[t] \in Nat
                          /\ m.mark \in {"relay", "topic"} => m.title \in Terms
                          /\ m.hour \in Nat
    /\ \A t \in Terms : Size(t) \in Nat /\ Alpha(t) \in Nat
    /\ \A t, u \in Terms : Alpha(t) = Alpha(u) => t = u
    /\ CaseLimits \subseteq Nat /\ MinCase \in Nat \ {0}

VARIABLES talk,   \* the messages of the day, in order
          paper   \* the analysis of the day as far as it is done
rvars == <<talk, paper>>

NoPaper == [stage |-> "none", ms |-> <<>>, limit |-> 0, mark |-> <<>>, title |-> <<>>, cases |-> {},
            counts |-> <<>>, topics |-> {}, suspects |-> <<>>, cast |-> {}]

MinTopicChars == 3      \* DEFAULT_HOT_TOPIC_MIN_CHARS
MinTopicMessages == 2   \* DEFAULT_HOT_TOPIC_MIN_MESSAGES

Sum(f, S) == Lists!MapThenSumSet(LAMBDA i : f[i], S)
ms == paper.ms
All == DOMAIN paper.ms

\* The ways to put S in an order in which no later one has more.
Orders_(S, n) == {q \in [1 .. Cardinality(S) -> S] :
                    /\ \A i, j \in DOMAIN q : i # j => q[i] # q[j]
                    /\ \A i, j \in DOMAIN q : i < j => n[q[i]] >= n[q[j]]}

ReportInit == talk = <<>> /\ paper = NoPaper

Say(m) == /\ paper.stage = "none" /\ Len(talk) < MaxSaid
          /\ talk' = Append(talk, m)
          /\ UNCHANGED paper

(* The stages of analyze.                                                    *)
Stage(from) == paper.stage = from /\ UNCHANGED talk

\* The messages that are no noise, at their places of the day.
discussion_messages == [i \in {j \in DOMAIN talk : ~talk[j].noise} |-> talk[i]]

(* The topic a message belongs to by the markers before it: a relay or a     *)
(* topic opening sets it, another colon ends it, any other message stays.    *)
Opening(line, i) ==
    {j \in DOMAIN line : /\ j <= i /\ line[j].mark \in {"relay", "topic"}
                        /\ \A k \in DOMAIN line : j < k /\ k <= i => line[k].mark = "none"}
TopicMarkers(line) ==
    [i \in DOMAIN line |-> IF Opening(line, i) = {} THEN <<>>
                          ELSE LET j == CHOOSE k \in Opening(line, i) : TRUE IN <<line[j].mark, line[j].title>>]

MarkTopics ==
    /\ Stage("none") /\ talk # <<>>
    /\ \E limit \in CaseLimits :
         paper' = [NoPaper EXCEPT !.stage = "marked", !.ms = discussion_messages, !.limit = limit,
                                  !.mark = TopicMarkers(discussion_messages)]

IsCleanTopic(t) == t \notin Dirty

\* How often each term occurs in the messages I: occurrences, not messages.
KeywordScores(I) == [t \in Terms |-> Cardinality(UNION {{i} \X (1 .. ms[i].terms[t]) : i \in I})]

\* The terms that the messages I repeat.
Repeated(I) == LET score == KeywordScores(I) IN {t \in Terms : IsCleanTopic(t) /\ score[t] >= MinCase}

\* The first n of a set in an order.
FirstOf(S, n, Before(_, _)) == {x \in S : Cardinality({y \in S : Before(y, x)}) < n}
Likelier(score, t, u) == score[t] > score[u] \/ (score[t] = score[u] /\ Alpha(t) < Alpha(u))

\* The terms that unmarked messages repeat, best first.
TopKeywords(I) ==
    LET score == KeywordScores(I) IN FirstOf(Repeated(I), MaxKeywords, LAMBDA t, u : Likelier(score, t, u))

\* The keyword of an unmarked message: the best one it contains.
KeywordOf(i, I, top) ==
    LET has == {t \in top : ms[i].terms[t] > 0}
        score == KeywordScores(I)
        best == {t \in has : \A u \in has \ {t} : Likelier(score, t, u)}
    IN  IF best = {} THEN <<>> ELSE <<"about", CHOOSE t \in best : TRUE>>

\* Clusters by marker, then by keyword.
TitleMessages ==
    /\ Stage("marked")
    /\ \E I \in {{i \in All : paper.mark[i] = <<>>}} : \E top \in {TopKeywords(I)} :
         paper' = [paper EXCEPT !.stage = "titled",
                     !.title = [i \in All |-> IF i \in I THEN KeywordOf(i, I, top) ELSE paper.mark[i]]]

Told == {i \in All : paper.title[i] # <<>>}
TopicClusters == {[title |-> t, of |-> {i \in All : paper.title[i] = t}] : t \in {paper.title[i] : i \in Told}}
Large(c) == Cardinality(c.of) >= MinCase

\* The hours that fill the page when too few clusters are large enough,
\* fullest hour first.
AtHour(rest, h) == {i \in rest : ms[i].hour = h}
HourBuckets(rest, free) ==
    LET size(h) == Cardinality(AtHour(rest, h))
        big == {h \in {ms[i].hour : i \in rest} : size(h) >= MinCase}
    IN  {[hour |-> h, of |-> AtHour(rest, h)] :
            h \in FirstOf(big, free, LAMBDA g, h : size(g) > size(h) \/ (size(g) = size(h) /\ g < h))}

\* The title of an hour names some repeated term of it, if it has one: the
\* map of scores is not sorted.
TimeBucketTitles(b) ==
    {<<"hour", b.hour, t>> : t \in IF Repeated(b.of) = {} THEN {"none"} ELSE Repeated(b.of)}

\* One way to name the hours.
Titled(B) == {{[title |-> f[b], of |-> b.of] : b \in B} :
                f \in {g \in [B -> UNION {TimeBucketTitles(b) : b \in B}] : \A b \in B : g[b] \in TimeBucketTitles(b)}}

\* The cases on the page: the first clusters up to the limit, less the small
\* ones.  The number of a case is its place before those are left out.
CaseCards(q) ==
    {[no |-> k, title |-> q[k].title, of |-> q[k].of, people |-> Cardinality({ms[i].name : i \in q[k].of})] :
        k \in {j \in 1 .. Lists!Min({Len(q), paper.limit}) : Large(q[j])}}

\* Clusters are ordered by size alone: among equals any order, and any choice
\* of the last ones on the page, can come out.
ClusterCases ==
    /\ Stage("titled")
    /\ \E free \in {paper.limit - Cardinality({c \in TopicClusters : Large(c)})} :
       \E T \in Titled(HourBuckets(All \ Told, free)) :
       \E C \in {TopicClusters \cup T} :
       \E q \in Orders_(C, [c \in C |-> Cardinality(c.of)]) :
         paper' = [paper EXCEPT !.stage = "cases", !.cases = CaseCards(q)]

(* Hot topics: terms and phrases counted over the messages, and the titles   *)
(* of cases.  A label is a term, or the hour and term of an hour's title.    *)
Plain(t) == [h |-> 0, t |-> t]
Chars(l) == Size(l.t) + IF l.h = 0 THEN 0 ELSE 5
Within(a, b) == \/ a = b
                \/ a.h = 0 /\ (a.t = b.t \/ <<a.t, b.t>> \in Inside)

\* The messages grouped under a term: with each occurrence of it as a word,
\* and once for each other message a repeated phrase is found in.
IsPhrase(t) == IsCleanTopic(t) /\ Size(t) >= MinTopicChars
Worded(t) == {i \in All : IsPhrase(t) /\ ms[i].terms[t] > 0}
Phrased(t) ==
    LET g == {i \in All : IsPhrase(t) /\ \E u \in Terms : ms[i].terms[u] > 0 /\ (t = u \/ <<t, u>> \in Inside)}
    IN  IF Cardinality({ms[i].text : i \in g}) >= MinTopicMessages THEN g ELSE {}

\* The label of a case that may become a hot topic: none for an hour without
\* a term in its title.
CaseLabel(c) == IF c.title[1] = "hour" THEN [h |-> c.title[2], t |-> c.title[3]] ELSE Plain(c.title[2])
CaseTopics == {c \in paper.cases : /\ Cardinality(c.of) >= MinTopicMessages
                                   /\ c.title[1] = "hour" => c.title[3] # "none"
                                   /\ IsCleanTopic(CaseLabel(c).t)}

Speaker(m) == IF m.person # "none" THEN m.person ELSE m.name

\* How often a label was met, by how many, as a term and as a case.
TermCount(t) == [n |-> KeywordScores(Worded(t))[t] + Cardinality(Phrased(t) \ Worded(t)),
                 folk |-> Cardinality({Speaker(ms[i]) : i \in Worded(t) \cup Phrased(t)})]
LabelCount(l) ==
    LET term == IF l.h = 0 THEN {TermCount(l.t)} ELSE {}
        told == {[n |-> Cardinality(c.of), folk |-> c.people] : c \in {d \in CaseTopics : CaseLabel(d) = l}}
    IN  [n |-> Lists!Max({0} \cup {x.n : x \in term \cup told}),
         folk |-> Lists!Max({0} \cup {x.folk : x \in term \cup told})]

CountTopics ==
    /\ Stage("cases")
    /\ \E labels \in {{Plain(t) : t \in {u \in Terms : Worded(u) \cup Phrased(u) # {}}}
                        \cup {CaseLabel(c) : c \in CaseTopics}} :
         paper' = [paper EXCEPT !.stage = "counted", !.counts = [l \in labels |-> LabelCount(l)]]

\* Ranked by characters times count, count, speakers, characters and name; a
\* label that contains or is contained in one on the page is passed over.
TopicRank(l) == <<Chars(l) * paper.counts[l].n, paper.counts[l].n, paper.counts[l].folk, Chars(l),
                  -l.h, -Alpha(l.t)>>
Ahead(k, l) == \E i \in DOMAIN k : k[i] > l[i] /\ \A j \in 1 .. i - 1 : k[j] = l[j]
Overlap(k, l) == Within(k, l) \/ Within(l, k)

\* The labels P make the page if a label is on it exactly when the ones ahead of
\* it on the page leave a place and none of them overlaps with it.
HotTopics(L, rank) ==
    {P \in SUBSET L : \A l \in L :
        LET before == {k \in P : Ahead(rank[k], rank[l])} IN
        l \in P <=> Cardinality(before) < TopicLimit /\ \A k \in before : ~Overlap(k, l)}

RankTopics ==
    /\ Stage("counted")
    /\ \E L \in {{l \in DOMAIN paper.counts : paper.counts[l].n >= MinTopicMessages}} :
       \E P \in HotTopics(L, [l \in L |-> TopicRank(l)]) :
         paper' = [paper EXCEPT !.stage = "topics", !.topics = P]

(* Speakers ranked by their messages, under the name they are shown by.      *)
ComputeSuspects ==
    /\ Stage("topics")
    /\ \E names \in {{ms[i].name : i \in All}} :
       \E q \in Orders_(names, [n \in names |-> Cardinality({i \in All : ms[i].name = n})]) :
         paper' = [paper EXCEPT !.stage = "ranked", !.suspects = SubSeq(q, 1, Lists!Min({Len(q), SuspectLimit}))]

(* Characters: messages grouped by the person they are linked to, the others *)
(* by name; anonymous ones are left out.                                     *)
GroupKey(m) == IF m.person # "none" THEN <<"person", m.person>>
               ELSE IF m.name # "anonymous" THEN <<"name", m.name>> ELSE <<>>
Groups == {GroupKey(ms[i]) : i \in {j \in All : ms[j].name # "anonymous"}}
Spoke(g) == {i \in All : ms[i].name # "anonymous" /\ GroupKey(ms[i]) = g}

\* The topics of a group.
GroupTopics(g) == {t \in Terms : IsCleanTopic(t) /\ \E i \in Spoke(g) : ms[i].terms[t] > 0}

\* The peer of a group on a shared topic is the other group that said most
\* about it; the hint kept is the one of the highest score.  said[g][t] is how
\* often a group said a term.
RelationshipHints(g, said) ==
    LET pairs == {p \in Terms \X (DOMAIN said \ {g}) :
                    /\ IsCleanTopic(p[1]) /\ said[g][p[1]] > 0 /\ said[p[2]][p[1]] > 0
                    /\ \A k \in DOMAIN said \ {g} : said[p[2]][p[1]] >= said[k][p[1]]}
        score == [p \in pairs |-> said[g][p[1]] + said[p[2]][p[1]] + Size(p[1])]
        best == {p \in pairs : \A o \in pairs : score[p] >= score[o]}
    IN  IF best = {} THEN {<<>>} ELSE best

RoleScore(G) == Sum([i \in G |-> ms[i].hints], G)
Remembers(g, known) == g[1] = "person" /\ g[2] \in DOMAIN known
MemoryOf(g, known) == IF Remembers(g, known) THEN known[g[2]] ELSE 0

\* The evidence that a profile may be upgraded, and the status it gives.
ProfileEvidence(g, n, topics, hinted) ==
    LET one(b) == IF b THEN 1 ELSE 0
    IN  Lists!Max({Lists!Min({MemoryOf(g, Recalled), 20}), Lists!Min({MemoryOf(g, Reviewed_), 20})})
          + one(n >= 2) + one(Remembers(g, Recalled) /\ topics >= 2)
          + one(Remembers(g, Reviewed_) /\ topics >= 1) + one(hinted)
ProfileUpgradeStatus(count) == IF count >= 2 THEN "eligible" ELSE "note"

CharacterCard(g, hint) ==
    [key |-> g, of |-> Spoke(g), hint |-> hint,
     status |-> ProfileUpgradeStatus(ProfileEvidence(g, Cardinality(Spoke(g)), Cardinality(GroupTopics(g)), hint # <<>>))]

\* The score of a card, in eightieths as the length of the text counts.
CharacterScore(g, G) ==
    240 * Cardinality(G) + 320 * RoleScore(G) + 80 * Lists!Min({Cardinality(GroupTopics(g)), 6})
      + Lists!Min({Sum([i \in G |-> ms[i].size], G), 320})
      + 80 * (Lists!Min({MemoryOf(g, Recalled), 10}) + Lists!Min({MemoryOf(g, Reviewed_), 8}))

\* The cards: a group that spoke once and gave no hint of a role has none.
ComputeCharacters ==
    /\ Stage("ranked")
    /\ \E F \in {{g \in Groups : Cardinality(Spoke(g)) >= 2 \/ RoleScore(Spoke(g)) > 0}} :
       \E score \in {[g \in F |-> CharacterScore(g, Spoke(g))]} :
       \E said \in {[g \in Groups |-> KeywordScores(Spoke(g))]} :
       \E S \in {X \in SUBSET F : /\ Cardinality(X) = Lists!Min({Cardinality(F), CharacterLimit})
                                  /\ \A g \in X, h \in F \ X : score[g] >= score[h]} :
       \E hint \in {f \in [S -> UNION {RelationshipHints(g, said) : g \in S}] :
                      \A g \in S : f[g] \in RelationshipHints(g, said)} :
         paper' = [paper EXCEPT !.stage = "done", !.cast = {CharacterCard(g, hint[g]) : g \in S}]

ReportNext ==
    \/ \E m \in Chatter : Say(m)
    \/ MarkTopics \/ TitleMessages \/ ClusterCases \/ CountTopics \/ RankTopics
    \/ ComputeSuspects \/ ComputeCharacters

(***************************************************************************)
(* What a paper says is true of the day                                    *)
(***************************************************************************)

\* No message is told in two cases, every case rests on enough messages, and
\* the numbers of the cases have no gap.
CasesSound ==
    /\ \A c, d \in paper.cases : c # d => c.of \cap d.of = {} /\ c.no # d.no
    /\ \A c \in paper.cases : Large(c) /\ c.no <= Cardinality(paper.cases)
    /\ Cardinality(paper.cases) <= paper.limit

\* A case that was left out is no larger than one on the page.
LargestTold ==
    \A c \in TopicClusters :
        Large(c) /\ (\A d \in paper.cases : d.of # c.of) =>
            /\ Cardinality(paper.cases) = paper.limit
            /\ \A d \in paper.cases : Cardinality(d.of) >= Cardinality(c.of)

\* No hot topic repeats another, and each was met in the discussion.
TopicsSound ==
    /\ \A k, l \in paper.topics : k # l => ~Within(k, l)
    /\ \A l \in paper.topics :
         \E k \in All : \/ \E u \in Terms : ms[k].terms[u] > 0 /\ Within(Plain(l.t), Plain(u))
                        \/ ms[k].title = l.t

\* A card is about one speaker, a hint names another one who spoke of the same
\* topic, and only someone seen before, or who said more than one thing in the
\* company of another, can have a profile upgraded.
CastSound ==
    /\ \A c, d \in paper.cast : c # d => c.of \cap d.of = {}
    /\ \A c \in paper.cast : c.hint # <<>> =>
         c.hint[2] # c.key /\ c.hint[1] \in GroupTopics(c.key) \cap GroupTopics(c.hint[2])
    /\ \A c \in paper.cast : c.status = "eligible" =>
         \/ c.key[1] = "person" /\ c.key[2] \in DOMAIN Recalled \cup DOMAIN Reviewed_
         \/ Cardinality(c.of) >= 2 /\ c.hint # <<>>

\* A paper of the daily case report is sound (daily_case_report_analyze.rs):
\* CasesSound, LargestTold, TopicsSound and CastSound.
PaperTrue == paper.stage = "done" => CasesSound /\ LargestTold /\ TopicsSound /\ CastSound
=============================================================================
