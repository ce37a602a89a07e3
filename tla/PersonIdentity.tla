--------------------------- MODULE PersonIdentity ---------------------------
(* Who sent a message.  A QiWe user has an identity row per chat and one for *)
(* the platform; rows are linked to persons by the bootstrap (one statement  *)
(* that decides on a snapshot with the candidate rows locked), by the        *)
(* backfill of messages, and by reviewed requests that check first and write *)
(* in a later transaction.  A link or a message's person is only ever filled *)
(* in, never changed.                                                        *)
EXTENDS Naturals, Sequences, FiniteSets

CONSTANTS ChatKeys,    \* identity rows of chats: <<chat, user>>
          NickNames,   \* display names
          GivenNames,  \* the ones reviewers give
          MaxPeople,   \* bound: persons
          MaxMails     \* bound: messages

\* No chat goes by the name of the platform, no user by that of no row.
ASSUME PersonKeys ==
    /\ IsFiniteSet(ChatKeys) /\ \A k \in ChatKeys : k[1] # "all"
    /\ "none" \notin NickNames

VARIABLES label,    \* chat row |-> the name QiWe gives
          cards,    \* row |-> [name, person]; name "none": no such row
          roster,   \* rows of current room members
          people,   \* persons, by the name they were made with
          nicks,    \* aliases: <<person, name>>
          mails,    \* chat row |-> its messages: [st, person]
          boot,     \* the bootstrap: NoBoot, or the snapshot it decides on
          safe,     \* the reviewed request that was checked
          reviewed  \* history: a reviewed request took effect

uvars == <<label, cards, roster, people, nicks, mails, boot, safe, reviewed>>

Senders == {k[2] : k \in ChatKeys}
AllKeys == ChatKeys \cup {<<"all", u>> : u \in Senders}
OfUser(u) == {k \in AllKeys : k[2] = u}
NoCard == [name |-> "none", person |-> 0]
NoBoot == [pc |-> "idle"]
NoSafe == [kind |-> "none"]

PersonInit ==
    /\ label \in [ChatKeys -> NickNames]
    /\ cards = [k \in AllKeys |-> NoCard] /\ roster = {} /\ people = <<>> /\ nicks = {}
    /\ mails = [k \in ChatKeys |-> [st |-> "none", person |-> 0]]
    /\ boot = NoBoot /\ safe = NoSafe /\ reviewed = FALSE

Locked == IF boot.pc = "idle" THEN {} ELSE boot.locked
PersonsOf(c, u) == {c[k].person : k \in OfUser(u)} \ {0}

\* Who goes by a name: made with it, called it, or linked to a row of it.
Named(c, pp, nn, name) ==
    {i \in DOMAIN pp : pp[i] = name} \cup {a[1] : a \in {b \in nn : b[2] = name}}
       \cup ({c[k].person : k \in {j \in DOMAIN c : c[j].name = name}} \ {0})

MessageArrives(k) ==
    /\ mails[k].st = "none" /\ Cardinality({j \in ChatKeys : mails[j].st # "none"}) < MaxMails
    /\ mails' = [mails EXCEPT ![k].st = "new"]
    /\ UNCHANGED <<label, cards, roster, people, nicks, boot, safe, reviewed>>

-----------------------------------------------------------------------------
(* Backfill.                                                                 *)

upsert_channel_identity(c, k) == [c EXCEPT ![k].name = label[k]]

\* The roster of a chat, never empty: its rows, and the others marked gone.
apply_room_member_identities(chat, here) ==
    /\ here # {} /\ here \subseteq {k \in ChatKeys : k[1] = chat} /\ here \cap Locked = {}
    /\ cards' = [k \in AllKeys |-> IF k \in here THEN [cards[k] EXCEPT !.name = label[k]] ELSE cards[k]]
    /\ roster' = {k \in roster : k[1] # chat} \cup here
    /\ UNCHANGED <<label, people, nicks, mails, boot, safe, reviewed>>

load_identity_keys == {k \in ChatKeys : mails[k].st = "new"}

\* A user with exactly one person gets the platform row, and that person is
\* filled in on the user's other rows and messages.
materialize_platform_identity(c, u) ==
    IF Cardinality(PersonsOf(c, u)) # 1 THEN c
    ELSE LET p == CHOOSE q \in PersonsOf(c, u) : TRUE IN
         [k \in AllKeys |->
            CASE k = <<"all", u>> ->
                   [name |-> IF c[k].name = "none"
                             THEN c[CHOOSE j \in OfUser(u) : c[j].person = p].name ELSE c[k].name,
                    person |-> p]
              [] k \in OfUser(u) /\ k \in ChatKeys /\ c[k].name # "none" /\ c[k].person = 0 ->
                   [c[k] EXCEPT !.person = p]
              [] OTHER -> c[k]]
linked_messages(c, u) ==
    [k \in ChatKeys |->
        IF /\ k \in OfUser(u) /\ mails[k].st # "none" /\ mails[k].person = 0
           /\ Cardinality(PersonsOf(c, u)) = 1
        THEN [mails[k] EXCEPT !.person = CHOOSE p \in PersonsOf(c, u) : TRUE] ELSE mails[k]]

\* The name comes from the row that exists, the roster or the contacts.
apply_identity(k) ==
    /\ k \in load_identity_keys /\ OfUser(k[2]) \cap Locked = {}
    /\ LET c1 == upsert_channel_identity(cards, k)
           c2 == materialize_platform_identity(c1, k[2])
           m1 == linked_messages(c1, k[2])
       IN /\ cards' = c2
          /\ mails' = [m1 EXCEPT ![k] = [st |-> "linked",
                          person |-> IF mails[k].person # 0 THEN mails[k].person
                                     ELSE IF c1[k].person # 0 THEN c1[k].person ELSE m1[k].person]]
    /\ UNCHANGED <<label, roster, people, nicks, boot, safe, reviewed>>

\* A sender QiWe does not name waits for a day.
mark_unresolved(k) ==
    /\ k \in load_identity_keys /\ cards[k].name = "none"
    /\ mails' = [mails EXCEPT ![k].st = "parked"]
    /\ UNCHANGED <<label, cards, roster, people, nicks, boot, safe, reviewed>>
ADayLater(k) ==
    /\ mails[k].st = "parked" /\ mails' = [mails EXCEPT ![k].st = "new"]
    /\ UNCHANGED <<label, cards, roster, people, nicks, boot, safe, reviewed>>

\* The members of one chat, or the messages that wait, each on its own.
run_batch ==
    \/ \E chat \in {k[1] : k \in ChatKeys}, here \in SUBSET ChatKeys : apply_room_member_identities(chat, here)
    \/ \E k \in ChatKeys : apply_identity(k) \/ mark_unresolved(k)

-----------------------------------------------------------------------------
(* The bootstrap, of every chat or of one.                                   *)

InScope(scope, k) == k \in ChatKeys /\ (scope = "every" \/ (k[1] = scope /\ k \in roster))

candidate_sources(scope) ==
    {k \in ChatKeys : cards[k].name # "none" /\ cards[k].person = 0 /\ InScope(scope, k)}

run_bootstrap(scope) ==
    /\ boot = NoBoot /\ \E k \in ChatKeys : cards[k].name # "none" /\ InScope(scope, k)
    /\ boot' = [pc |-> "run", locked |-> candidate_sources(scope), cards |-> cards,
                people |-> people, nicks |-> nicks,
                scope |-> {k \in ChatKeys : InScope(scope, k)}]
    /\ UNCHANGED <<label, cards, roster, people, nicks, mails, safe, reviewed>>

\* By the user if that user has one person, by the name if the user has none
\* and one person goes by it; several of either wait for a person to merge.
classify_unlinked_identity_action(k) ==
    LET byUser == PersonsOf(boot.cards, k[2])
        byName == Named(boot.cards, boot.people, boot.nicks, boot.cards[k].name)
    IN CASE Cardinality(byUser) = 1 -> byUser
         [] byUser = {} /\ Cardinality(byName) = 1 -> byName
         [] byUser = {} /\ byName = {} -> {0}
         [] OTHER -> {}

existing_links == {k \in boot.locked : classify_unlinked_identity_action(k) \notin {{}, {0}}}
create_sources == {k \in boot.locked : classify_unlinked_identity_action(k) = {0}}

\* One new person per user; who comes first is a matter of the row order.
Numbering(users) == {f \in [users -> 1..Cardinality(users)] : \A u, v \in users : f[u] = f[v] => u = v}
created_links(f) == [k \in create_sources |-> Len(people) + f[k[2]]]

linked(f) ==
    [k \in existing_links \cup create_sources |->
        IF k \in create_sources THEN created_links(f)[k]
        ELSE CHOOSE p \in classify_unlinked_identity_action(k) : TRUE]

\* The platform row of users whose rows, by the snapshot and the new links,
\* name one person.
platform_identities(f) ==
    LET known(u) == PersonsOf(boot.cards, u) \cup {linked(f)[k] : k \in OfUser(u) \cap DOMAIN linked(f)}
        touched == {k[2] : k \in {j \in boot.scope : boot.cards[j].person # 0} \cup DOMAIN linked(f)}
    IN [u \in {v \in touched : Cardinality(known(v)) = 1} |-> CHOOSE p \in known(u) : TRUE]

alias_sources(f) ==
    {<<boot.cards[k].person, boot.cards[k].name>> : k \in {j \in boot.scope : boot.cards[j].person # 0}}
       \cup {<<linked(f)[k], boot.cards[k].name>> : k \in DOMAIN linked(f)}

\* The messages of rows that were linked before: the statement does not see
\* its own links, their messages wait for the next run.
updated_messages ==
    [k \in ChatKeys |->
        IF k \in boot.scope /\ boot.cards[k].person # 0 /\ mails[k].st = "linked" /\ mails[k].person = 0
        THEN [mails[k] EXCEPT !.person = boot.cards[k].person] ELSE mails[k]]

BootstrapCommits ==
    /\ boot # NoBoot
    /\ \E f \in Numbering({k[2] : k \in create_sources}) :
          LET plat == platform_identities(f) IN
          /\ Len(people) + Cardinality(DOMAIN f) <= MaxPeople
          /\ cards' = [k \in AllKeys |->
                CASE k \in DOMAIN linked(f) -> [cards[k] EXCEPT !.person = linked(f)[k]]
                  [] k[1] = "all" /\ k[2] \in DOMAIN plat /\ cards[k].person \in {0, plat[k[2]]} ->
                       [name |-> boot.cards[CHOOSE j \in ChatKeys : j[2] = k[2] /\
                                    (j \in DOMAIN linked(f) \/ boot.cards[j].person # 0)].name,
                        person |-> plat[k[2]]]
                  [] OTHER -> cards[k]]
          /\ people' = people \o [i \in 1..Cardinality(DOMAIN f) |->
                boot.cards[CHOOSE k \in create_sources : f[k[2]] = i].name]
          /\ nicks' = nicks \cup alias_sources(f)
          /\ mails' = updated_messages
    /\ boot' = NoBoot
    /\ UNCHANGED <<label, roster, safe, reviewed>>

BootstrapDies ==
    /\ boot # NoBoot /\ boot' = NoBoot
    /\ UNCHANGED <<label, cards, roster, people, nicks, mails, safe, reviewed>>

-----------------------------------------------------------------------------
(* Reviewed requests.                                                        *)

\* The row, the person asked for and the user's other rows may not disagree.
resolve_safe_identity_person(k, asked) ==
    ({cards[k].person, asked} \ {0}) \cup PersonsOf(cards, k[2])

ensure_alias_is_unique(p, name) == Named(cards, people, nicks, name) \subseteq {p}

SafeIdentityChecked(k, asked, name) ==
    /\ safe = NoSafe /\ ~reviewed /\ k \in roster /\ cards[k].name # "none" /\ asked \in 0..Len(people)
    /\ Cardinality(resolve_safe_identity_person(k, asked)) <= 1
    /\ LET p == IF resolve_safe_identity_person(k, asked) = {} THEN 0
                ELSE CHOOSE q \in resolve_safe_identity_person(k, asked) : TRUE
       IN /\ ensure_alias_is_unique(p, name)
          /\ safe' = [kind |-> "identity", key |-> k, person |-> p, name |-> name]
    /\ UNCHANGED <<label, cards, roster, people, nicks, mails, boot, reviewed>>

create_safe_identity_person == IF safe.person = 0 THEN Append(people, safe.name) ELSE people
link_safe_identity(p) == [cards EXCEPT ![safe.key].person = p]
materialize_safe_identity_platform_identity(c, k, p) ==
    IF PersonsOf(c, k[2]) = {p} /\ c[<<"all", k[2]>>].person \in {0, p}
    THEN [c EXCEPT ![<<"all", k[2]>>] = [name |-> c[k].name, person |-> p]] ELSE c
backfill_safe_identity_messages(k, p) ==
    IF mails[k].st = "linked" /\ mails[k].person = 0 THEN [mails EXCEPT ![k].person = p] ELSE mails

\* The row is linked unless it has another person by now: then the whole
\* request, a person it made included, is undone.
apply_safe_identity ==
    /\ safe.kind = "identity" /\ safe.key \notin Locked /\ safe' = NoSafe
    /\ LET k == safe.key
           p == IF safe.person = 0 THEN Len(people) + 1 ELSE safe.person
       IN IF cards[k].person \notin {0, p} \/ p > MaxPeople
          THEN UNCHANGED <<cards, people, nicks, mails, reviewed>>
          ELSE /\ people' = create_safe_identity_person
               /\ nicks' = nicks \cup {<<p, safe.name>>}
               /\ cards' = materialize_safe_identity_platform_identity(link_safe_identity(p), k, p)
               /\ mails' = backfill_safe_identity_messages(k, p)
               /\ reviewed' = TRUE
    /\ UNCHANGED <<label, roster, boot>>

SafeAliasChecked(p, name) ==
    /\ safe = NoSafe /\ ~reviewed /\ p \in DOMAIN people /\ \E k \in AllKeys : cards[k].person = p
    /\ ensure_alias_is_unique(p, name) /\ <<p, name>> \notin nicks
    /\ safe' = [kind |-> "alias", person |-> p, name |-> name]
    /\ UNCHANGED <<label, cards, roster, people, nicks, mails, boot, reviewed>>

insert_safe_alias ==
    /\ safe.kind = "alias" /\ safe' = NoSafe
    /\ nicks' = nicks \cup {<<safe.person, safe.name>>} /\ reviewed' = TRUE
    /\ UNCHANGED <<label, cards, roster, people, mails, boot>>

PersonNext ==
    \/ \E k \in ChatKeys : MessageArrives(k) \/ ADayLater(k)
    \/ run_batch
    \/ \E scope \in {k[1] : k \in ChatKeys} \cup {"every"} : run_bootstrap(scope)
    \/ BootstrapCommits \/ BootstrapDies
    \/ \E name \in GivenNames :
          \/ \E k \in ChatKeys, asked \in 0..MaxPeople : SafeIdentityChecked(k, asked, name)
          \/ \E p \in 1..MaxPeople : SafeAliasChecked(p, name)
    \/ apply_safe_identity \/ insert_safe_alias

-----------------------------------------------------------------------------
\* Users one of whose rows QiWe gives the same name.
SameName(u, v) == \E j \in OfUser(u) \cap ChatKeys, k \in OfUser(v) \cap ChatKeys : label[j] = label[k]

\* A message's person is the one its row has, or the platform row of its
\* sender; nobody is a person without a row; the platform row agrees with a
\* row of its user; and as long as no reviewer stepped in, the users of a
\* person hang together by names that QiWe gives rows of two of them, perhaps
\* along a chain: however they are divided, one of each side has such a name.
PersonsTrue ==
    /\ \A k \in ChatKeys : mails[k].person # 0 =>
          mails[k].person \in {cards[k].person, cards[<<"all", k[2]>>].person}
    /\ \A p \in DOMAIN people : \E k \in ChatKeys : cards[k].person = p
    /\ \A u \in Senders : cards[<<"all", u>>].person # 0 =>
          \E k \in OfUser(u) \cap ChatKeys : cards[k].person = cards[<<"all", u>>].person
    /\ ~reviewed => \A p \in DOMAIN people :
          LET users == {u \in Senders : p \in PersonsOf(cards, u)} IN
          \A U \in (SUBSET users) \ {{}, users} : \E u \in U, v \in users \ U : SameName(u, v)
=============================================================================
