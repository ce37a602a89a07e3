------------------------- MODULE ConversationIngress -------------------------
(* Messages of the Feishu chats an operator opened: the gateway signs each   *)
(* message with a fresh nonce, a delivery may be late, lost or repeated, and *)
(* the ingress records it once, under the policy of its conversation that is *)
(* in force.  The operator applies new versions of the policies meanwhile,   *)
(* and the service is restarted with groups opened or closed.  An agent that *)
(* read a message asks, with the message as its session, for a poster or     *)
(* for the status of one; such a request writes in several statements and    *)
(* may be cut off between any two of them (operations_intake.rs).            *)
EXTENDS Integers, Sequences, FiniteSets

CONSTANTS Talks,        \* conversations within the deployment's allowlist
          Known,        \* users within it
          Mail,         \* messages: [id, chat, type, from, bot, text]
          Decrees,      \* the policies an operator may write
          MaxPast, MaxAhead,   \* MAX_PAST_SECONDS, MAX_FUTURE_SECONDS
          NonceLife,    \* NONCE_EXPIRY_SECONDS
          PruneAfter,   \* the hour an expired nonce is still kept
          MaxNonces,    \* bound: signatures
          MaxDecrees,   \* bound: versions of a policy
          MaxWall,      \* bound: the clock
          Askers,       \* users a request may name
          MaxAsks       \* bound: requests

\* A message is too old before the nonce it came with is deleted.
ASSUME NoncesOutlive ==
  /\ MaxPast \in Nat /\ MaxAhead \in Nat /\ NonceLife \in Nat /\ PruneAfter \in Nat
  /\ MaxPast <= NonceLife + PruneAfter

VARIABLES rulebook,   \* conversation |-> its policy versions: [rule, on]
          letters,    \* what the gateway signed: [nonce, at, mail]
          nonces,     \* the nonces kept: [nonce, until]
          entries,    \* message id |-> the message recorded
          receipts,   \* message id |-> [ver, mail]
          admitted,   \* nonce |-> how often it was let in
          groups_on,  \* whether the running service takes messages of groups
          wall,
          asks,         \* requests: [by, as, want, about, at]
          targets,      \* message id |-> the return target of its poster
          posters,      \* message id |-> its workflow: [parts, allowed]
          shown         \* history: [to, about], the sessions shown a status
askVars == <<asks, targets, posters, shown>>
gvars == <<rulebook, letters, nonces, entries, receipts, admitted, groups_on, wall, askVars>>

IngressInit ==
    /\ rulebook = [c \in Talks |-> <<>>]
    /\ letters = {} /\ nonces = {} /\ entries = <<>> /\ receipts = <<>>
    /\ admitted = <<>> /\ wall = 0
    /\ groups_on = FALSE
    /\ asks = <<>> /\ targets = <<>> /\ posters = <<>> /\ shown = {}

Put(f, k, v) == [i \in DOMAIN f \cup {k} |-> IF i = k THEN v ELSE f[i]]

(***************************************************************************)
(* The policies                                                            *)
(***************************************************************************)

\* What an audience implies: the type of the chat, if it does, and how an
\* answer is returned.
Semantics(p) == CASE p.aud = "private" -> p.type = "direct" /\ p.return = "chat"
                  [] p.aud = "internal" -> p.type = "group" /\ p.return = "thread"
                  [] p.aud = "community" -> p.return = "none"
validate_policy(p) ==
    /\ p.chat \in Talks
    /\ IF p.aud = "community" THEN p.may = {} ELSE "produce" \in p.may
    /\ Semantics(p)
    /\ p.aud # "internal" => p.reviewers = {}
    /\ p.reviewers \subseteq Known
validate_policy_input(B) ==
    /\ B # {} /\ \A p \in B : validate_policy(p)
    /\ \A p, q \in B : p.chat = q.chat => p = q

\* The versions of a conversation after a policy: the same as the last one is
\* no new version, any other is the only one in force, if it is at all.
Applied(vs, p) ==
    IF vs # <<>> /\ vs[Len(vs)] = [rule |-> p, on |-> p.on] THEN vs
    ELSE Append([i \in DOMAIN vs |-> [vs[i] EXCEPT !.on = FALSE]], [rule |-> p, on |-> p.on])

\* One transaction for the whole input, under a lock for each conversation.
apply_policies(B) ==
    /\ validate_policy_input(B)
    /\ \A p \in B : Len(rulebook[p.chat]) < MaxDecrees
    /\ rulebook' = [c \in Talks |-> IF \E p \in B : p.chat = c
                                    THEN Applied(rulebook[c], CHOOSE p \in B : p.chat = c)
                                    ELSE rulebook[c]]
    /\ UNCHANGED <<letters, nonces, entries, receipts, admitted, groups_on, wall, askVars>>

(***************************************************************************)
(* The messages                                                            *)
(***************************************************************************)

\* A restart with groups opened or closed.  An ingress that is switched off
\* takes nothing, which only delays; groups are never opened without it.
from_values(s) ==
    /\ s # groups_on
    /\ groups_on' = s
    /\ UNCHANGED <<rulebook, letters, nonces, entries, receipts, admitted, wall, askVars>>

\* The gateway signs a message, again for each retry; its clock may be ahead.
Sign(m, skew) ==
    /\ Cardinality(letters) < MaxNonces
    /\ letters' = letters \cup
          {[nonce |-> Cardinality(letters) + 1, at |-> wall + skew, mail |-> m]}
    /\ UNCHANGED <<rulebook, nonces, entries, receipts, admitted, groups_on, wall, askVars>>

\* The envelope is recent, and the message one this deployment listens to: in
\* a group only one that names the bot.
verify_envelope(e) == e.at >= wall - MaxPast /\ e.at <= wall + MaxAhead
validate_message(m) ==
    /\ m.chat \in Talks /\ m.from \in Known
    /\ IF m.type = "group" THEN groups_on /\ m.bot ELSE ~m.bot

\* The policy in force must allow the production of posters and be of the
\* type of the message.
load_active_policy(c) ==
    {v \in DOMAIN rulebook[c] : /\ rulebook[c][v].on
                                /\ \A w \in DOMAIN rulebook[c] : rulebook[c][w].on => w <= v
                                /\ "produce" \in rulebook[c][v].rule.may}
validate_active_policy(m, p) ==
    /\ p.type = m.type
    /\ IF m.type = "direct" THEN p.aud = "private" ELSE groups_on /\ p.aud = "internal"

\* A message known already must be the same one, and its receipt of the same
\* policy: a retry after a new version is refused.
Fits(m, v) ==
    /\ m.id \in DOMAIN entries => entries[m.id] = m
    /\ m.id \in DOMAIN receipts => receipts[m.id] = [ver |-> v, mail |-> m]

\* Nonces long expired are deleted with each message that is let in.
Pruned(N) == {n \in N : n.until >= wall - PruneAfter}

\* One transaction: a refusal keeps nothing, the nonce included.
persist_verified_message(e) ==
    /\ verify_envelope(e) /\ validate_message(e.mail)
    /\ \A n \in nonces : n.nonce # e.nonce
    /\ \E v \in load_active_policy(e.mail.chat) :
         /\ validate_active_policy(e.mail, rulebook[e.mail.chat][v].rule)
         /\ Fits(e.mail, v)
         /\ receipts' = Put(receipts, e.mail.id, [ver |-> v, mail |-> e.mail])
    /\ nonces' = Pruned(nonces \cup {[nonce |-> e.nonce, until |-> e.at + NonceLife]})
    /\ entries' = Put(entries, e.mail.id, e.mail)
    /\ admitted' = Put(admitted, e.nonce,
                       1 + IF e.nonce \in DOMAIN admitted THEN admitted[e.nonce] ELSE 0)
    /\ UNCHANGED <<rulebook, letters, groups_on, wall, askVars>>

WallTick == wall < MaxWall /\ wall' = wall + 1
            /\ UNCHANGED <<rulebook, letters, nonces, entries, receipts, admitted, groups_on, askVars>>

(***************************************************************************)
(* The requests                                                            *)
(***************************************************************************)

\* A session is the message it quotes: received in that conversation from
\* that user, and its policy still in force, unchanged, and allowing the want.
resolve_session(s, want) ==
    /\ s.id \in DOMAIN receipts
    /\ entries[s.id].chat = s.chat /\ entries[s.id].from = s.from
    /\ LET v == rulebook[s.chat][receipts[s.id].ver] IN
         v.on /\ want \in v.rule.may /\ validate_active_policy(entries[s.id], v.rule)
Binding(s) == [ver |-> receipts[s.id].ver, chat |-> s.chat, type |-> entries[s.id].type, from |-> s.from]

\* A runtime asks; a session that does not resolve ends the request here.
Ask(s, want, about) ==
    /\ Len(asks) < MaxAsks
    /\ resolve_session(s, want)
    /\ asks' = Append(asks, [by |-> s, as |-> Binding(s), want |-> want, about |-> about, at |-> "resolved"])
    /\ UNCHANGED <<rulebook, letters, nonces, entries, receipts, admitted, groups_on, wall, targets, posters, shown>>

At(i, want, from) == asks[i].want = want /\ asks[i].at = from
Goes(i, to) == asks' = [asks EXCEPT ![i].at = to]

\* One target for each message; another binding of it is refused.
upsert_return_target(i) ==
    /\ At(i, "produce", "resolved")
    /\ LET k == asks[i].by.id IN
         IF k \in DOMAIN targets /\ targets[k] # asks[i].as
         THEN Goes(i, "over") /\ UNCHANGED targets
         ELSE Goes(i, "target") /\ targets' = Put(targets, k, asks[i].as)
    /\ UNCHANGED <<posters, shown>>

\* The workflow has the message as its key: a repetition finds it.
source_idempotency_key(i) ==
    /\ At(i, "produce", "target") /\ Goes(i, "workflow")
    /\ posters' = IF asks[i].by.id \in DOMAIN posters THEN posters
                  ELSE Put(posters, asks[i].by.id, [parts |-> {}, allowed |-> FALSE])
    /\ UNCHANGED <<targets, shown>>

\* Who takes part: the requester and the reviewers of the session's policy.
snapshot_workflow_participants(i) ==
    /\ At(i, "produce", "workflow") /\ Goes(i, "parts")
    /\ LET a == asks[i].as IN
         posters' = [posters EXCEPT ![asks[i].by.id].parts =
                       @ \cup {<<a.from, "requester">>}
                         \cup {<<u, "reviewer">> : u \in rulebook[a.chat][a.ver].rule.reviewers}]
    /\ UNCHANGED <<targets, shown>>

record_generation_authorization(i) ==
    /\ At(i, "produce", "parts") /\ Goes(i, "over")
    /\ posters' = [posters EXCEPT ![asks[i].by.id].allowed = TRUE]
    /\ UNCHANGED <<targets, shown>>

\* The poster was asked for in this conversation and, in a direct chat, by
\* this user.
authorize_status_read(i) ==
    LET w == asks[i].about IN
    /\ w \in DOMAIN posters /\ w \in DOMAIN targets
    /\ targets[w].type = asks[i].as.type /\ targets[w].chat = asks[i].as.chat
    /\ targets[w].type = "direct" => targets[w].from = asks[i].as.from
ReadStatus(i) ==
    /\ At(i, "status", "resolved") /\ Goes(i, "over")
    /\ authorize_status_read(i)
    /\ shown' = shown \cup {[to |-> asks[i].by.id, about |-> asks[i].about]}
    /\ UNCHANGED <<targets, posters>>

\* The caller is given up on after HANDLE_TIMEOUT, which drops the request
\* wherever it is; and so does a crash.
handle_connection(i) ==
    /\ asks[i].at # "over" /\ Goes(i, "over")
    /\ UNCHANGED <<targets, posters, shown>>

handle_request(i) ==
    /\ \/ upsert_return_target(i) \/ source_idempotency_key(i) \/ snapshot_workflow_participants(i)
       \/ record_generation_authorization(i) \/ ReadStatus(i) \/ handle_connection(i)
    /\ UNCHANGED <<rulebook, letters, nonces, entries, receipts, admitted, groups_on, wall>>

IngressNext ==
    \/ \E B \in {S \in SUBSET Decrees : Cardinality(S) <= 2} : apply_policies(B)
    \/ \E s \in BOOLEAN : from_values(s)
    \/ \E m \in Mail, skew \in 0 .. MaxAhead : Sign(m, skew)
    \/ \E e \in letters : persist_verified_message(e)
    \/ WallTick
    \/ \E id \in DOMAIN receipts, c \in Talks, u \in Askers : LET s == [id |-> id, chat |-> c, from |-> u] IN
         \/ Ask(s, "produce", id)
         \/ \E about \in DOMAIN posters : Ask(s, "status", about)
    \/ \E i \in DOMAIN asks : handle_request(i)

\* A signature lets a message in once, however often and late it arrives and
\* whatever nonces were deleted since.  Each message let in is recorded as it
\* was signed, with the one policy that let it in, which was made for a chat
\* of its type, allows the work and is never for the community.  No version of
\* a policy but the last is in force (conversation_ingress.rs,
\* persist_verified_message; conversation_policy.rs, apply_policies).
\* A poster goes back where its message came from; one that may be generated
\* has the requester and the reviewers of that message's policy, whatever was
\* cut off or became of the policy meanwhile; and a status is shown only where
\* the poster was asked for, in a direct chat to the one who asked
\* (operations_intake.rs, handle_request).
IngressTrue ==
    /\ \A n \in DOMAIN admitted : admitted[n] = 1
    /\ \A e \in letters : e.nonce \in DOMAIN admitted => entries[e.mail.id] = e.mail
    /\ DOMAIN entries = DOMAIN receipts
    /\ \A i \in DOMAIN entries :
         LET r == receipts[i] IN LET p == rulebook[r.mail.chat][r.ver].rule IN
         /\ entries[i] = r.mail
         /\ p.type = r.mail.type /\ "produce" \in p.may /\ p.aud # "community"
         /\ r.mail.type = "group" => r.mail.bot
    /\ \A c \in Talks, v \in 1 .. MaxDecrees :
         v < Len(rulebook[c]) => ~rulebook[c][v].on /\ rulebook[c][v].rule # rulebook[c][v + 1].rule
    /\ DOMAIN posters \subseteq DOMAIN targets
    /\ \A w \in DOMAIN targets :
         LET m == entries[w] IN LET v == receipts[w].ver IN
         /\ targets[w] = [ver |-> v, chat |-> m.chat, type |-> m.type, from |-> m.from]
         /\ w \in DOMAIN posters /\ posters[w].allowed =>
              posters[w].parts = {<<m.from, "requester">>}
                \cup {<<u, "reviewer">> : u \in rulebook[m.chat][v].rule.reviewers}
    /\ \A s \in shown : /\ entries[s.to].chat = entries[s.about].chat
                        /\ entries[s.about].type = "direct" => entries[s.to].from = entries[s.about].from
=============================================================================
