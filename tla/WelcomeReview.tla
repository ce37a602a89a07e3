--------------------------- MODULE WelcomeReview ---------------------------
(* Human confirmation before a welcome may leave                             *)
(* (person_collaboration/store/welcome_review.rs; the gate is called by      *)
(* resident_welcome/foundation.rs, decision).  One matter: one case, its     *)
(* application, and the identities that tie both to a person.                *)
(*                                                                            *)
(* Every command runs under the tenant lock, so each is one step; a person   *)
(* looks at the matter in one step and decides in a later one.                *)
EXTENDS Naturals

CONSTANTS People,       \* persons the matter may be about
          Subjects,     \* reviewers: persons and work accounts
          Nobody,       \* model value: no person
          MaxFacts,     \* bound: changes of the application, the artifacts or the stay
          MaxItem,      \* bound: versions of the matter
          MaxSettings,  \* bound: configuration and authority changes
          MaxLink       \* bound: versions of an identity link

VARIABLES facts,    \* what the snapshot reads: text (content) and src (who it is about)
          occ,      \* source link of the PMS occupant
          chn,      \* source link of the chat account
          appPerson,\* welcome_applications.person_id
          bindsTo,  \* welcome_cases: person and the link version it was bound at
          settings, \* welcome_review_settings: version, issuer's grants still effective
          grantOf,  \* [subject -> version of the settings its grant came from, 0: none]
          item,     \* welcome_review_items joined with the content receipt
          view,     \* [subject -> the matter as that reviewer last saw it]
          shown     \* what the person who confirmed the content was looking at

rvars == <<facts, occ, chn, appPerson, bindsTo, settings, grantOf, item, view, shown>>

NoLink == [st |-> "pending", person |-> Nobody, ver |-> 1, ours |-> FALSE]
NoView == [ver |-> 0, facts |-> [text |-> 0, src |-> 0]]
NotShown == [facts |-> [text |-> 0, src |-> 0], person |-> Nobody, grant |-> 0]

\* snapshot: everything a decision rests on, read in the deciding transaction.
snapshot(ap, bt, o, c) == [facts |-> facts, app |-> ap, case |-> bt, occ |-> o, chn |-> c]

Now(i) == snapshot(appPerson, bindsTo, occ, IF i.chan THEN chn ELSE NoLink)

ReviewInit ==
    /\ facts = [text |-> 1, src |-> 1]
    /\ occ = NoLink /\ chn = NoLink
    /\ appPerson \in {Nobody} \cup People
    /\ bindsTo = [person |-> Nobody, ver |-> 0]
    /\ settings = [ver |-> 1, live |-> TRUE]
    /\ grantOf = [s \in Subjects |-> 1]
    /\ item = [st |-> "none", ver |-> 0, cfg |-> 0, saved |-> NoLink, person |-> Nobody,
               chan |-> FALSE, ident |-> FALSE, grant |-> 0, by |-> CHOOSE s \in Subjects : TRUE]
    /\ view = [s \in Subjects |-> NoView]
    /\ shown = NotShown

----------------------------------------------------------------------------
\* identity_relations_valid: application, case and link name this very person.
identity_relations_valid(ap, bt, o, c, p, chan) ==
    /\ p # Nobody /\ ap = p /\ bt.person = p
    /\ o.person = p /\ o.st = "confirmed" /\ o.ver = bt.ver
    /\ chan => c.person = p /\ c.st = "confirmed"

\* welcome_verify and welcome_authorize: the settings' issuer still holds the
\* managing grants, and the subject has a grant of its own.
welcome_authorize(s) == settings.live /\ grantOf[s] # 0

----------------------------------------------------------------------------
(* The world around the matter.                                              *)

\* The application, its consent, the artifacts or the stay change.
FactsChange(k) ==
    /\ facts.text + facts.src < MaxFacts + 2
    /\ facts' = [facts EXCEPT ![k] = @ + 1]
    /\ UNCHANGED <<occ, chn, appPerson, bindsTo, settings, grantOf, item, view, shown>>

(* Another workflow confirms or revokes an identity link of the matter.       *)
LinkChanges(l, p) ==
    LET step(k) == IF k.st = "confirmed" THEN [k EXCEPT !.st = "revoked", !.ver = @ + 1]
                   ELSE [st |-> "confirmed", person |-> p, ver |-> k.ver + 1, ours |-> FALSE]
        may(k)  == k.ver < MaxLink /\ k.st # "revoked" IN
    /\ \/ l = "occ" /\ may(occ) /\ occ' = step(occ) /\ UNCHANGED chn
       \/ l = "chn" /\ may(chn) /\ chn' = step(chn) /\ UNCHANGED occ
    /\ UNCHANGED <<facts, appPerson, bindsTo, settings, grantOf, item, view, shown>>

(* welcome_settings_save: compare-and-set on the version; all grants of the   *)
(* scope are revoked and the new ones issued.                                 *)
welcome_settings_save(R) ==
    /\ settings.ver < MaxSettings
    /\ settings' = [ver |-> settings.ver + 1, live |-> TRUE]
    /\ grantOf' = [s \in Subjects |-> IF s \in R THEN settings.ver + 1 ELSE 0]
    /\ UNCHANGED <<facts, occ, chn, appPerson, bindsTo, item, view, shown>>

(* welcome_account_register: a work account registered again does not keep    *)
(* the authority issued to its old version.                                   *)
welcome_account_register(s) ==
    /\ grantOf[s] # 0
    /\ grantOf' = [grantOf EXCEPT ![s] = 0]
    /\ UNCHANGED <<facts, occ, chn, appPerson, bindsTo, settings, item, view, shown>>

\* The issuer of the settings loses the managing grant.
IssuerRevoked ==
    /\ settings.live
    /\ settings' = [settings EXCEPT !.live = FALSE]
    /\ UNCHANGED <<facts, occ, chn, appPerson, bindsTo, grantOf, item, view, shown>>

----------------------------------------------------------------------------
(* The matter.                                                               *)

\* A matter opened again: an identity confirmed from what has changed since is
\* no longer confirmed; content never stays confirmed.
Reopened(now) ==
    LET gone == item.ident /\ ~identity_relations_valid(appPerson, bindsTo, occ, chn, item.person, item.chan)
        diff == \/ gone
                \/ item.saved.occ # now.occ \/ item.saved.chn # now.chn
                \/ item.saved.app # now.app \/ item.saved.case # now.case
                \/ item.saved.facts.src # now.facts.src IN
    [item EXCEPT !.st = "pending", !.ver = @ + 1, !.cfg = settings.ver, !.saved = now,
                 !.grant = 0, !.ident = @ /\ ~diff]

(* welcome_review_open_task: nothing happens when nothing has changed.        *)
welcome_review_open ==
    LET now == Now(item)
        same == /\ item.saved = now /\ item.cfg = settings.ver
                /\ item.st \notin {"revoked", "rejected"}
                /\ item.ident => identity_relations_valid(appPerson, bindsTo, occ, chn, item.person, item.chan) IN
    /\ item.ver < MaxItem
    /\ \/ item.st = "none"
          /\ item' = [item EXCEPT !.st = "pending", !.ver = 1, !.cfg = settings.ver, !.saved = now]
       \/ item.st # "none" /\ ~same /\ item' = Reopened(now)
    /\ UNCHANGED <<facts, occ, chn, appPerson, bindsTo, settings, grantOf, view, shown>>

(* welcome_review_page and welcome_operations_list: a reviewer looks.         *)
Look(s) ==
    /\ item.st # "none" /\ welcome_authorize(s)
    /\ view[s] # [ver |-> item.ver, facts |-> item.saved.facts]
    /\ view' = [view EXCEPT ![s] = [ver |-> item.ver, facts |-> item.saved.facts]]
    /\ UNCHANGED <<facts, occ, chn, appPerson, bindsTo, settings, grantOf, item, shown>>

\* Mutant: the version the reviewer saw is not compared.
DecidableMutant(s) == item.st # "none" /\ welcome_authorize(s) /\ item.cfg = settings.ver
                      /\ item.ver < MaxItem

\* The guards every decision shares: authority, the version the reviewer saw, and
\* the configuration the matter was opened under.
Decidable(s) ==
    /\ item.st # "none" /\ welcome_authorize(s)
    /\ view[s].ver = item.ver
    /\ item.cfg = settings.ver
    /\ item.ver < MaxItem

\* confirm_link: a pending link, or one this matter had revoked itself.
Linkable(l, p) == /\ l.person \in {Nobody, p} \/ (l.st = "revoked" /\ l.ours)
                  /\ l.st \in {"confirmed", "pending"} \/ (l.st = "revoked" /\ l.ours)
                  /\ l.ver < MaxLink
confirm_link(l, p) == IF l.st = "confirmed" THEN l
                      ELSE [st |-> "confirmed", person |-> p, ver |-> l.ver + 1, ours |-> TRUE]

(* welcome_review_decide with create_person: a new person for a source link   *)
(* nobody has; the application and the stay are still to be matched.          *)
create_person(s, p) ==
    /\ Decidable(s) /\ item.st = "pending" /\ item.saved = Now(item)
    /\ item.person = Nobody /\ appPerson = Nobody /\ bindsTo.person = Nobody
    /\ occ.st = "pending" /\ occ.ver < MaxLink
    /\ occ' = confirm_link(occ, p)
    /\ item' = [item EXCEPT !.ver = @ + 1,
                            !.saved = snapshot(appPerson, bindsTo, occ', IF item.chan THEN chn ELSE NoLink)]
    /\ UNCHANGED <<facts, chn, appPerson, bindsTo, settings, grantOf, view, shown>>

(* welcome_review_decide with confirm of the identity: application, stay and  *)
(* (when asked) the chat account are tied to one chosen person.               *)
confirm_identity(s, p, withStay, withChan) ==
    /\ Decidable(s) /\ item.st \notin {"revoked", "rejected"} /\ item.saved = Now(item)
    /\ withStay \/ withChan
    /\ item.person \in {Nobody, p}
    /\ withStay => appPerson \in {Nobody, p} /\ bindsTo.person \in {Nobody, p} /\ Linkable(occ, p)
    /\ withChan => Linkable(chn, p)
    /\ occ' = IF withStay THEN confirm_link(occ, p) ELSE occ
    /\ chn' = IF withChan THEN confirm_link(chn, p) ELSE chn
    /\ appPerson' = IF withStay THEN p ELSE appPerson
    /\ bindsTo' = IF withStay THEN [person |-> p, ver |-> occ'.ver] ELSE bindsTo
    /\ LET chan == item.chan \/ withChan
           ident == item.ident \/ withStay IN
       item' = [item EXCEPT !.ver = @ + 1, !.person = IF withStay THEN p ELSE @, !.chan = chan,
                            !.ident = ident, !.grant = 0,
                            !.st = IF ident THEN "identity_confirmed" ELSE "pending",
                            !.saved = snapshot(appPerson', bindsTo', occ', IF chan THEN chn' ELSE NoLink)]
    /\ UNCHANGED <<facts, settings, grantOf, view, shown>>

(* welcome_review_decide with confirm_content: only over a confirmed, still   *)
(* valid identity and the content that was on display.                        *)
confirm_content(s) ==
    /\ Decidable(s) /\ item.st \notin {"revoked", "rejected"} /\ item.saved = Now(item)
    /\ item.person # Nobody /\ item.ident /\ item.chan
    /\ identity_relations_valid(appPerson, bindsTo, occ, chn, item.person, TRUE)
    /\ item' = [item EXCEPT !.ver = @ + 1, !.st = "confirmed", !.grant = grantOf[s], !.by = s]
    /\ shown' = [facts |-> view[s].facts, person |-> item.person, grant |-> grantOf[s]]
    /\ UNCHANGED <<facts, occ, chn, appPerson, bindsTo, settings, grantOf, view>>

\* What a revocation undoes: the links this matter itself confirmed.
Unlinked(l) == IF l.ours /\ l.st = "confirmed" THEN [l EXCEPT !.st = "revoked", !.ver = @ + 1] ELSE l

(* welcome_review_decide with reject or revoke: the matter is closed; a       *)
(* revocation also takes back what the matter confirmed, and nothing else.    *)
close_matter(s, d) ==
    /\ Decidable(s)
    /\ item.st # d
    /\ occ.ver < MaxLink /\ chn.ver < MaxLink
    /\ IF d = "revoked"
       THEN /\ occ' = Unlinked(occ) /\ chn' = Unlinked(chn)
            /\ appPerson' = IF occ.ours /\ appPerson = item.person THEN Nobody ELSE appPerson
            /\ bindsTo' = IF occ.ours THEN [person |-> Nobody, ver |-> 0] ELSE bindsTo
       ELSE UNCHANGED <<occ, chn, appPerson, bindsTo>>
    /\ item' = [item EXCEPT !.ver = @ + 1, !.st = d, !.person = Nobody, !.chan = FALSE,
                            !.ident = FALSE, !.grant = 0]
    /\ shown' = NotShown
    /\ UNCHANGED <<facts, settings, grantOf, view>>

\* assert_operations_review: the gate in front of every preparation, claim and
\* send of the delivery.
assert_operations_review ==
    /\ item.st = "confirmed" /\ item.cfg = settings.ver
    /\ item.saved = Now(item)
    /\ item.ident /\ item.chan
    /\ identity_relations_valid(appPerson, bindsTo, occ, chn, item.person, TRUE)
    /\ welcome_authorize(item.by) /\ grantOf[item.by] = item.grant

ReviewNext ==
    \/ \E k \in {"text", "src"} : FactsChange(k)
    \/ \E l \in {"occ", "chn"} : \E p \in People : LinkChanges(l, p)
    \/ \E R \in SUBSET Subjects : welcome_settings_save(R)
    \/ IssuerRevoked \/ welcome_review_open
    \/ \E s \in Subjects :
          \/ welcome_account_register(s) \/ Look(s) \/ confirm_content(s)
          \/ \E d \in {"rejected", "revoked"} : close_matter(s, d)
          \/ \E p \in People :
                \/ create_person(s, p)
                \/ \E a \in BOOLEAN : \E c \in BOOLEAN : confirm_identity(s, p, a, c)

----------------------------------------------------------------------------
(* What the gates let out is what a person saw and confirmed: the content on  *)
(* display at the confirmation is the content of now, the application, the    *)
(* case and both identity links still name the confirmed person, the          *)
(* confirming reviewer's grant has not been replaced since                    *)
(* (welcome_review.rs, assert_operations_review).                             *)
ReleasedAsReviewed ==
    assert_operations_review =>
        /\ shown.facts = facts
        /\ {appPerson, bindsTo.person, occ.person, chn.person} = {shown.person}
        /\ occ.st = "confirmed" /\ chn.st = "confirmed"
        /\ shown.grant # 0 /\ \E s \in Subjects : grantOf[s] = shown.grant
=============================================================================
